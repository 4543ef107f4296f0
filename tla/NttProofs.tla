------------------------------ MODULE NttProofs -----------------------------
(***************************************************************************)
(* The number theoretic transform multiplies modulo X^N + 1, for every     *)
(* degree, modulus and root that NttAssumption admits.                     *)
(*                                                                         *)
(* Before layer i + 1 an array is Wide(i) blocks of Length[i] coefficients.*)
(* Block k stands for a polynomial modulo X^Length[i] - Turn(i, k), and    *)
(* Level(a, b, i) holds the products of the blocks of a and of b.  A layer *)
(* forward takes the polynomials of a block to their remainders modulo the *)
(* two factors of the block's modulus (LayerOnPiece), so that the level    *)
(* below follows from the level above (LevelStep); a layer back undoes it, *)
(* but for a factor 2 (PairBack).  Level 0 is the negacyclic product       *)
(* (LevelZero), the last level the product coefficient by coefficient      *)
(* (LevelLast).  The factors R^-1 and N that are left at the end are what  *)
(* the literal f removes (FactorCancels).                                  *)
(*                                                                         *)
(* Congruences are stated with Same and products with Mul, whose           *)
(* definitions are only expanded in the first lemmas about them.           *)
(***************************************************************************)
EXTENDS MlDsaProofs, Ntt

(* Congruence modulo q.                                                    *)
Same(x, y) == \E n \in Int : x = y + Mul(n, q)

LEMMA WordFacts ==
    /\ q \in Int /\ q > 0 /\ HalfR \in Int /\ HalfR > 0
    /\ R \in Int /\ R > 0 /\ QINV \in Int
  BY MontgomeryAssumption DEF R

LEMMA MulMore ==
    /\ \A x, y, z \in Int : /\ Mul(x + y, z) = Mul(x, z) + Mul(y, z)
                            /\ Mul(x - y, z) = Mul(x, z) - Mul(y, z)
                            /\ Mul(x, y - z) = Mul(x, y) - Mul(x, z)
                            /\ Mul(Mul(x, y), z) = Mul(x, Mul(y, z))
    /\ \A x \in Int : Mul(0, x) = 0 /\ Mul(1, x) = x /\ Mul(x, 1) = x
    /\ \A x, y \in Int : Mul(-x, y) = -Mul(x, y)
  BY DEF Mul

LEMMA MulQ ==
    \A n, m \in Int : /\ Mul(n, q) \in Int /\ Mul(n + m, q) = Mul(n, q) + Mul(m, q)
                      /\ Mul(n - m, q) = Mul(n, q) - Mul(m, q)
  <1>1. q \in Int
    BY WordFacts
  <1> QED BY <1>1, MulFacts, MulMore

(* Congruence is an equivalence.                                           *)
LEMMA SameBasics ==
    /\ \A x \in Int : Same(x, x)
    /\ \A x, y \in Int : Same(x, y) => Same(y, x)
    /\ \A x, y, z \in Int : Same(x, y) /\ Same(y, z) => Same(x, z)
  <1>1. ASSUME NEW x \in Int PROVE Same(x, x)
    <2>1. Mul(0, q) = 0 /\ x = x + 0
      BY WordFacts, MulMore
    <2> QED BY <2>1 DEF Same
  <1>2. ASSUME NEW x \in Int, NEW y \in Int, Same(x, y) PROVE Same(y, x)
    <2>1. PICK n \in Int : x = y + Mul(n, q)
      BY <1>2 DEF Same
    <2>2. Mul(-n, q) = -Mul(n, q) /\ Mul(n, q) \in Int /\ -n \in Int
      BY WordFacts, MulMore, MulFacts
    <2>3. y = x + Mul(-n, q)
      BY <2>1, <2>2
    <2> QED BY <2>2, <2>3 DEF Same
  <1>3. ASSUME NEW x \in Int, NEW y \in Int, NEW z \in Int, Same(x, y), Same(y, z)
        PROVE  Same(x, z)
    <2>1. PICK n \in Int : x = y + Mul(n, q)
      BY <1>3 DEF Same
    <2>2. PICK m \in Int : y = z + Mul(m, q)
      BY <1>3 DEF Same
    <2>3. Mul(m + n, q) = Mul(m, q) + Mul(n, q) /\ Mul(n, q) \in Int /\ Mul(m, q) \in Int
      BY WordFacts, MulMore, MulFacts
    <2>4. x = z + Mul(m + n, q) /\ m + n \in Int
      BY <2>1, <2>2, <2>3
    <2> QED BY <2>4 DEF Same
  <1> QED BY <1>1, <1>2, <1>3

(* Sums, differences and products of congruent numbers.                    *)
LEMMA SameAdd ==
    \A x, y, u, v \in Int : Same(x, u) /\ Same(y, v) =>
        Same(x + y, u + v) /\ Same(x - y, u - v)
  <1> SUFFICES ASSUME NEW x \in Int, NEW y \in Int, NEW u \in Int, NEW v \in Int,
                      Same(x, u), Same(y, v)
               PROVE  Same(x + y, u + v) /\ Same(x - y, u - v)
    OBVIOUS
  <1>1. PICK n \in Int : x = u + Mul(n, q)
    BY DEF Same
  <1>2. PICK m \in Int : y = v + Mul(m, q)
    BY DEF Same
  <1>3. /\ Mul(n, q) \in Int /\ Mul(m, q) \in Int
        /\ Mul(n + m, q) = Mul(n, q) + Mul(m, q) /\ Mul(n - m, q) = Mul(n, q) - Mul(m, q)
    BY MulQ
  <1>4. /\ x + y = (u + v) + Mul(n + m, q) /\ n + m \in Int
        /\ x - y = (u - v) + Mul(n - m, q) /\ n - m \in Int
    BY <1>1, <1>2, <1>3
  <1> QED BY <1>4 DEF Same

LEMMA SameScale ==
    \A x, y, u \in Int : Same(x, u) => Same(Mul(y, x), Mul(y, u))
  <1> SUFFICES ASSUME NEW x \in Int, NEW y \in Int, NEW u \in Int, Same(x, u)
               PROVE  Same(Mul(y, x), Mul(y, u))
    OBVIOUS
  <1>1. PICK n \in Int : x = u + Mul(n, q)
    BY DEF Same
  <1>2. Mul(n, q) \in Int /\ Mul(y, n) \in Int
    BY WordFacts, MulFacts
  <1>3. Mul(y, u + Mul(n, q)) = Mul(y, u) + Mul(y, Mul(n, q))
    BY <1>2, MulFacts
  <1>4. Mul(Mul(y, n), q) = Mul(y, Mul(n, q))
    BY WordFacts, MulMore
  <1> QED BY <1>1, <1>2, <1>3, <1>4 DEF Same

LEMMA SameMul ==
    \A x, y, u, v \in Int : Same(x, u) /\ Same(y, v) => Same(Mul(x, y), Mul(u, v))
  <1> SUFFICES ASSUME NEW x \in Int, NEW y \in Int, NEW u \in Int, NEW v \in Int,
                      Same(x, u), Same(y, v)
               PROVE  Same(Mul(x, y), Mul(u, v))
    OBVIOUS
  <1>1. Same(Mul(x, y), Mul(x, v)) /\ Same(Mul(v, x), Mul(v, u))
    BY SameScale
  <1>2. Mul(v, x) = Mul(x, v) /\ Mul(v, u) = Mul(u, v)
    BY MulFacts
  <1>3. Mul(x, y) \in Int /\ Mul(x, v) \in Int /\ Mul(u, v) \in Int
    BY MulFacts
  <1> QED BY <1>1, <1>2, <1>3, SameBasics

(* A remainder is the same as what it is left of.                          *)
LEMMA SameRemainder ==
    \A x \in Int : /\ (x % q) \in Int /\ 0 <= (x % q) /\ (x % q) < q /\ Same(x % q, x)
                   /\ Same(x - q, x)
  <1> SUFFICES ASSUME NEW x \in Int
               PROVE  /\ (x % q) \in Int /\ 0 <= (x % q) /\ (x % q) < q /\ Same(x % q, x)
                      /\ Same(x - q, x)
    OBVIOUS
  <1>1. /\ (x % q) \in Int /\ 0 <= (x % q) /\ (x % q) < q /\ (x \div q) \in Int
        /\ x = q * (x \div q) + (x % q)
    BY WordFacts
  <1> DEFINE d == x \div q
             r == x % q
  <1>2. Same(r, x)
    <2>1. d \in Int /\ r \in Int /\ x = Mul(q, d) + r
      BY <1>1 DEF Mul
    <2> HIDE DEF d, r
    <2>2. Mul(q, d) = Mul(d, q) /\ Mul(-d, q) = -Mul(d, q) /\ Mul(d, q) \in Int /\ -d \in Int
      BY <2>1, WordFacts, MulFacts, MulMore
    <2>3. r = x + Mul(-d, q)
      BY <2>1, <2>2
    <2> QED BY <2>2, <2>3 DEF Same
  <1>3. Same(x - q, x)
    <2>1. Mul(-1, q) = -q
      BY WordFacts DEF Mul
    <2>2. x - q = x + Mul(-1, q) /\ -1 \in Int
      BY <2>1, WordFacts
    <2> QED BY <2>2 DEF Same
  <1> QED BY <1>1, <1>2, <1>3

(* What is the same has no remainder.                                      *)
LEMMA SameDifference ==
    \A x, y \in Int : Same(x, y) => (x - y) % q = 0
  <1> SUFFICES ASSUME NEW x \in Int, NEW y \in Int, Same(x, y)
               PROVE  (x - y) % q = 0
    OBVIOUS
  <1>1. PICK n \in Int : x = y + Mul(n, q)
    BY DEF Same
  <1> DEFINE d == x - y
  <1>2. d \in Int /\ d = q * n
    <2>1. Mul(n, q) = q * n /\ Mul(n, q) \in Int
      BY WordFacts DEF Mul
    <2> QED BY <1>1, <2>1
  <1> HIDE DEF d
  <1>3. /\ (d % q) \in Int /\ 0 <= (d % q) /\ (d % q) < q /\ (d \div q) \in Int
        /\ d = q * (d \div q) + (d % q)
    BY <1>2, WordFacts
  <1> DEFINE e == d \div q
             r == d % q
  <1>4. e \in Int /\ r \in Int /\ 0 <= r /\ r < q /\ q * n = q * e + r
    BY <1>2, <1>3
  <1> HIDE DEF e, r
  <1>5. q * e <= q * n /\ q * n < q * (e + 1)
    BY <1>4, WordFacts
  <1>6. n < e + 1
    <2>1. e + 1 \in Int
      BY <1>4
    <2> QED BY <1>5, <2>1, WordFacts, Smaller
  <1>7. e <= n
    <2> SUFFICES ASSUME n < e PROVE FALSE
      BY <1>4
    <2>1. n + 1 <= e
      BY <1>4
    <2>2. q * (n + 1) <= q * e
      BY <1>4, <2>1, WordFacts
    <2> QED BY <1>4, <2>2, WordFacts
  <1>8. e = n
    BY <1>4, <1>6, <1>7
  <1>9. r = 0
    BY <1>4, <1>8, WordFacts
  <1> QED BY <1>9 DEF r, d

-----------------------------------------------------------------------------
(* For any argument at all.                                                *)
LEMMA MontgomeryDivides ==
    ASSUME NEW a \in Int
    PROVE  /\ montgomery_reduce(a) \in Int
           /\ \E n \in Int : montgomery_reduce(a) * R = a + n * q
  <1> DEFINE r == montgomery_reduce(a)
  <1>1. r \in Int
    BY MontgomeryForm
  <1>2. PICK t \in Int : R * r = a - t * q
    BY MontgomeryForm
  <1> HIDE DEF r
  <1>3. r * R = a + (-t) * q /\ -t \in Int
    BY <1>1, <1>2, WordFacts
  <1> QED BY <1>1, <1>3 DEF r

(* The inverse of R modulo q.                                              *)
RInverse == CHOOSE i \in Int : Same(Mul(R, i), 1)

LEMMA RInverseIs == RInverse \in Int /\ Same(Mul(R, RInverse), 1)
  <1> DEFINE k == (q * QINV) \div R
  <1>1. k \in Int /\ q * QINV \in Int /\ q * QINV = R * k + 1
    <2>1. q * QINV \in Int
      BY WordFacts
    <2>2. k \in Int /\ q * QINV = (R * k) + ((q * QINV) % R)
      BY <2>1, WordFacts
    <2> QED BY <2>1, <2>2, MontgomeryAssumption
  <1> HIDE DEF k
  <1>2. Mul(R, -k) = 1 + Mul(-QINV, q)
    <2>1. R * (-k) = -(R * k) /\ (-QINV) * q = -(q * QINV) /\ R * k \in Int
      BY <1>1, WordFacts
    <2> QED BY <1>1, <2>1 DEF Mul
  <1>3. -k \in Int /\ -QINV \in Int
    BY <1>1, WordFacts
  <1>4. \E i \in Int : Same(Mul(R, i), 1)
    BY <1>2, <1>3 DEF Same
  <1> QED BY <1>4 DEF RInverse

(* montgomery_reduce divides by R modulo q.                                *)
LEMMA MontgomerySame ==
    \A a \in Int : /\ montgomery_reduce(a) \in Int
                   /\ Same(montgomery_reduce(a), Mul(RInverse, a))
  <1> SUFFICES ASSUME NEW a \in Int
               PROVE  /\ montgomery_reduce(a) \in Int
                      /\ Same(montgomery_reduce(a), Mul(RInverse, a))
    OBVIOUS
  <1> DEFINE m == montgomery_reduce(a)
             i == RInverse
  <1>1. m \in Int /\ \E n \in Int : m * R = a + n * q
    BY MontgomeryDivides
  <1>2. i \in Int /\ Same(Mul(R, i), 1)
    BY RInverseIs
  <1> HIDE DEF m, i
  <1>3. Same(Mul(R, m), a)
    <2>1. PICK n \in Int : m * R = a + n * q
      BY <1>1
    <2>2. Mul(R, m) = a + Mul(n, q)
      BY <1>1, <2>1, WordFacts DEF Mul
    <2> QED BY <2>2 DEF Same
  <1>4. /\ Mul(R, m) \in Int /\ Mul(R, i) \in Int /\ Mul(i, a) \in Int /\ Mul(1, m) = m
        /\ Mul(i, Mul(R, m)) = Mul(Mul(R, i), m) /\ Mul(i, Mul(R, m)) \in Int
    <2>1. R \in Int /\ m \in Int /\ i \in Int
      BY <1>1, <1>2, WordFacts
    <2>2. Mul(R, m) \in Int /\ Mul(R, i) \in Int /\ Mul(i, a) \in Int
      BY <2>1, MulFacts
    <2>3. Mul(i, Mul(R, m)) = Mul(R, Mul(i, m)) /\ Mul(i, Mul(R, m)) \in Int
      BY <2>1, <2>2, MulFacts
    <2>4. Mul(1, m) = m /\ Mul(Mul(R, i), m) = Mul(R, Mul(i, m))
      BY <2>1, MulMore
    <2> QED BY <2>2, <2>3, <2>4
  <1>5. Same(Mul(i, Mul(R, m)), Mul(i, a))
    BY <1>1, <1>2, <1>3, <1>4, SameScale
  <1>6. Same(Mul(Mul(R, i), m), Mul(1, m))
    <2>1. Same(m, m)
      BY <1>1, SameBasics
    <2> QED BY <1>1, <1>2, <1>4, <2>1, SameMul
  <1>7. Same(m, Mul(i, a))
    BY <1>1, <1>4, <1>5, <1>6, SameBasics
  <1> QED BY <1>1, <1>7 DEF m, i

-----------------------------------------------------------------------------
(* A recursion that halves its argument.                                   *)
Halving(f, x, step) ==
    f[0] = x /\ \A n \in Nat : f[n + 1] = step[<<n + 1, f[(n + 1) \div 2]>>]

(* There is a function with that recursion.                                *)
LEMMA HalfRecursion ==
    ASSUME NEW S, NEW x \in S, NEW step \in [Nat \X S -> S]
    PROVE  \E f \in [Nat -> S] : Halving(f, x, step)
  <1> DEFINE T == [Nat -> S]
             next == [p \in Nat \X T |->
                         [k \in Nat |-> IF k = p[1] + 1 THEN step[<<k, p[2][k \div 2]>>]
                                        ELSE p[2][k]]]
             start == [k \in Nat |-> x]
  <1>0. \A k \in Nat : k \div 2 \in Nat
    OBVIOUS
  <1>1. start \in T /\ next \in [Nat \X T -> T]
    BY <1>0
  <1>2. PICK g \in [Nat -> T] : Recursive(g, start, next)
    <2> HIDE DEF T, next, start
    <2> QED BY <1>1, Recursion
  <1>3. g[0] = start /\ \A n \in Nat : g[n + 1] = next[<<n, g[n]>>]
    BY <1>2 DEF Recursive
  <1>4. \A n, k \in Nat : g[n + 1][k] = IF k = n + 1 THEN step[<<k, g[n][k \div 2]>>]
                                        ELSE g[n][k]
    <2> SUFFICES ASSUME NEW n \in Nat, NEW k \in Nat
                 PROVE  g[n + 1][k] = IF k = n + 1 THEN step[<<k, g[n][k \div 2]>>]
                                      ELSE g[n][k]
      OBVIOUS
    <2>1. g[n] \in T /\ <<n, g[n]>> \in Nat \X T
      OBVIOUS
    <2>2. g[n + 1] = next[<<n, g[n]>>]
      BY <1>3
    <2> QED BY <2>1, <2>2
  <1>5. \A k \in Nat : g[0][k] = x
    BY <1>3
  <1> HIDE DEF next, start
  <1>6. ASSUME NEW k \in Nat PROVE \A d \in Nat : g[k + d][k] = g[k][k]
    <2> DEFINE U == {d \in Nat : g[k + d][k] = g[k][k]}
    <2>1. 0 \in U
      OBVIOUS
    <2>2. ASSUME NEW d \in Nat, d \in U PROVE d + 1 \in U
      <3>1. k + d \in Nat /\ k # (k + d) + 1 /\ k + (d + 1) = (k + d) + 1
        OBVIOUS
      <3>2. g[(k + d) + 1][k] = g[k + d][k]
        BY <3>1, <1>4
      <3> QED BY <2>2, <3>1, <3>2
    <2> HIDE DEF U
    <2>3. \A d \in Nat : d \in U
      BY <2>1, <2>2, SetInduction
    <2> QED BY <2>3 DEF U
  <1> DEFINE f == [k \in Nat |-> g[k][k]]
  <1>7. f \in [Nat -> S]
    OBVIOUS
  <1>8. f[0] = x
    BY <1>5
  <1>9. ASSUME NEW n \in Nat PROVE f[n + 1] = step[<<n + 1, f[(n + 1) \div 2]>>]
    <2> DEFINE h == (n + 1) \div 2
    <2>1. h \in Nat /\ h <= n /\ n + 1 \in Nat
      OBVIOUS
    <2>2. g[n + 1][n + 1] = step[<<n + 1, g[n][h]>>]
      BY <2>1, <1>4
    <2> HIDE DEF h
    <2>3. g[n][h] = g[h][h]
      <3>1. n - h \in Nat /\ n = h + (n - h)
        BY <2>1
      <3> QED BY <2>1, <3>1, <1>6
    <2>4. f[n + 1] = g[n + 1][n + 1] /\ f[h] = g[h][h]
      BY <2>1
    <2>5. f[n + 1] = step[<<n + 1, f[h]>>]
      BY <2>2, <2>3, <2>4
    <2> QED BY <2>5 DEF h
  <1> HIDE DEF f
  <1> QED BY <1>7, <1>8, <1>9 DEF Halving

-----------------------------------------------------------------------------
(* The powers of the root, the reversed indices and the zetas.             *)

LEMMA DegreeFacts ==
    /\ Degree \in Nat /\ Degree > 0 /\ ROOT \in Int
    /\ MontSquaredByN \in Int /\ 0 <= MontSquaredByN /\ MontSquaredByN < q
  <1>1. q \in Int
    BY WordFacts
  <1> QED BY <1>1, NttAssumption

(* The recursion of Power.                                                 *)
LEMMA PowerIs ==
    /\ Power[0] = 1
    /\ \A k \in Nat : Power[k] \in Int /\ Power[k + 1] = Mul(ROOT, Power[k]) % q
  <1> DEFINE step == [p \in Nat \X Int |-> Mul(ROOT, p[2]) % q]
             Is(f) == f = [k \in Nat |-> IF k = 0 THEN 1 ELSE (ROOT * f[k - 1]) % q]
  <1>0. \A x \in Int : Mul(ROOT, x) \in Int /\ (Mul(ROOT, x) % q) \in Int
    BY DegreeFacts, MulFacts, SameRemainder
  <1>1. step \in [Nat \X Int -> Int] /\ 1 \in Int
    BY <1>0
  <1>2. PICK f \in [Nat -> Int] : Recursive(f, 1, step)
    <2> HIDE DEF step
    <2> QED BY <1>1, Recursion
  <1>3. f[0] = 1 /\ \A k \in Nat : f[k + 1] = Mul(ROOT, f[k]) % q
    BY <1>2 DEF Recursive
  <1> HIDE DEF step
  <1>4. \A k \in Nat : f[k] = IF k = 0 THEN 1 ELSE (ROOT * f[k - 1]) % q
    <2> SUFFICES ASSUME NEW k \in Nat, k # 0 PROVE f[k] = (ROOT * f[k - 1]) % q
      BY <1>3
    <2>1. k - 1 \in Nat /\ (k - 1) + 1 = k
      OBVIOUS
    <2>2. f[k] = Mul(ROOT, f[k - 1]) % q
      BY <2>1, <1>3
    <2> QED BY <2>2 DEF Mul
  <1>5. Is(f)
    <2> DEFINE g == [k \in Nat |-> IF k = 0 THEN 1 ELSE (ROOT * f[k - 1]) % q]
    <2>1. \A k \in Nat : f[k] = g[k]
      BY <1>4
    <2>2. DOMAIN f = Nat /\ DOMAIN g = Nat
      OBVIOUS
    <2>3. f = g
      <3> HIDE DEF g
      <3>1. f = [k \in Nat |-> f[k]]
        OBVIOUS
      <3>2. g = [k \in Nat |-> g[k]]
        BY DEF g
      <3> QED BY <2>1, <3>1, <3>2
    <2> QED BY <2>3
  <1>6. Is(Power)
    <2>1. Power = CHOOSE g : Is(g)
      BY DEF Power
    <2> HIDE DEF Is
    <2> QED BY <1>5, <2>1
  <1>7. \A k \in Nat : Power[k] = IF k = 0 THEN 1 ELSE (ROOT * Power[k - 1]) % q
    BY <1>6
  <1>8. Power[0] = 1
    BY <1>7
  <1>9. \A k \in Nat : Power[k + 1] = Mul(ROOT, Power[k]) % q
    <2> SUFFICES ASSUME NEW k \in Nat PROVE Power[k + 1] = Mul(ROOT, Power[k]) % q
      OBVIOUS
    <2>1. k + 1 \in Nat /\ k + 1 # 0 /\ (k + 1) - 1 = k
      OBVIOUS
    <2>2. Power[k + 1] = (ROOT * Power[k]) % q
      BY <2>1, <1>7
    <2> QED BY <2>2 DEF Mul
  <1> HIDE DEF Is
  <1> DEFINE T == {k \in Nat : Power[k] \in Int}
  <1>10. 0 \in T
    BY <1>8
  <1>11. ASSUME NEW k \in Nat, k \in T PROVE k + 1 \in T
    <2>1. Power[k] \in Int /\ k + 1 \in Nat
      BY <1>11
    <2>2. Power[k + 1] \in Int
      BY <2>1, <1>0, <1>9
    <2> QED BY <2>1, <2>2
  <1> HIDE DEF T
  <1>12. \A k \in Nat : k \in T
    BY <1>10, <1>11, SetInduction
  <1> QED BY <1>8, <1>9, <1>12 DEF T

(* The powers of a sum.                                                    *)
LEMMA PowerAdd ==
    \A a, b \in Nat : Same(Power[a + b], Mul(Power[a], Power[b]))
  <1> SUFFICES ASSUME NEW a \in Nat PROVE \A b \in Nat : Same(Power[a + b], Mul(Power[a], Power[b]))
    OBVIOUS
  <1> DEFINE T == {b \in Nat : Same(Power[a + b], Mul(Power[a], Power[b]))}
  <1>1. 0 \in T
    <2> DEFINE x == Power[a]
    <2>1. x \in Int
      BY PowerIs
    <2>2. Mul(x, 1) = x /\ Same(x, x)
      <3> HIDE DEF x
      <3> QED BY <2>1, MulMore, SameBasics
    <2>3. a + 0 = a
      OBVIOUS
    <2> QED BY <2>2, <2>3, PowerIs
  <1>2. ASSUME NEW b \in Nat, b \in T PROVE b + 1 \in T
    <2> DEFINE x == Power[a]
               y == Power[b]
               z == Power[a + b]
               u == Power[b + 1]
               w == Power[a + (b + 1)]
    <2>1. /\ x \in Int /\ y \in Int /\ z \in Int /\ u \in Int /\ w \in Int
          /\ u = Mul(ROOT, y) % q /\ w = Mul(ROOT, z) % q /\ Same(z, Mul(x, y))
      <3>1. a + b \in Nat /\ a + (b + 1) = (a + b) + 1 /\ b + 1 \in Nat
        OBVIOUS
      <3> QED BY <3>1, PowerIs, <1>2
    <2> HIDE DEF x, y, z, u, w
    <2>2. /\ Mul(ROOT, y) \in Int /\ Mul(ROOT, z) \in Int /\ Mul(x, y) \in Int
          /\ Mul(x, u) \in Int /\ Mul(ROOT, Mul(x, y)) \in Int /\ Mul(x, Mul(ROOT, y)) \in Int
      BY <2>1, DegreeFacts, MulFacts
    <2>3. Same(w, Mul(ROOT, z)) /\ Same(u, Mul(ROOT, y))
      BY <2>1, <2>2, SameRemainder
    <2>4. Same(Mul(ROOT, z), Mul(ROOT, Mul(x, y)))
      BY <2>1, <2>2, DegreeFacts, SameScale
    <2>5. Mul(ROOT, Mul(x, y)) = Mul(x, Mul(ROOT, y))
      BY <2>1, DegreeFacts, MulFacts
    <2>6. Same(Mul(x, u), Mul(x, Mul(ROOT, y)))
      BY <2>1, <2>2, <2>3, SameScale
    <2>7. Same(w, Mul(x, Mul(ROOT, y)))
      BY <2>1, <2>2, <2>3, <2>4, <2>5, SameBasics
    <2>8. Same(w, Mul(x, u))
      BY <2>1, <2>2, <2>6, <2>7, SameBasics
    <2>9. b + 1 \in Nat
      OBVIOUS
    <2> QED BY <2>8, <2>9 DEF w, x, u
  <1> HIDE DEF T
  <1>3. \A b \in Nat : b \in T
    BY <1>1, <1>2, SetInduction
  <1> QED BY <1>3 DEF T

(* The root is a primitive one of 2N: its N-th power is -1.                *)
LEMMA PowerDegree == Same(Power[Degree], -1)
  <1>1. Power[Degree] = q - 1 /\ q \in Int
    BY NttAssumption, WordFacts
  <1>2. q - 1 = -1 + Mul(1, q) /\ 1 \in Int
    <2>1. Mul(1, q) = q
      BY <1>1, MulMore
    <2> QED BY <1>1, <2>1
  <1> QED BY <1>1, <1>2 DEF Same

(* The reversed bits of 2h and of 2h + 1.                                  *)
LEMMA ReversedIs ==
    /\ Reversed[0] = 0
    /\ \A h \in Nat : /\ Reversed[h] \in Nat
                      /\ h > 0 => Reversed[2 * h] = Reversed[h] \div 2
                      /\ Reversed[2 * h + 1] = (Reversed[h] \div 2) + (Degree \div 2)
  <1> DEFINE d == Degree \div 2
             step == [p \in Nat \X Nat |-> (p[2] \div 2) + (p[1] % 2) * d]
             Is(f) == f = [k \in Nat |-> IF k = 0 THEN 0
                                         ELSE (f[k \div 2] \div 2) + (k % 2) * (Degree \div 2)]
  <1>0. d \in Nat
    BY DegreeFacts
  <1>1. step \in [Nat \X Nat -> Nat] /\ 0 \in Nat
    <2> HIDE DEF d
    <2>1. ASSUME NEW k \in Nat, NEW x \in Nat PROVE (x \div 2) + (k % 2) * d \in Nat
      <3>1. k % 2 = 0 \/ k % 2 = 1
        OBVIOUS
      <3>2. 0 * d = 0 /\ 1 * d = d /\ x \div 2 \in Nat
        BY <1>0
      <3> QED BY <1>0, <3>1, <3>2
    <2> QED BY <2>1
  <1>2. PICK f \in [Nat -> Nat] : Halving(f, 0, step)
    <2> HIDE DEF step
    <2> QED BY <1>1, HalfRecursion
  <1>3. f[0] = 0 /\ \A k \in Nat : f[k + 1] = (f[(k + 1) \div 2] \div 2) + ((k + 1) % 2) * d
    <2>1. f[0] = 0
      BY <1>2 DEF Halving
    <2>2. ASSUME NEW k \in Nat PROVE f[k + 1] = (f[(k + 1) \div 2] \div 2) + ((k + 1) % 2) * d
      <3> DEFINE h == (k + 1) \div 2
      <3>1. h \in Nat /\ k + 1 \in Nat
        OBVIOUS
      <3>2. f[k + 1] = step[<<k + 1, f[h]>>]
        BY <1>2 DEF Halving
      <3> HIDE DEF h, d
      <3>3. <<k + 1, f[h]>> \in Nat \X Nat
        BY <3>1
      <3>4. step[<<k + 1, f[h]>>] = (f[h] \div 2) + ((k + 1) % 2) * d
        BY <3>3
      <3> QED BY <3>2, <3>4 DEF h
    <2> QED BY <2>1, <2>2
  <1> HIDE DEF step
  <1>4. \A k \in Nat : f[k] = IF k = 0 THEN 0 ELSE (f[k \div 2] \div 2) + (k % 2) * d
    <2> SUFFICES ASSUME NEW k \in Nat, k # 0
                 PROVE f[k] = (f[k \div 2] \div 2) + (k % 2) * d
      BY <1>3
    <2>1. k - 1 \in Nat /\ (k - 1) + 1 = k
      OBVIOUS
    <2> QED BY <2>1, <1>3
  <1>5. Is(f)
    <2> DEFINE g == [k \in Nat |-> IF k = 0 THEN 0
                                   ELSE (f[k \div 2] \div 2) + (k % 2) * (Degree \div 2)]
    <2>1. \A k \in Nat : f[k] = g[k]
      BY <1>4
    <2>3. f = g
      <3> HIDE DEF g
      <3>1. f = [k \in Nat |-> f[k]]
        OBVIOUS
      <3>2. g = [k \in Nat |-> g[k]]
        BY DEF g
      <3> QED BY <2>1, <3>1, <3>2
    <2> QED BY <2>3
  <1>6. Is(Reversed)
    <2>1. Reversed = CHOOSE g : Is(g)
      BY DEF Reversed
    <2> HIDE DEF Is
    <2> QED BY <1>5, <2>1
  <1>7. \A k \in Nat : Reversed[k] = IF k = 0 THEN 0
                                     ELSE (Reversed[k \div 2] \div 2) + (k % 2) * d
    BY <1>6
  <1> HIDE DEF Is
  <1>8. Reversed[0] = 0
    BY <1>7
  <1>10. \A k \in Nat : Reversed[k] \in Nat
    <2> DEFINE U == {n \in Nat : \A k \in 0 .. n : Reversed[k] \in Nat}
    <2>1. 0 \in U
      BY <1>8
    <2>2. ASSUME NEW n \in Nat, n \in U PROVE n + 1 \in U
      <3>1. ASSUME NEW k \in 0 .. n + 1 PROVE Reversed[k] \in Nat
        <4>1. CASE k <= n
          BY <4>1, <2>2
        <4>2. CASE k = n + 1
          <5>1. k \in Nat /\ k # 0 /\ k \div 2 \in 0 .. n /\ (k % 2 = 0 \/ k % 2 = 1)
            BY <4>2
          <5>2. Reversed[k \div 2] \in Nat
            BY <5>1, <2>2
          <5>3. \A x \in Nat : x \div 2 \in Nat
            OBVIOUS
          <5>4. 0 * d = 0 /\ 1 * d = d
            <6> HIDE DEF d
            <6> QED BY <1>0
          <5>5. Reversed[k] = (Reversed[k \div 2] \div 2) + (k % 2) * d
            BY <5>1, <1>7
          <5> HIDE DEF d
          <5>6. (k % 2) * d \in Nat
            BY <5>1, <5>4, <1>0
          <5> QED BY <5>2, <5>3, <5>5, <5>6
        <4> QED BY <4>1, <4>2
      <3> QED BY <3>1
    <2> HIDE DEF U
    <2>3. \A n \in Nat : n \in U
      BY <2>1, <2>2, SetInduction
    <2> QED BY <2>3 DEF U
  <1>9. ASSUME NEW h \in Nat
        PROVE  /\ h > 0 => Reversed[2 * h] = Reversed[h] \div 2
               /\ Reversed[2 * h + 1] = (Reversed[h] \div 2) + d
    <2>1. /\ 2 * h \in Nat /\ (2 * h) \div 2 = h /\ (2 * h) % 2 = 0 /\ (h > 0 => 2 * h # 0)
          /\ 2 * h + 1 \in Nat /\ (2 * h + 1) \div 2 = h /\ (2 * h + 1) % 2 = 1 /\ 2 * h + 1 # 0
      OBVIOUS
    <2>2. 0 * d = 0 /\ 1 * d = d
      <3> HIDE DEF d
      <3> QED BY <1>0
    <2>3. /\ h > 0 => Reversed[2 * h] = (Reversed[h] \div 2) + 0
          /\ Reversed[2 * h + 1] = (Reversed[h] \div 2) + d
      <3> DEFINE a == 2 * h
                 b == 2 * h + 1
      <3>1. h > 0 => Reversed[a] = (Reversed[h] \div 2) + 0 * d
        BY <2>1, <1>7
      <3>2. Reversed[b] = (Reversed[h] \div 2) + 1 * d
        BY <2>1, <1>7
      <3> QED BY <3>1, <3>2, <2>2
    <2>4. \A x \in Nat : (x \div 2) + 0 = x \div 2
      OBVIOUS
    <2> QED BY <2>3, <2>4, <1>10
  <1> QED BY <1>8, <1>9, <1>10

-----------------------------------------------------------------------------
Root(h) == Power[Reversed[h]]

LEMMA RootInt == \A h \in Nat : Root(h) \in Int
  BY ReversedIs, PowerIs DEF Root

(* A zeta is R times its root, centred.                                    *)
LEMMA ZetaIs ==
    \A h \in Nat : /\ zetas(h) \in Int /\ -q < zetas(h) /\ zetas(h) < q
                   /\ Same(zetas(h), Mul(R, Root(h)))
  <1> SUFFICES ASSUME NEW h \in Nat
               PROVE  /\ zetas(h) \in Int /\ -q < zetas(h) /\ zetas(h) < q
                      /\ Same(zetas(h), Mul(R, Root(h)))
    OBVIOUS
  <1> DEFINE r == Root(h)
             s == R % q
             p == Mul(s, r)
             z == p % q
             y == IF z > q \div 2 THEN z - q ELSE z
  <1>1. zetas(h) = y
    BY DEF zetas, Root, Mul
  <1>2. r \in Int /\ s \in Int /\ Same(s, R)
    BY RootInt, SameRemainder, WordFacts
  <1> HIDE DEF r, s
  <1>3. p \in Int /\ Mul(R, r) \in Int
    BY <1>2, MulFacts, WordFacts
  <1>4. Same(p, Mul(R, r))
    BY <1>2, WordFacts, SameBasics, SameMul
  <1> HIDE DEF p
  <1>5. z \in Int /\ 0 <= z /\ z < q /\ Same(z, p) /\ Same(z - q, z)
    BY <1>3, SameRemainder
  <1> HIDE DEF z
  <1>6. z - q \in Int
    BY <1>5, WordFacts
  <1>7. Same(z, Mul(R, r)) /\ Same(z - q, Mul(R, r))
    BY <1>3, <1>4, <1>5, <1>6, SameBasics
  <1>8. y \in Int /\ -q < y /\ y < q /\ Same(y, Mul(R, r))
    <2>1. z \in Int /\ 0 <= z /\ z < q /\ q \in Int /\ q > 0
      BY <1>5, WordFacts
    <2>2. y \in Int /\ -q < y /\ y < q
      BY <2>1
    <2> QED BY <1>7, <2>2
  <1> QED BY <1>1, <1>8 DEF r

(* R cancels.                                                              *)
LEMMA RCancels ==
    \A x \in Int : Mul(RInverse, Mul(R, x)) \in Int /\ Same(Mul(RInverse, Mul(R, x)), x)
  <1> SUFFICES ASSUME NEW x \in Int
               PROVE  /\ Mul(RInverse, Mul(R, x)) \in Int
                      /\ Same(Mul(RInverse, Mul(R, x)), x)
    OBVIOUS
  <1> DEFINE i == RInverse
             t == Mul(R, i)
  <1>1. i \in Int /\ Same(t, 1) /\ R \in Int
    BY RInverseIs, WordFacts
  <1> HIDE DEF i
  <1>2. t \in Int /\ Mul(i, Mul(R, x)) \in Int
    BY <1>1, MulFacts
  <1>3. Mul(i, Mul(R, x)) = Mul(t, x)
    <2>1. Mul(t, x) = Mul(R, Mul(i, x))
      BY <1>1, MulMore
    <2> QED BY <1>1, <2>1, MulFacts
  <1>4. Same(Mul(t, x), Mul(1, x))
    <2> HIDE DEF t
    <2> QED BY <1>1, <1>2, SameBasics, SameMul
  <1>5. Mul(1, x) = x
    BY MulMore
  <1> QED BY <1>2, <1>3, <1>4, <1>5 DEF i

(* A product with a twiddle factor.                                        *)
LEMMA TwiddleIs ==
    ASSUME NEW h \in Nat, NEW x \in Int
    PROVE  /\ montgomery_reduce(zetas(h) * x) \in Int
           /\ Same(montgomery_reduce(zetas(h) * x), Mul(Root(h), x))
           /\ montgomery_reduce((-zetas(h)) * x) \in Int
           /\ Same(montgomery_reduce((-zetas(h)) * x), -Mul(Root(h), x))
           /\ -HalfR < x /\ x < HalfR =>
                  /\ -q < montgomery_reduce(zetas(h) * x) /\ montgomery_reduce(zetas(h) * x) < q
                  /\ -q < montgomery_reduce((-zetas(h)) * x)
                  /\ montgomery_reduce((-zetas(h)) * x) < q
  <1> DEFINE r == Root(h)
             z == zetas(h)
             i == RInverse
             w == Mul(r, x)
             c == Mul(R, r)
             a == Mul(z, x)
  <1>1. r \in Int /\ z \in Int /\ -q < z /\ z < q /\ Same(z, c) /\ i \in Int /\ R \in Int
    BY RootInt, ZetaIs, RInverseIs, WordFacts
  <1>2. z * x = a /\ (-z) * x = -a
    <2>1. (-z) * x = -(z * x)
      <3> HIDE DEF z
      <3> QED BY <1>1
    <2> QED BY <2>1 DEF Mul
  <1>3. -HalfR < x /\ x < HalfR => /\ -(HalfR * q) < a /\ a < HalfR * q
                                  /\ -(HalfR * q) < -a /\ -a < HalfR * q
    <2> SUFFICES ASSUME -HalfR < x, x < HalfR
                 PROVE  /\ -(HalfR * q) < a /\ a < HalfR * q
                        /\ -(HalfR * q) < -a /\ -a < HalfR * q
      OBVIOUS
    <2> HIDE DEF z
    <2>1. \A u, v, m, n \in Int : /\ -m < u /\ u < m /\ -n < v /\ v < n
                                 => -(n * m) < u * v /\ u * v < n * m
      <3> SUFFICES ASSUME NEW u \in Int, NEW v \in Int, NEW m \in Int, NEW n \in Int,
                          -m < u, u < m, -n < v, v < n
                   PROVE  -(n * m) < u * v /\ u * v < n * m
        OBVIOUS
      <3>1. (m - u) * (n + v) > 0 /\ (m + u) * (n - v) > 0
        OBVIOUS
      <3>2. (m - u) * (n - v) > 0 /\ (m + u) * (n + v) > 0
        OBVIOUS
      <3>3. /\ (m - u) * (n + v) = m * n + m * v - u * n - u * v
            /\ (m + u) * (n - v) = m * n - m * v + u * n - u * v
            /\ (m - u) * (n - v) = m * n - m * v - u * n + u * v
            /\ (m + u) * (n + v) = m * n + m * v + u * n + u * v
        OBVIOUS
      <3>4. m * n = n * m
        OBVIOUS
      <3> QED BY <3>1, <3>2, <3>3, <3>4
    <2>2. q \in Int /\ HalfR \in Int
      BY WordFacts
    <2>3. -(HalfR * q) < z * x /\ z * x < HalfR * q
      BY <1>1, <2>1, <2>2
    <2>4. a = z * x /\ HalfR * q \in Int /\ z * x \in Int
      BY <1>1, <2>2 DEF Mul
    <2> HIDE DEF a
    <2> QED BY <2>3, <2>4
  <1>4. a \in Int /\ w \in Int /\ c \in Int /\ Mul(c, x) \in Int
    BY <1>1, MulFacts
  <1>5. Same(a, Mul(R, w))
    <2>1. Same(a, Mul(c, x))
      <3> HIDE DEF c, z, r
      <3> QED BY <1>1, <1>4, SameBasics, SameMul
    <2>2. Mul(c, x) = Mul(R, w)
      BY <1>1, MulMore
    <2> QED BY <2>1, <2>2
  <1> DEFINE b == Mul(R, w)
             m == montgomery_reduce(a)
             n == montgomery_reduce(-a)
  <1> HIDE DEF r, z, w, c, i
  <1>6. b \in Int /\ Mul(i, b) \in Int /\ Same(Mul(i, b), w)
    BY <1>1, <1>4, MulFacts, RCancels DEF i
  <1>7. m \in Int /\ Same(m, Mul(i, a)) /\ n \in Int /\ Same(n, Mul(i, -a))
    BY <1>4, MontgomerySame DEF i
  <1>8. Same(m, w)
    <2> HIDE DEF a, b, m
    <2>1. Mul(i, a) \in Int /\ Same(Mul(i, a), Mul(i, b))
      BY <1>1, <1>4, <1>5, <1>6, MulFacts, SameScale DEF b
    <2> QED BY <1>4, <1>6, <1>7, <2>1, SameBasics
  <1>9. Same(n, -w)
    <2> HIDE DEF a, b, m, n
    <2>1. Mul(i, a) \in Int /\ Same(Mul(i, a), Mul(i, b)) /\ Mul(i, -a) = -Mul(i, a)
      BY <1>1, <1>4, <1>5, <1>6, MulFacts, SameScale DEF b
    <2>2. Same(Mul(i, a), w)
      BY <1>4, <1>6, <2>1, SameBasics
    <2>3. Same(0 - Mul(i, a), 0 - w)
      BY <1>4, <2>1, <2>2, SameBasics, SameAdd
    <2>4. 0 - Mul(i, a) = -Mul(i, a) /\ 0 - w = -w /\ -w \in Int /\ -Mul(i, a) \in Int
      BY <1>4, <2>1
    <2> QED BY <1>7, <2>1, <2>3, <2>4, SameBasics
  <1>10. -HalfR < x /\ x < HalfR => -q < m /\ m < q /\ -q < n /\ n < q
    <2> SUFFICES ASSUME -HalfR < x, x < HalfR PROVE -q < m /\ m < q /\ -q < n /\ n < q
      OBVIOUS
    <2>1. -(HalfR * q) < a /\ a < HalfR * q /\ -(HalfR * q) < -a /\ -a < HalfR * q
      BY <1>3
    <2>2. -a \in Int
      BY <1>4
    <2> HIDE DEF a
    <2>3. -q < m /\ m < q
      BY <1>4, <2>1, MontgomeryReduces
    <2>4. -q < n /\ n < q
      BY <2>2, <2>1, MontgomeryReduces
    <2> QED BY <2>3, <2>4
  <1> QED BY <1>2, <1>7, <1>8, <1>9, <1>10 DEF r, z, w, m, n

-----------------------------------------------------------------------------
(* The layers: their lengths and numbers of blocks.                        *)

(* Quotient and remainder are the only ones.                               *)
LEMMA QuotientIs ==
    ASSUME NEW k \in Nat, NEW n \in Nat, NEW t \in 0 .. n - 1
    PROVE  /\ Mul(k, n) \in Nat
           /\ (Mul(k, n) + t) \div n = k /\ (Mul(k, n) + t) % n = t
  <1> DEFINE b == Mul(k, n)
             x == b + t
             d == x \div n
             r == x % n
  <1>1. n \in Int /\ n > 0 /\ t \in Int /\ 0 <= t /\ t < n
    OBVIOUS
  <1>2. b \in Nat /\ n * k = b
    <2>1. k * n \in Nat /\ n * k = k * n
      BY SMT
    <2> QED BY <2>1 DEF Mul
  <1>3. x \in Int
    BY <1>1, <1>2
  <1>4. d \in Int /\ r \in Int /\ 0 <= r /\ r < n /\ x = n * d + r
    <2> HIDE DEF x
    <2> QED BY <1>1, <1>3
  <1>5. x = n * k + t
    BY <1>2
  <1> HIDE DEF x, d, r, b
  <1>6. n * d < n * (k + 1) /\ n * k < n * (d + 1)
    <2>1. n * (k + 1) = n * k + n /\ n * (d + 1) = n * d + n
      BY <1>1, <1>4
    <2>2. n * k \in Int /\ n * d \in Int
      BY <1>1, <1>4
    <2> QED BY <2>1, <2>2, <1>1, <1>4, <1>5
  <1>7. d < k + 1 /\ k < d + 1
    <2>1. k + 1 \in Int /\ d + 1 \in Int /\ k \in Int
      BY <1>4
    <2> QED BY <1>1, <1>4, <1>6, <2>1, Smaller
  <1>8. d = k
    BY <1>4, <1>7
  <1>9. r = t
    <2>1. n * k \in Int
      BY <1>1
    <2> QED BY <1>4, <1>5, <1>8, <1>1, <2>1
  <1> QED BY <1>2, <1>8, <1>9 DEF x, d, r, b

-----------------------------------------------------------------------------
(* The recursion of Length.                                                *)
LEMMA LengthIs ==
    /\ Length[0] = Degree
    /\ \A i \in Nat : Length[i] \in Nat /\ Length[i + 1] = Length[i] \div 2
  <1> DEFINE step == [p \in Nat \X Nat |-> p[2] \div 2]
             Is(f) == f = [i \in Nat |-> IF i = 0 THEN Degree ELSE f[i - 1] \div 2]
  <1>0. \A x \in Nat : x \div 2 \in Nat
    OBVIOUS
  <1>1. step \in [Nat \X Nat -> Nat] /\ Degree \in Nat
    BY <1>0, DegreeFacts
  <1>2. PICK f \in [Nat -> Nat] : Recursive(f, Degree, step)
    <2> HIDE DEF step
    <2> QED BY <1>1, Recursion
  <1>3. f[0] = Degree /\ \A i \in Nat : f[i + 1] = f[i] \div 2
    BY <1>2 DEF Recursive
  <1> HIDE DEF step
  <1>4. \A i \in Nat : f[i] = IF i = 0 THEN Degree ELSE f[i - 1] \div 2
    <2> SUFFICES ASSUME NEW i \in Nat, i # 0 PROVE f[i] = f[i - 1] \div 2
      BY <1>3
    <2>1. i - 1 \in Nat /\ (i - 1) + 1 = i
      OBVIOUS
    <2> QED BY <2>1, <1>3
  <1>5. Is(f)
    <2> DEFINE g == [i \in Nat |-> IF i = 0 THEN Degree ELSE f[i - 1] \div 2]
    <2>1. \A i \in Nat : f[i] = g[i]
      BY <1>4
    <2>2. f = g
      <3> HIDE DEF g
      <3>1. f = [i \in Nat |-> f[i]]
        OBVIOUS
      <3>2. g = [i \in Nat |-> g[i]]
        BY DEF g
      <3> QED BY <2>1, <3>1, <3>2
    <2> QED BY <2>2
  <1>6. Is(Length)
    <2>1. Length = CHOOSE g : Is(g)
      BY DEF Length
    <2> HIDE DEF Is
    <2> QED BY <1>5, <2>1
  <1>7. \A i \in Nat : Length[i] = IF i = 0 THEN Degree ELSE Length[i - 1] \div 2
    BY <1>6
  <1> HIDE DEF Is
  <1>8. Length[0] = Degree
    BY <1>7
  <1>9. ASSUME NEW i \in Nat PROVE Length[i + 1] = Length[i] \div 2
    <2>1. i + 1 \in Nat /\ i + 1 # 0 /\ (i + 1) - 1 = i
      OBVIOUS
    <2> QED BY <2>1, <1>7
  <1> DEFINE T == {i \in Nat : Length[i] \in Nat}
  <1>10. 0 \in T
    BY <1>8, DegreeFacts
  <1>11. ASSUME NEW i \in Nat, i \in T PROVE i + 1 \in T
    BY <1>0, <1>9, <1>11
  <1> HIDE DEF T
  <1>12. \A i \in Nat : i \in T
    BY <1>10, <1>11, SetInduction
  <1> QED BY <1>8, <1>9, <1>12 DEF T

(* The lengths halve down to 1.                                            *)
LEMMA LayersIs ==
    /\ Layers \in 0 .. Degree /\ Length[Layers] = 1
    /\ \A i \in 0 .. Layers : Length[i] \in Nat /\ Length[i] > 0
    /\ \A i \in 0 .. Layers - 1 : Length[i] = 2 * Length[i + 1]
  <1>1. \E m \in 0 .. Degree : Length[m] = 1
    <2> DEFINE Found == \E m \in 0 .. Degree : Length[m] = 1
               T == {i \in Nat : Found \/ (Length[i] >= 2 /\ Length[i] + i <= Degree)}
    <2>1. 0 \in T
      <3>1. Length[0] = Degree /\ Degree \in Nat /\ Degree > 0 /\ 0 \in 0 .. Degree
        BY LengthIs, DegreeFacts
      <3>2. CASE Degree = 1
        BY <3>1, <3>2
      <3>3. CASE Degree >= 2
        BY <3>1, <3>3
      <3> QED BY <3>1, <3>2, <3>3
    <2>2. ASSUME NEW i \in Nat, i \in T PROVE i + 1 \in T
      <3>1. CASE Found
        BY <3>1
      <3>2. CASE ~Found
        <4> DEFINE n == Length[i]
                   u == Length[i + 1]
        <4>1. n \in Nat /\ n >= 2 /\ n + i <= Degree /\ u = n \div 2
          BY <2>2, <3>2, LengthIs
        <4>2. u \in Nat /\ u >= 1 /\ u <= n - 1
          <5> HIDE DEF n, u
          <5> QED BY <4>1
        <4>3. u + (i + 1) <= Degree /\ i + 1 \in 0 .. Degree
          <5> HIDE DEF n, u
          <5> QED BY <4>1, <4>2, DegreeFacts
        <4>4. u # 1
          BY <3>2, <4>3
        <4>5. u >= 2
          <5> HIDE DEF n, u
          <5> QED BY <4>2, <4>4
        <4> QED BY <4>3, <4>5
      <3> QED BY <3>1, <3>2
    <2> HIDE DEF T
    <2>3. \A i \in Nat : i \in T
      BY <2>1, <2>2, SetInduction
    <2>4. Degree \in T /\ Degree \in Nat
      BY <2>3, DegreeFacts
    <2>5. Found \/ (Length[Degree] >= 2 /\ Length[Degree] + Degree <= Degree)
      BY <2>4 DEF T
    <2>6. Length[Degree] \in Nat
      BY <2>4, LengthIs
    <2> QED BY <2>4, <2>5, <2>6
  <1>2. Layers \in 0 .. Degree /\ Length[Layers] = 1
    BY <1>1 DEF Layers
  <1>3. Layers \in Nat
    BY <1>2, DegreeFacts
  <1> DEFINE T == {d \in Nat : d <= Layers => Length[Layers - d] > 0
                                            /\ (d > 0 => Length[Layers - d] > 1)}
  <1>4. 0 \in T
    <2>1. Layers - 0 = Layers
      BY <1>3
    <2> QED BY <1>2, <2>1
  <1>5. ASSUME NEW d \in Nat, d \in T PROVE d + 1 \in T
    <2>1. CASE d + 1 <= Layers
      <3> DEFINE i == Layers - (d + 1)
      <3>1. i \in Nat /\ i + 1 = Layers - d
        BY <1>3, <2>1
      <3> HIDE DEF i
      <3>2. Length[i] \in Nat /\ Length[i + 1] = Length[i] \div 2 /\ Length[i + 1] > 0
        BY <1>3, <1>5, <2>1, <3>1, LengthIs
      <3>3. Length[i] > 1
        BY <3>2
      <3>4. Length[i] > 0
        BY <3>2, <3>3
      <3> QED BY <3>3, <3>4 DEF i
    <2> QED BY <2>1, <1>3
  <1> HIDE DEF T
  <1>6. \A d \in Nat : d \in T
    BY <1>4, <1>5, SetInduction
  <1>7. ASSUME NEW i \in 0 .. Layers
        PROVE  Length[i] \in Nat /\ Length[i] > 0 /\ (i < Layers => Length[i] > 1)
    <2>1. i \in Nat /\ Layers - i \in Nat /\ Layers - i <= Layers /\ Layers - (Layers - i) = i
      BY <1>3
    <2>2. Layers - i \in T
      BY <2>1, <1>6
    <2>3. Length[i] > 0 /\ (Layers - i > 0 => Length[i] > 1)
      BY <2>1, <2>2 DEF T
    <2> QED BY <2>1, <2>3, <1>3, LengthIs
  <1>8. ASSUME NEW i \in 0 .. Layers - 1 PROVE Length[i] = 2 * Length[i + 1]
    <2>1. i \in Nat /\ i \in 0 .. Layers /\ i < Layers /\ i \in 0 .. Degree
      BY <1>2, <1>3, DegreeFacts
    <2>2. Length[i] \in Nat /\ Length[i] % 2 = 0 /\ Length[i + 1] = Length[i] \div 2
      BY <2>1, <1>7, LengthIs, NttAssumption
    <2> QED BY <2>2
  <1> QED BY <1>2, <1>7, <1>8

(* The number of blocks before a layer.                                    *)
Wide(i) == Degree \div Length[i]

(* The blocks of a layer fill the degree, and double in number.            *)
LEMMA WideIs ==
    /\ Wide(0) = 1 /\ Wide(Layers) = Degree
    /\ \A i \in 0 .. Layers : /\ Wide(i) \in Nat /\ Wide(i) > 0
                              /\ Mul(Wide(i), Length[i]) = Degree
    /\ \A i \in 0 .. Layers - 1 : Wide(i + 1) = 2 * Wide(i)
  <1>0. Layers \in Nat
    BY LayersIs, DegreeFacts
  <1>1. \A w, n \in Nat : n > 0 => Mul(w, n) \div n = w
    <2> SUFFICES ASSUME NEW w \in Nat, NEW n \in Nat, n > 0 PROVE Mul(w, n) \div n = w
      OBVIOUS
    <2>1. 0 \in 0 .. n - 1
      OBVIOUS
    <2>2. Mul(w, n) \in Nat /\ (Mul(w, n) + 0) \div n = w
      BY <2>1, QuotientIs
    <2>3. Mul(w, n) + 0 = Mul(w, n)
      BY <2>2
    <2> QED BY <2>2, <2>3
  <1>2. \A w, n \in Nat : n > 0 /\ Mul(w, n) = Degree => Degree \div n = w
    BY <1>1
  <1> DEFINE T == {i \in Nat : i <= Layers => \E w \in Nat : w > 0 /\ Mul(w, Length[i]) = Degree}
  <1>3. 0 \in T
    <2>1. Mul(1, Degree) = Degree /\ Length[0] = Degree /\ 1 \in Nat /\ 1 > 0
      BY MulMore, DegreeFacts, LengthIs
    <2> QED BY <2>1
  <1>4. \A w, n \in Int : Mul(w, 2 * n) = Mul(2 * w, n)
    BY DEF Mul
  <1>5. ASSUME NEW i \in 0 .. Layers - 1, NEW w \in Nat, Mul(w, Length[i]) = Degree
        PROVE  Mul(2 * w, Length[i + 1]) = Degree
    <2>1. Length[i] = 2 * Length[i + 1] /\ i + 1 \in 0 .. Layers
      BY LayersIs, <1>0
    <2>2. Length[i + 1] \in Nat
      BY <2>1, LayersIs
    <2> QED BY <1>4, <1>5, <2>1, <2>2
  <1>6. ASSUME NEW i \in Nat, i \in T PROVE i + 1 \in T
    <2>1. CASE i + 1 <= Layers
      <3>1. PICK w \in Nat : w > 0 /\ Mul(w, Length[i]) = Degree
        BY <2>1, <1>0, <1>6
      <3>2. 2 * w \in Nat /\ 2 * w > 0 /\ i \in 0 .. Layers - 1
        BY <2>1, <3>1, <1>0
      <3>3. Mul(2 * w, Length[i + 1]) = Degree
        BY <3>1, <3>2, <1>5
      <3> QED BY <3>2, <3>3
    <2> QED BY <2>1, <1>0
  <1> HIDE DEF T
  <1>7. \A i \in Nat : i \in T
    BY <1>3, <1>6, SetInduction
  <1>8. ASSUME NEW i \in 0 .. Layers
        PROVE  /\ Wide(i) \in Nat /\ Wide(i) > 0 /\ Mul(Wide(i), Length[i]) = Degree
    <2>1. i \in Nat /\ i <= Layers
      BY <1>0
    <2>2. PICK w \in Nat : w > 0 /\ Mul(w, Length[i]) = Degree
      BY <2>1, <1>7 DEF T
    <2>3. Length[i] \in Nat /\ Length[i] > 0
      BY LayersIs
    <2>4. Wide(i) = w
      BY <2>2, <2>3, <1>2 DEF Wide
    <2> QED BY <2>2, <2>4
  <1>9. ASSUME NEW i \in 0 .. Layers - 1 PROVE Wide(i + 1) = 2 * Wide(i)
    <2>1. i \in 0 .. Layers /\ i + 1 \in 0 .. Layers
      BY <1>0
    <2>2. Wide(i) \in Nat /\ Mul(Wide(i), Length[i]) = Degree
      BY <2>1, <1>8
    <2>3. Mul(2 * Wide(i), Length[i + 1]) = Degree /\ 2 * Wide(i) \in Nat
      BY <2>2, <1>5
    <2>4. Length[i + 1] \in Nat /\ Length[i + 1] > 0
      BY <2>1, LayersIs
    <2> QED BY <2>3, <2>4, <1>2 DEF Wide
  <1>10. Wide(0) = 1
    <2>1. Mul(1, Degree) = Degree /\ Length[0] = Degree /\ Degree \in Nat /\ Degree > 0
      BY MulMore, DegreeFacts, LengthIs
    <2>2. Degree \div Degree = 1
      BY <2>1, <1>2
    <2> QED BY <2>1, <2>2 DEF Wide
  <1>11. Wide(Layers) = Degree
    <2>1. Length[Layers] = 1 /\ Degree \in Nat
      BY LayersIs, DegreeFacts
    <2>2. Degree \div 1 = Degree
      BY <2>1
    <2> QED BY <2>1, <2>2 DEF Wide
  <1> QED BY <1>8, <1>9, <1>10, <1>11

-----------------------------------------------------------------------------
(* The coefficients of a layer, in blocks and in pairs.                    *)

(* Coefficient t of block k at level i, the layers before which are done;  *)
(* layer i + 1 pairs it with coefficient High.                             *)
At(i, k, t)   == Mul(k, Length[i]) + t
High(i, k, t) == At(i, k, t) + Length[i + 1]

IsPair(i, k, t) == i \in 0 .. Layers - 1 /\ k \in 0 .. Wide(i) - 1 /\ t \in 0 .. Length[i + 1] - 1

(* A block and a place in it give a coefficient, and are given by it.      *)
LEMMA AtIs ==
    ASSUME NEW i \in 0 .. Layers, NEW k \in 0 .. Wide(i) - 1, NEW t \in 0 .. Length[i] - 1
    PROVE  At(i, k, t) \in Coefficients /\ At(i, k, t) \div Length[i] = k /\ At(i, k, t) % Length[i] = t
  <1> DEFINE n == Length[i]
             w == Wide(i)
  <1>1. n \in Nat /\ n > 0 /\ w \in Nat /\ Mul(w, n) = Degree
    BY LayersIs, WideIs
  <1>2. k \in Nat /\ k < w /\ t \in Nat /\ t < n
    BY <1>1
  <1> HIDE DEF n, w
  <1>3. Mul(k, n) \in Nat /\ (Mul(k, n) + t) \div n = k /\ (Mul(k, n) + t) % n = t
    <2>1. t \in 0 .. n - 1
      BY <1>1, <1>2
    <2> QED BY <1>1, <1>2, <2>1, QuotientIs
  <1>4. Mul(k, n) + n <= Degree
    <2>1. w - k - 1 \in Nat /\ w = k + (1 + (w - k - 1)) /\ k \in Int /\ 1 \in Int
      BY <1>1, <1>2
    <2> DEFINE d == w - k - 1
    <2>2. d \in Nat /\ w = k + (1 + d)
      BY <2>1
    <2> HIDE DEF d
    <2>3. Mul(w, n) = Mul(k, n) + Mul(1 + d, n) /\ Mul(1 + d, n) = Mul(1, n) + Mul(d, n)
      <3>1. \A x, y \in Int : Mul(x + y, n) = Mul(x, n) + Mul(y, n)
        BY <1>1, MulMore
      <3>2. k \in Int /\ d \in Int /\ 1 \in Int /\ 1 + d \in Int
        BY <1>2, <2>2
      <3>3. Mul(1 + d, n) = Mul(1, n) + Mul(d, n)
        BY <3>1, <3>2
      <3>4. Mul(k + (1 + d), n) = Mul(k, n) + Mul(1 + d, n)
        BY <3>1, <3>2
      <3> QED BY <2>2, <3>3, <3>4
    <2>4. Mul(1, n) = n
      BY <1>1, MulMore
    <2>5. Mul(d, n) \in Nat
      <3>1. d * n \in Nat
        BY <1>1, <2>2
      <3> QED BY <3>1 DEF Mul
    <2> QED BY <1>1, <1>3, <2>3, <2>4, <2>5
  <1>5. Mul(k, n) + t \in 0 .. Degree - 1
    BY <1>1, <1>2, <1>3, <1>4, DegreeFacts
  <1> QED BY <1>3, <1>5 DEF n, At, Coefficients

LEMMA EachAt ==
    ASSUME NEW i \in 0 .. Layers, NEW j \in Coefficients
    PROVE  \E k \in 0 .. Wide(i) - 1 : \E t \in 0 .. Length[i] - 1 : j = At(i, k, t)
  <1> DEFINE n == Length[i]
             w == Wide(i)
             k == j \div n
             t == j % n
  <1>1. n \in Nat /\ n > 0 /\ w \in Nat /\ Mul(w, n) = Degree
    BY LayersIs, WideIs
  <1>2. j \in Nat /\ j < Degree
    BY DegreeFacts DEF Coefficients
  <1> HIDE DEF n, w
  <1>3. k \in Nat /\ t \in 0 .. n - 1 /\ j = n * k + t
    BY <1>1, <1>2, SMT
  <1> HIDE DEF k, t
  <1>4. j = Mul(k, n) + t
    <2>1. n * k = k * n
      BY <1>1, <1>3
    <2> QED BY <1>3, <2>1 DEF Mul
  <1>5. k < w
    <2>1. n * k <= j /\ Degree = n * w
      <3>1. n * k \in Int /\ w * n = n * w
        BY <1>1, <1>3
      <3> QED BY <1>1, <1>3, <3>1 DEF Mul
    <2>2. n * k < n * w
      <3>1. n * k \in Int /\ n * w \in Int
        BY <1>1, <1>3
      <3> QED BY <1>2, <2>1, <3>1
    <2>3. n \in Int /\ w \in Int /\ k \in Int
      BY <1>1, <1>3
    <2> QED BY <1>1, <2>2, <2>3, Smaller
  <1>6. k \in 0 .. w - 1
    BY <1>1, <1>3, <1>5
  <1> QED BY <1>3, <1>4, <1>6 DEF n, w, At

(* The two coefficients of a butterfly.                                    *)
LEMMA PairIs ==
    ASSUME NEW i, NEW k, NEW t, IsPair(i, k, t)
    PROVE  LET len == Length[i + 1]
               lo  == At(i, k, t)
               hi  == High(i, k, t)
           IN  /\ lo \in Coefficients /\ hi \in Coefficients /\ hi - len = lo
               /\ InLowHalf(lo, len) /\ ~InLowHalf(hi, len)
               /\ Block(lo, len) = k /\ Block(hi, len) = k
  <1> DEFINE len == Length[i + 1]
             lo  == At(i, k, t)
             hi  == High(i, k, t)
  <1>0. Layers \in Nat
    BY LayersIs, DegreeFacts
  <1>1. /\ i \in 0 .. Layers /\ i + 1 \in 0 .. Layers /\ k \in 0 .. Wide(i) - 1
        /\ len \in Nat /\ len > 0 /\ Length[i] = 2 * len /\ t \in 0 .. len - 1
    BY <1>0, LayersIs DEF IsPair
  <1>2. t \in 0 .. Length[i] - 1 /\ t + len \in 0 .. Length[i] - 1
    <2> HIDE DEF len
    <2> QED BY <1>1
  <1>3. /\ lo \in Coefficients /\ lo \div (2 * len) = k /\ lo % (2 * len) = t
    BY <1>1, <1>2, AtIs
  <1>4. /\ At(i, k, t + len) \in Coefficients /\ At(i, k, t + len) \div (2 * len) = k
        /\ At(i, k, t + len) % (2 * len) = t + len
    BY <1>1, <1>2, AtIs
  <1>5. k \in Int /\ t \in Int /\ Mul(k, Length[i]) \in Int
    <2>1. k \in Int /\ t \in Int /\ Length[i] \in Int
      BY <1>1, WideIs
    <2> QED BY <2>1, MulFacts
  <1>6. hi = At(i, k, t + len) /\ hi - len = lo
    BY <1>1, <1>5 DEF At, High
  <1>7. InLowHalf(lo, len) /\ ~InLowHalf(hi, len)
    <2>1. t < len /\ ~(t + len < len)
      BY <1>1
    <2> QED BY <2>1, <1>3, <1>4, <1>6 DEF InLowHalf
  <1>8. Block(lo, len) = k /\ Block(hi, len) = k
    BY <1>3, <1>4, <1>6 DEF Block
  <1> QED BY <1>3, <1>4, <1>6, <1>7, <1>8

(* Every coefficient belongs to a butterfly.                               *)
LEMMA EachPair ==
    ASSUME NEW i \in 0 .. Layers - 1, NEW j \in Coefficients
    PROVE  \E k, t : IsPair(i, k, t) /\ (j = At(i, k, t) \/ j = High(i, k, t))
  <1>0. Layers \in Nat
    BY LayersIs, DegreeFacts
  <1>1. i \in 0 .. Layers
    BY <1>0
  <1>2. PICK k \in 0 .. Wide(i) - 1 : \E t \in 0 .. Length[i] - 1 : j = At(i, k, t)
    BY <1>1, EachAt
  <1>3. PICK t \in 0 .. Length[i] - 1 : j = At(i, k, t)
    BY <1>2
  <1> DEFINE len == Length[i + 1]
  <1>4. len \in Nat /\ Length[i] = 2 * len
    BY <1>0, LayersIs
  <1>5. CASE t < len
    <2>1. t \in 0 .. len - 1
      BY <1>4, <1>5
    <2> QED BY <1>3, <2>1 DEF IsPair
  <1>6. CASE t >= len
    <2>1. t - len \in 0 .. len - 1
      <3> HIDE DEF len
      <3> QED BY <1>4, <1>6
    <2>2. j = High(i, k, t - len)
      <3>1. k \in Int /\ t \in Int /\ Length[i] \in Int
        BY <1>1, <1>4, WideIs
      <3>2. Mul(k, Length[i]) \in Int
        BY <3>1, MulFacts
      <3> QED BY <1>3, <1>4, <3>1, <3>2 DEF High, At
    <2> QED BY <2>1, <2>2 DEF IsPair
  <1>7. t \in Int
    BY <1>4
  <1> QED BY <1>4, <1>5, <1>6, <1>7

(* The halves of a block are blocks of the next level.                     *)
LEMMA Halves ==
    ASSUME NEW i, NEW k, NEW t, IsPair(i, k, t)
    PROVE  /\ 2 * k \in 0 .. Wide(i + 1) - 1 /\ 2 * k + 1 \in 0 .. Wide(i + 1) - 1
           /\ At(i + 1, 2 * k, t) = At(i, k, t) /\ At(i + 1, 2 * k + 1, t) = High(i, k, t)
  <1> DEFINE n == Length[i + 1]
  <1>0. Layers \in Nat
    BY LayersIs, DegreeFacts
  <1>1. i \in 0 .. Layers /\ i + 1 \in 0 .. Layers
    BY <1>0 DEF IsPair
  <1>2. /\ n \in Nat /\ Length[i] = 2 * n /\ Wide(i) \in Nat /\ Wide(i + 1) = 2 * Wide(i)
        /\ k \in Nat /\ k < Wide(i) /\ t \in Int
    BY <1>1, LayersIs, WideIs DEF IsPair
  <1>3. 2 * k \in 0 .. Wide(i + 1) - 1 /\ 2 * k + 1 \in 0 .. Wide(i + 1) - 1
    BY <1>2
  <1>4. \A x, y \in Nat : Mul(2 * x, y) = Mul(x, 2 * y) /\ Mul(2 * x + 1, y) = Mul(x, 2 * y) + y
    BY SMT DEF Mul
  <1>5. Mul(2 * k, n) = Mul(k, 2 * n) /\ Mul(2 * k + 1, n) = Mul(k, 2 * n) + n
    BY <1>2, <1>4
  <1>6. Mul(k, 2 * n) \in Int
    <2>1. k \in Int /\ 2 * n \in Int
      BY <1>2
    <2> QED BY <2>1, MulFacts
  <1> QED BY <1>2, <1>3, <1>5, <1>6 DEF At, High

-----------------------------------------------------------------------------
(* One layer, pair by pair.                                                *)

Arrays == [Coefficients -> Int]

(* The root of block k before layer i + 1, and of the block that takes the *)
(* same zeta back.                                                         *)
Heap(i, k)   == Wide(i) + k
Mirror(i, k) == Wide(i) + (Wide(i) - 1 - k)

(* The index that the code counts k up, or down, to.                       *)
LEMMA HeapIs ==
    ASSUME NEW i \in 0 .. Layers - 1, NEW k \in 0 .. Wide(i) - 1
    PROVE  /\ Heap(i, k) \in Nat /\ Mirror(i, k) \in Nat
           /\ Heap(i, k) > 0 /\ Mirror(i, k) > 0
           /\ (Degree \div (2 * Length[i + 1])) + k = Heap(i, k)
           /\ (Degree \div Length[i + 1]) - 1 - k = Mirror(i, k)
  <1>0. Layers \in Nat
    BY LayersIs, DegreeFacts
  <1>1. /\ i \in 0 .. Layers /\ Wide(i) \in Nat /\ Wide(i) > 0 /\ Wide(i + 1) = 2 * Wide(i)
        /\ Length[i] = 2 * Length[i + 1]
    BY <1>0, LayersIs, WideIs
  <1>2. Degree \div (2 * Length[i + 1]) = Wide(i) /\ Degree \div Length[i + 1] = 2 * Wide(i)
    BY <1>1 DEF Wide
  <1> QED BY <1>1, <1>2 DEF Heap, Mirror

(* A butterfly forward.                                                    *)
LEMMA ForwardLayerIs ==
    ASSUME NEW i \in 0 .. Layers - 1, NEW a \in Arrays
    PROVE  LET b == ForwardLayer(a, Length[i + 1])
           IN  /\ b \in Arrays
               /\ \A k, t : IsPair(i, k, t) =>
                      LET lo == At(i, k, t)
                          hi == High(i, k, t)
                          x  == montgomery_reduce(zetas(Heap(i, k)) * a[hi])
                      IN  /\ a[lo] \in Int /\ a[hi] \in Int /\ x \in Int
                          /\ b[lo] = a[lo] + x /\ b[hi] = a[lo] - x
  <1> DEFINE len == Length[i + 1]
             b   == ForwardLayer(a, len)
             x(k, t) == montgomery_reduce(zetas(Heap(i, k)) * a[High(i, k, t)])
  <1>1. ASSUME NEW k, NEW t, IsPair(i, k, t)
        PROVE  
               /\ a[At(i, k, t)] \in Int /\ a[High(i, k, t)] \in Int /\ x(k, t) \in Int
               /\ b[At(i, k, t)] = a[At(i, k, t)] + x(k, t)
               /\ b[High(i, k, t)] = a[At(i, k, t)] - x(k, t)
    <2> DEFINE lo == At(i, k, t)
               hi == High(i, k, t)
    <2>1. /\ lo \in Coefficients /\ hi \in Coefficients /\ hi - len = lo
          /\ InLowHalf(lo, len) /\ ~InLowHalf(hi, len)
          /\ Block(lo, len) = k /\ Block(hi, len) = k
      BY <1>1, PairIs
    <2>2. lo + len = hi
      BY DEF High
    <2>3. k \in 0 .. Wide(i) - 1
      BY <1>1 DEF IsPair
    <2>4. Heap(i, k) \in Nat /\ (Degree \div (2 * len)) + k = Heap(i, k)
      BY <2>3, HeapIs
    <2>5. a[lo] \in Int /\ a[hi] \in Int
      BY <2>1 DEF Arrays
    <2>6. x(k, t) \in Int
      BY <2>4, <2>5, TwiddleIs
    <2> HIDE DEF lo, hi, len
    <2>7. b[lo] = a[lo] + montgomery_reduce(zetas(Heap(i, k)) * a[hi])
      BY <2>1, <2>2, <2>4 DEF ForwardLayer
    <2>8. b[hi] = a[lo] - montgomery_reduce(zetas(Heap(i, k)) * a[hi])
      BY <2>1, <2>2, <2>4 DEF ForwardLayer
    <2> QED BY <2>5, <2>6, <2>7, <2>8 DEF lo, hi
  <1>2. b \in Arrays
    <2>1. \A j \in Coefficients : b[j] \in Int
      <3> SUFFICES ASSUME NEW j \in Coefficients PROVE b[j] \in Int
        OBVIOUS
      <3>1. PICK k, t : IsPair(i, k, t) /\ (j = At(i, k, t) \/ j = High(i, k, t))
        BY EachPair
      <3> HIDE DEF b, x
      <3> QED BY <3>1, <1>1
    <2> DEFINE e(j) == IF InLowHalf(j, len)
                       THEN a[j] + montgomery_reduce(
                              zetas((Degree \div (2 * len)) + Block(j + len, len)) * a[j + len])
                       ELSE a[j - len] - montgomery_reduce(
                              zetas((Degree \div (2 * len)) + Block(j, len)) * a[j])
    <2>2. b = [j \in Coefficients |-> e(j)]
      BY DEF ForwardLayer
    <2> HIDE DEF e, b
    <2>3. \A j \in Coefficients : e(j) \in Int
      BY <2>1, <2>2
    <2> QED BY <2>2, <2>3 DEF Arrays
  <1> HIDE DEF b, x
  <1>3. \A k, t : IsPair(i, k, t) =>
               /\ a[At(i, k, t)] \in Int /\ a[High(i, k, t)] \in Int /\ x(k, t) \in Int
               /\ b[At(i, k, t)] = a[At(i, k, t)] + x(k, t)
               /\ b[High(i, k, t)] = a[At(i, k, t)] - x(k, t)
    BY <1>1
  <1> QED BY <1>2, <1>3 DEF b, x

(* A butterfly back.                                                       *)
LEMMA InverseLayerIs ==
    ASSUME NEW i \in 0 .. Layers - 1, NEW a \in Arrays
    PROVE  LET d == Differences(a, Length[i + 1])
               b == InverseLayer(a, Length[i + 1])
           IN  /\ b \in Arrays
               /\ \A k, t : IsPair(i, k, t) =>
                      LET lo == At(i, k, t)
                          hi == High(i, k, t)
                      IN  /\ a[lo] \in Int /\ a[hi] \in Int
                          /\ d[lo] = a[lo] + a[hi] /\ d[hi] = a[lo] - a[hi]
                          /\ b[lo] = a[lo] + a[hi]
                          /\ b[hi] = montgomery_reduce((-zetas(Mirror(i, k))) * (a[lo] - a[hi]))
  <1> DEFINE len == Length[i + 1]
             d   == Differences(a, len)
             b   == InverseLayer(a, len)
             x(k, t) == montgomery_reduce((-zetas(Mirror(i, k))) * (a[At(i, k, t)] - a[High(i, k, t)]))
             Is(k, t) == /\ a[At(i, k, t)] \in Int /\ a[High(i, k, t)] \in Int
                         /\ x(k, t) \in Int
                         /\ d[At(i, k, t)] = a[At(i, k, t)] + a[High(i, k, t)]
                         /\ d[High(i, k, t)] = a[At(i, k, t)] - a[High(i, k, t)]
                         /\ b[At(i, k, t)] = a[At(i, k, t)] + a[High(i, k, t)]
                         /\ b[High(i, k, t)] = x(k, t)
  <1>1. ASSUME NEW k, NEW t, IsPair(i, k, t) PROVE Is(k, t)
    <2> DEFINE lo == At(i, k, t)
               hi == High(i, k, t)
    <2>1. /\ lo \in Coefficients /\ hi \in Coefficients /\ hi - len = lo
          /\ InLowHalf(lo, len) /\ ~InLowHalf(hi, len)
          /\ Block(lo, len) = k /\ Block(hi, len) = k
      BY <1>1, PairIs
    <2>2. lo + len = hi
      BY DEF High
    <2>3. k \in 0 .. Wide(i) - 1
      BY <1>1 DEF IsPair
    <2>4. Mirror(i, k) \in Nat /\ (Degree \div len) - 1 - k = Mirror(i, k)
      BY <2>3, HeapIs
    <2>5. a[lo] \in Int /\ a[hi] \in Int /\ a[lo] - a[hi] \in Int
      BY <2>1 DEF Arrays
    <2>6. x(k, t) \in Int
      <3> DEFINE v == a[lo] - a[hi]
      <3>1. v \in Int
        BY <2>5
      <3> HIDE DEF v
      <3>2. montgomery_reduce((-zetas(Mirror(i, k))) * v) \in Int
        BY <2>4, <3>1, TwiddleIs
      <3> QED BY <3>2 DEF v
    <2> HIDE DEF lo, hi, len
    <2>7. d[lo] = a[lo] + a[hi] /\ d[hi] = a[lo] - a[hi]
      BY <2>1, <2>2 DEF Differences
    <2>8. b[lo] = d[lo]
      BY <2>1 DEF InverseLayer
    <2>9. b[hi] = montgomery_reduce((-zetas(Mirror(i, k))) * d[hi])
      BY <2>1, <2>4 DEF InverseLayer
    <2> HIDE DEF d, b
    <2> QED BY <2>5, <2>6, <2>7, <2>8, <2>9 DEF lo, hi
  <1>2. b \in Arrays
    <2>1. \A j \in Coefficients : b[j] \in Int
      <3> SUFFICES ASSUME NEW j \in Coefficients PROVE b[j] \in Int
        OBVIOUS
      <3>1. PICK k, t : IsPair(i, k, t) /\ (j = At(i, k, t) \/ j = High(i, k, t))
        BY EachPair
      <3>2. Is(k, t)
        BY <3>1, <1>1
      <3> HIDE DEF b, d, x
      <3> QED BY <3>1, <3>2
    <2> DEFINE e(j) == IF InLowHalf(j, len) THEN Differences(a, len)[j]
                       ELSE montgomery_reduce(
                              (-zetas((Degree \div len) - 1 - Block(j, len))) * Differences(a, len)[j])
    <2>2. b = [j \in Coefficients |-> e(j)]
      BY DEF InverseLayer
    <2> HIDE DEF e, b
    <2>3. \A j \in Coefficients : e(j) \in Int
      BY <2>1, <2>2
    <2> QED BY <2>2, <2>3 DEF Arrays
  <1> HIDE DEF Is
  <1>3. \A k, t : IsPair(i, k, t) => Is(k, t)
    BY <1>1
  <1> QED BY <1>2, <1>3 DEF Is

-----------------------------------------------------------------------------
(* All layers, one after the other.                                        *)

(* The layers follow each other.                                           *)
LEMMA ForwardUnfold ==
    ASSUME NEW a \in Arrays
    PROVE  /\ Forward(a, 0) = a
           /\ \A n \in 0 .. Layers : Forward(a, n) \in Arrays
           /\ \A n \in 0 .. Layers - 1 :
                  Forward(a, n + 1) = ForwardLayer(Forward(a, n), Length[n + 1])
  <1> DEFINE step == [p \in Nat \X Arrays |->
                        IF p[1] < Layers THEN ForwardLayer(p[2], Length[p[1] + 1]) ELSE p[2]]
  <1>0. Layers \in Nat
    BY LayersIs, DegreeFacts
  <1>1. step \in [Nat \X Arrays -> Arrays]
    <2>1. ASSUME NEW p \in Nat \X Arrays, p[1] < Layers
          PROVE  ForwardLayer(p[2], Length[p[1] + 1]) \in Arrays
      <3> DEFINE m == p[1]
      <3>1. m \in 0 .. Layers - 1 /\ p[2] \in Arrays /\ p[1] + 1 = m + 1
        BY <1>0, <2>1
      <3> HIDE DEF m
      <3> QED BY <3>1, ForwardLayerIs
    <2> QED BY <2>1
  <1>2. PICK f \in [Nat -> Arrays] : Recursive(f, a, step)
    <2> HIDE DEF step
    <2> QED BY <1>1, Recursion
  <1>3. f[0] = a /\ \A n \in 0 .. Layers - 1 : f[n + 1] = ForwardLayer(f[n], Length[n + 1])
    <2>1. ASSUME NEW n \in 0 .. Layers - 1
          PROVE  f[n + 1] = ForwardLayer(f[n], Length[n + 1])
      <3>1. n \in Nat /\ n < Layers /\ f[n] \in Arrays
        BY <1>0
      <3>2. f[n + 1] = step[<<n, f[n]>>]
        BY <3>1, <1>2 DEF Recursive
      <3>3. step[<<n, f[n]>>] = ForwardLayer(f[n], Length[n + 1])
        <4>1. <<n, f[n]>> \in Nat \X Arrays
          BY <3>1
        <4> QED BY <3>1, <4>1
      <3> QED BY <3>2, <3>3
    <2> QED BY <2>1, <1>2 DEF Recursive
  <1> HIDE DEF step
  <1>4. ASSUME NEW n \in 0 .. Layers PROVE Forward(a, n) = f[n]
    <2> DEFINE Is(o) == o = [i \in 0 .. n |->
                               IF i = 0 THEN a ELSE ForwardLayer(o[i - 1], Length[i])]
               g     == [i \in 0 .. n |-> f[i]]
    <2>1. \A i \in 0 .. n : g[i] = IF i = 0 THEN a ELSE ForwardLayer(g[i - 1], Length[i])
      <3> SUFFICES ASSUME NEW i \in 0 .. n, i # 0
                   PROVE  g[i] = ForwardLayer(g[i - 1], Length[i])
        BY <1>3
      <3>1. i - 1 \in 0 .. Layers - 1 /\ i - 1 \in 0 .. n /\ (i - 1) + 1 = i
            /\ (i - 1) + 1 = i
        BY <1>0
      <3>2. g[i] = f[i] /\ g[i - 1] = f[i - 1]
        BY <3>1
      <3>3. f[(i - 1) + 1] = ForwardLayer(f[i - 1], Length[(i - 1) + 1])
        BY <1>3, <3>1
      <3> QED BY <3>1, <3>2, <3>3
    <2>2. Is(g)
      BY <2>1
    <2> DEFINE o == CHOOSE o : Is(o)
    <2>3. Forward(a, n) = o[n]
      BY DEF Forward
    <2>4. Is(o)
      <3> HIDE DEF Is, g
      <3> QED BY <2>2
    <2>5. \A i \in 0 .. n : o[i] = IF i = 0 THEN a ELSE ForwardLayer(o[i - 1], Length[i])
      <3> HIDE DEF o
      <3> QED BY <2>4
    <2> HIDE DEF o, Is, g
    <2> DEFINE T == {i \in Nat : i <= n => o[i] = f[i]}
    <2>6. 0 \in T
      BY <2>5, <1>3
    <2>7. ASSUME NEW i \in Nat, i \in T PROVE i + 1 \in T
      <3>1. CASE i + 1 <= n
        <4>1. /\ i + 1 \in 0 .. n /\ i + 1 # 0 /\ (i + 1) - 1 = i /\ i <= n
              /\ i \in 0 .. Layers - 1 /\ i + 1 = i + 1
          BY <3>1, <1>0
        <4>2. o[i + 1] = ForwardLayer(o[i], Length[i + 1])
          BY <4>1, <2>5
        <4>3. o[i] = f[i]
          BY <4>1, <2>7
        <4> QED BY <4>1, <4>2, <4>3, <1>3
      <3> QED BY <3>1
    <2> HIDE DEF T
    <2>8. n \in T
      <3>1. n \in Nat
        BY <1>0
      <3> QED BY <2>6, <2>7, <3>1, SetInduction
    <2> QED BY <2>3, <2>8 DEF T
  <1>5. Forward(a, 0) = a
    BY <1>0, <1>3, <1>4
  <1>6. \A n \in 0 .. Layers : Forward(a, n) \in Arrays
    BY <1>0, <1>4
  <1>7. ASSUME NEW n \in 0 .. Layers - 1
        PROVE  Forward(a, n + 1) = ForwardLayer(Forward(a, n), Length[n + 1])
    <2>1. n \in 0 .. Layers /\ n + 1 \in 0 .. Layers
      BY <1>0
    <2>2. Forward(a, n) = f[n] /\ Forward(a, n + 1) = f[n + 1]
      BY <2>1, <1>4
    <2> QED BY <2>2, <1>3
  <1> QED BY <1>5, <1>6, <1>7

LEMMA BackwardUnfold ==
    ASSUME NEW a \in Arrays
    PROVE  /\ Backward(a, 0) = a
           /\ \A n \in 0 .. Layers : Backward(a, n) \in Arrays
           /\ \A n \in 0 .. Layers - 1 :
                  Backward(a, n + 1) = InverseLayer(Backward(a, n), Length[Layers - n])
  <1> DEFINE step == [p \in Nat \X Arrays |->
                        IF p[1] < Layers THEN InverseLayer(p[2], Length[Layers - p[1]]) ELSE p[2]]
  <1>0. Layers \in Nat
    BY LayersIs, DegreeFacts
  <1>1. step \in [Nat \X Arrays -> Arrays]
    <2>1. ASSUME NEW p \in Nat \X Arrays, p[1] < Layers
          PROVE  InverseLayer(p[2], Length[Layers - p[1]]) \in Arrays
      <3> DEFINE m == Layers - p[1] - 1
      <3>1. m \in 0 .. Layers - 1 /\ p[2] \in Arrays /\ Layers - p[1] = m + 1
        BY <1>0, <2>1
      <3> HIDE DEF m
      <3> QED BY <3>1, InverseLayerIs
    <2> QED BY <2>1
  <1>2. PICK f \in [Nat -> Arrays] : Recursive(f, a, step)
    <2> HIDE DEF step
    <2> QED BY <1>1, Recursion
  <1>3. f[0] = a /\ \A n \in 0 .. Layers - 1 : f[n + 1] = InverseLayer(f[n], Length[Layers - n])
    <2>1. ASSUME NEW n \in 0 .. Layers - 1
          PROVE  f[n + 1] = InverseLayer(f[n], Length[Layers - n])
      <3>1. n \in Nat /\ n < Layers /\ f[n] \in Arrays
        BY <1>0
      <3>2. f[n + 1] = step[<<n, f[n]>>]
        BY <3>1, <1>2 DEF Recursive
      <3>3. step[<<n, f[n]>>] = InverseLayer(f[n], Length[Layers - n])
        <4>1. <<n, f[n]>> \in Nat \X Arrays
          BY <3>1
        <4> QED BY <3>1, <4>1
      <3> QED BY <3>2, <3>3
    <2> QED BY <2>1, <1>2 DEF Recursive
  <1> HIDE DEF step
  <1>4. ASSUME NEW n \in 0 .. Layers PROVE Backward(a, n) = f[n]
    <2> DEFINE Is(o) == o = [i \in 0 .. n |->
                               IF i = 0 THEN a ELSE InverseLayer(o[i - 1], Length[Layers + 1 - i])]
               g     == [i \in 0 .. n |-> f[i]]
    <2>1. \A i \in 0 .. n : g[i] = IF i = 0 THEN a ELSE InverseLayer(g[i - 1], Length[Layers + 1 - i])
      <3> SUFFICES ASSUME NEW i \in 0 .. n, i # 0
                   PROVE  g[i] = InverseLayer(g[i - 1], Length[Layers + 1 - i])
        BY <1>3
      <3>1. i - 1 \in 0 .. Layers - 1 /\ i - 1 \in 0 .. n /\ (i - 1) + 1 = i
            /\ Layers - (i - 1) = Layers + 1 - i
        BY <1>0
      <3>2. g[i] = f[i] /\ g[i - 1] = f[i - 1]
        BY <3>1
      <3>3. f[(i - 1) + 1] = InverseLayer(f[i - 1], Length[Layers - (i - 1)])
        BY <1>3, <3>1
      <3> QED BY <3>1, <3>2, <3>3
    <2>2. Is(g)
      BY <2>1
    <2> DEFINE o == CHOOSE o : Is(o)
    <2>3. Backward(a, n) = o[n]
      BY DEF Backward
    <2>4. Is(o)
      <3> HIDE DEF Is, g
      <3> QED BY <2>2
    <2>5. \A i \in 0 .. n : o[i] = IF i = 0 THEN a ELSE InverseLayer(o[i - 1], Length[Layers + 1 - i])
      <3> HIDE DEF o
      <3> QED BY <2>4
    <2> HIDE DEF o, Is, g
    <2> DEFINE T == {i \in Nat : i <= n => o[i] = f[i]}
    <2>6. 0 \in T
      BY <2>5, <1>3
    <2>7. ASSUME NEW i \in Nat, i \in T PROVE i + 1 \in T
      <3>1. CASE i + 1 <= n
        <4>1. /\ i + 1 \in 0 .. n /\ i + 1 # 0 /\ (i + 1) - 1 = i /\ i <= n
              /\ i \in 0 .. Layers - 1 /\ Layers + 1 - (i + 1) = Layers - i
          BY <3>1, <1>0
        <4>2. o[i + 1] = InverseLayer(o[i], Length[Layers - i])
          BY <4>1, <2>5
        <4>3. o[i] = f[i]
          BY <4>1, <2>7
        <4> QED BY <4>1, <4>2, <4>3, <1>3
      <3> QED BY <3>1
    <2> HIDE DEF T
    <2>8. n \in T
      <3>1. n \in Nat
        BY <1>0
      <3> QED BY <2>6, <2>7, <3>1, SetInduction
    <2> QED BY <2>3, <2>8 DEF T
  <1>5. Backward(a, 0) = a
    BY <1>0, <1>3, <1>4
  <1>6. \A n \in 0 .. Layers : Backward(a, n) \in Arrays
    BY <1>0, <1>4
  <1>7. ASSUME NEW n \in 0 .. Layers - 1
        PROVE  Backward(a, n + 1) = InverseLayer(Backward(a, n), Length[Layers - n])
    <2>1. n \in 0 .. Layers /\ n + 1 \in 0 .. Layers
      BY <1>0
    <2>2. Backward(a, n) = f[n] /\ Backward(a, n + 1) = f[n + 1]
      BY <2>1, <1>4
    <2> QED BY <2>2, <1>3
  <1> QED BY <1>5, <1>6, <1>7

-----------------------------------------------------------------------------
(* How large the coefficients grow: forward and in the product.            *)

(* Bounds of a product.                                                    *)
LEMMA ProductBound ==
    \A u, v, m, n \in Int : -m < u /\ u < m /\ -n < v /\ v < n
                            => -(n * m) < u * v /\ u * v < n * m
  <1> SUFFICES ASSUME NEW u \in Int, NEW v \in Int, NEW m \in Int, NEW n \in Int,
                      -m < u, u < m, -n < v, v < n
               PROVE  -(n * m) < u * v /\ u * v < n * m
    OBVIOUS
  <1>1. (m - u) * (n + v) > 0 /\ (m + u) * (n - v) > 0
    OBVIOUS
  <1>2. (m - u) * (n - v) > 0 /\ (m + u) * (n + v) > 0
    OBVIOUS
  <1>3. /\ (m - u) * (n + v) = m * n + m * v - u * n - u * v
        /\ (m + u) * (n - v) = m * n - m * v + u * n - u * v
        /\ (m - u) * (n - v) = m * n - m * v - u * n + u * v
        /\ (m + u) * (n + v) = m * n + m * v + u * n + u * v
    OBVIOUS
  <1>4. m * n = n * m
    OBVIOUS
  <1> QED BY <1>1, <1>2, <1>3, <1>4

LEMMA MulGrows ==
    \A x, y, z \in Int : x <= y /\ z >= 0 => Mul(x, z) <= Mul(y, z)
  <1> SUFFICES ASSUME NEW x \in Int, NEW y \in Int, NEW z \in Int, x <= y, z >= 0
               PROVE  Mul(x, z) <= Mul(y, z)
    OBVIOUS
  <1>1. (y - x) * z >= 0 /\ (y - x) * z = y * z - x * z /\ x * z \in Int /\ y * z \in Int
    OBVIOUS
  <1> QED BY <1>1 DEF Mul

(* The words have room for what the transforms leave.                      *)
LEMMA Room ==
    /\ \A n \in 0 .. Layers : Mul(n + 1, q) \in Int /\ Mul(n + 1, q) <= HalfR
    /\ \A w \in 0 .. Degree : Mul(w, q) \in Int /\ Mul(w, q) <= HalfR
    /\ Mul(Layers + 1, q) * Mul(Layers + 1, q) <= HalfR * q
  <1>1. /\ Layers \in Nat /\ Degree \in Nat /\ q \in Int /\ q > 0 /\ HalfR \in Int
        /\ Degree * q <= HalfR /\ (Layers + 1) * (Layers + 1) * q <= HalfR
    BY LayersIs, DegreeFacts, WordFacts, NttAssumption
  <1> DEFINE l == Layers + 1
  <1>2. l \in Int /\ l >= 1 /\ (l * l) * q <= HalfR
    BY <1>1
  <1> HIDE DEF l
  <1>3. Mul(l, q) \in Int /\ Mul(l, q) <= HalfR
    <2>1. l * l >= l /\ l * l \in Int
      BY <1>2
    <2>2. Mul(l, q) <= Mul(l * l, q)
      BY <1>1, <1>2, <2>1, MulGrows
    <2>3. Mul(l, q) \in Int /\ Mul(l * l, q) \in Int
      BY <1>1, <1>2, <2>1, MulFacts
    <2>4. Mul(l * l, q) <= HalfR
      BY <1>2 DEF Mul
    <2> QED BY <1>1, <2>2, <2>3, <2>4
  <1>4. ASSUME NEW n \in 0 .. Layers PROVE Mul(n + 1, q) \in Int /\ Mul(n + 1, q) <= HalfR
    <2>1. n + 1 \in Int /\ n + 1 <= l
      BY <1>1 DEF l
    <2>2. Mul(n + 1, q) <= Mul(l, q) /\ Mul(n + 1, q) \in Int
      BY <2>1, <1>1, <1>2, MulGrows, MulFacts
    <2> QED BY <2>2, <1>3, <1>1
  <1>5. ASSUME NEW w \in 0 .. Degree PROVE Mul(w, q) \in Int /\ Mul(w, q) <= HalfR
    <2>1. w \in Int /\ w <= Degree
      BY <1>1
    <2>2. Mul(w, q) <= Mul(Degree, q) /\ Mul(w, q) \in Int /\ Mul(Degree, q) \in Int
      BY <2>1, <1>1, MulGrows, MulFacts
    <2>3. Mul(Degree, q) <= HalfR
      BY <1>1 DEF Mul
    <2> QED BY <2>2, <2>3, <1>1
  <1>6. Mul(l, q) * Mul(l, q) <= HalfR * q
    <2> DEFINE s == (l * l) * q
    <2>1. s \in Int /\ s <= HalfR
      BY <1>1, <1>2
    <2>2. Mul(l, q) * Mul(l, q) = s * q
      <3>1. \A x, y \in Int : (x * y) * (x * y) = ((x * x) * y) * y
        BY SMT
      <3> QED BY <3>1, <1>1, <1>2 DEF Mul
    <2> HIDE DEF s
    <2>3. s * q <= HalfR * q
      <3>1. Mul(s, q) <= Mul(HalfR, q)
        BY <1>1, <2>1, MulGrows
      <3> QED BY <3>1 DEF Mul
    <2> QED BY <2>2, <2>3
  <1> QED BY <1>4, <1>5, <1>6 DEF l

LEMMA FactorIs == \A a \in Factors : a \in Arrays /\ Below(a, q)
  <1> SUFFICES ASSUME NEW a \in Factors PROVE a \in Arrays /\ Below(a, q)
    OBVIOUS
  <1>1. a \in [Coefficients -> 1 - q .. q - 1]
    BY NttAssumption
  <1>2. \A j \in Coefficients : a[j] \in Int /\ -q < a[j] /\ a[j] < q
    BY <1>1, WordFacts
  <1> QED BY <1>1, <1>2 DEF Arrays, Below

(* Every layer forward adds less than q.                                   *)
LEMMA ForwardBound ==
    ASSUME NEW a \in Arrays, Below(a, q)
    PROVE  \A n \in 0 .. Layers : Below(Forward(a, n), Mul(n + 1, q))
  <1>0. Layers \in Nat /\ q \in Int /\ q > 0 /\ HalfR \in Int
    BY LayersIs, DegreeFacts, WordFacts
  <1> DEFINE T == {n \in Nat : n <= Layers => Below(Forward(a, n), Mul(n + 1, q))}
  <1>1. 0 \in T
    <2>1. Mul(0 + 1, q) = q
      <3>1. 0 + 1 = 1 /\ Mul(1, q) = q
        BY <1>0, MulMore
      <3> QED BY <3>1
    <2> QED BY <2>1, ForwardUnfold
  <1>2. ASSUME NEW n \in Nat, n \in T PROVE n + 1 \in T
    <2>1. CASE n + 1 <= Layers
      <3> DEFINE x == Forward(a, n)
                 y == Forward(a, n + 1)
                 m == Mul(n + 1, q)
                 o == Mul((n + 1) + 1, q)
      <3>1. n \in 0 .. Layers - 1 /\ n \in 0 .. Layers /\ n <= Layers
        BY <1>0, <2>1
      <3>2. x \in Arrays /\ y = ForwardLayer(x, Length[n + 1]) /\ Below(x, m)
        BY <3>1, <1>2, ForwardUnfold
      <3>3. m \in Int /\ m <= HalfR /\ o = m + q
        <4>1. n + 1 \in Int /\ 1 \in Int
          OBVIOUS
        <4>2. Mul((n + 1) + 1, q) = Mul(n + 1, q) + Mul(1, q) /\ Mul(1, q) = q
          BY <4>1, <1>0, MulMore
        <4> QED BY <3>1, <4>2, Room
      <3> HIDE DEF x, y, m, o
      <3>4. ASSUME NEW j \in Coefficients PROVE -o < y[j] /\ y[j] < o
        <4>1. PICK k, t : IsPair(n, k, t) /\ (j = At(n, k, t) \/ j = High(n, k, t))
          BY <3>1, EachPair
        <4> DEFINE lo == At(n, k, t)
                   hi == High(n, k, t)
                   z  == montgomery_reduce(zetas(Heap(n, k)) * x[hi])
        <4>2. /\ x[lo] \in Int /\ x[hi] \in Int /\ z \in Int
              /\ y[lo] = x[lo] + z /\ y[hi] = x[lo] - z
          BY <3>1, <3>2, <4>1, ForwardLayerIs
        <4>3. lo \in Coefficients /\ hi \in Coefficients
          BY <4>1, PairIs
        <4>4. -m < x[lo] /\ x[lo] < m /\ -m < x[hi] /\ x[hi] < m
          BY <3>2, <4>3 DEF Below
        <4>5. -HalfR < x[hi] /\ x[hi] < HalfR
          <5> HIDE DEF hi
          <5> QED BY <3>3, <4>2, <4>4, <1>0
        <4>6. Heap(n, k) \in Nat
          BY <3>1, <4>1, HeapIs DEF IsPair
        <4>7. -q < z /\ z < q
          <5> HIDE DEF hi
          <5> QED BY <4>2, <4>5, <4>6, TwiddleIs
        <4> DEFINE u == x[lo]
        <4>8. u \in Int /\ -m < u /\ u < m /\ (y[j] = u + z \/ y[j] = u - z)
          BY <4>1, <4>2, <4>4
        <4>9. z \in Int
          BY <4>2
        <4> HIDE DEF z, u
        <4> QED BY <4>7, <4>8, <4>9, <3>3, <1>0
      <3>5. Below(y, o)
        BY <3>4 DEF Below
      <3> QED BY <3>5 DEF y, o
    <2> QED BY <2>1, <1>0
  <1> HIDE DEF T
  <1>3. \A n \in Nat : n \in T
    BY <1>1, <1>2, SetInduction
  <1>4. \A n \in Nat : n <= Layers => Below(Forward(a, n), Mul(n + 1, q))
    BY <1>3 DEF T
  <1> QED BY <1>0, <1>4

(* A bound may grow.                                                       *)
LEMMA BelowLess ==
    ASSUME NEW a \in Arrays, NEW x \in Int, NEW y \in Int, x <= y, Below(a, x)
    PROVE  Below(a, y)
  <1>1. ASSUME NEW j \in Coefficients PROVE -y < a[j] /\ a[j] < y
    <2>1. a[j] \in Int /\ -x < a[j] /\ a[j] < x
      BY DEF Arrays, Below
    <2> QED BY <2>1
  <1> QED BY <1>1 DEF Below

(* The product coefficient by coefficient, and its bound.                  *)
LEMMA PointwiseIs ==
    ASSUME NEW a \in Arrays, NEW b \in Arrays
    PROVE  LET c == pointwise_montgomery(a, b)
           IN  /\ c \in Arrays
               /\ \A j \in Coefficients : Same(c[j], Mul(RInverse, Mul(a[j], b[j])))
               /\ Below(a, Mul(Layers + 1, q)) /\ Below(b, Mul(Layers + 1, q)) => Below(c, q)
  <1> DEFINE c == pointwise_montgomery(a, b)
  <1>1. ASSUME NEW j \in Coefficients
        PROVE  /\ c[j] \in Int /\ Same(c[j], Mul(RInverse, Mul(a[j], b[j])))
               /\ Below(a, Mul(Layers + 1, q)) /\ Below(b, Mul(Layers + 1, q)) =>
                      -q < c[j] /\ c[j] < q
    <2> DEFINE x == a[j]
               y == b[j]
               p == Mul(x, y)
               m == Mul(Layers + 1, q)
               s == HalfR * q
    <2>1. x \in Int /\ y \in Int
      BY DEF Arrays
    <2>2. c[j] = montgomery_reduce(p)
      BY DEF pointwise_montgomery, Mul
    <2> HIDE DEF x, y
    <2>3. p \in Int
      BY <2>1, MulFacts
    <2>4. montgomery_reduce(p) \in Int /\ Same(montgomery_reduce(p), Mul(RInverse, p))
      BY <2>3, MontgomerySame
    <2>5. ASSUME Below(a, m), Below(b, m) PROVE -q < montgomery_reduce(p) /\ montgomery_reduce(p) < q
      <3>1. -m < x /\ x < m /\ -m < y /\ y < m
        BY <2>5 DEF Below, x, y
      <3>2. m \in Int /\ m * m <= s
        <4>1. Layers \in 0 .. Layers
          BY LayersIs, DegreeFacts
        <4> QED BY <4>1, Room
      <3>3. m * m \in Int /\ s \in Int
        <4>1. HalfR \in Int /\ q \in Int
          BY WordFacts
        <4> QED BY <3>2, <4>1
      <3> HIDE DEF m
      <3>4. -(m * m) < x * y /\ x * y < m * m
        BY <2>1, <3>1, <3>2, ProductBound
      <3> DEFINE v == m * m
                 r == x * y
      <3>5. v \in Int /\ r = p /\ -v < r /\ r < v /\ v <= s
        BY <3>2, <3>3, <3>4 DEF Mul
      <3> HIDE DEF v, r, p, s
      <3>6. -s < p /\ p < s
        BY <3>5, <3>3, <2>3
      <3>7. -(HalfR * q) < p /\ p < HalfR * q
        BY <3>6 DEF s
      <3> QED BY <2>3, <3>7, MontgomeryReduces
    <2> QED BY <2>2, <2>4, <2>5 DEF x, y
  <1>2. c = [j \in Coefficients |-> montgomery_reduce(a[j] * b[j])]
    BY DEF pointwise_montgomery
  <1>3. c \in Arrays
    <2> DEFINE e(j) == montgomery_reduce(a[j] * b[j])
    <2>1. c = [j \in Coefficients |-> e(j)]
      BY <1>2
    <2> HIDE DEF e, c
    <2>2. \A j \in Coefficients : e(j) \in Int
      BY <1>1, <2>1
    <2> QED BY <2>1, <2>2 DEF Arrays
  <1> HIDE DEF c
  <1>4. Below(a, Mul(Layers + 1, q)) /\ Below(b, Mul(Layers + 1, q)) => Below(c, q)
    BY <1>1 DEF Below
  <1> QED BY <1>1, <1>3, <1>4 DEF c

-----------------------------------------------------------------------------
(* How large they grow on the way back.                                    *)

(* There are at most as many blocks as coefficients.                       *)
LEMMA WideMost == \A i \in 0 .. Layers : Wide(i) \in 0 .. Degree
  <1> SUFFICES ASSUME NEW i \in 0 .. Layers PROVE Wide(i) \in 0 .. Degree
    OBVIOUS
  <1> DEFINE w == Wide(i)
             n == Length[i]
  <1>1. w \in Nat /\ n \in Nat /\ n >= 1 /\ Mul(w, n) = Degree
    BY WideIs, LayersIs
  <1> HIDE DEF w, n
  <1>2. Mul(1, w) <= Mul(n, w) /\ Mul(1, w) = w /\ Mul(n, w) = Mul(w, n)
    <2>1. w \in Int /\ n \in Int /\ 1 \in Int /\ w >= 0
      BY <1>1
    <2> QED BY <1>1, <2>1, MulGrows, MulMore, MulFacts
  <1>3. w <= Degree
    BY <1>1, <1>2
  <1> QED BY <1>1, <1>3, DegreeFacts DEF w

(* Every layer back doubles the bound; the differences stay below the next *)
(* one.                                                                    *)
LEMMA BackwardBound ==
    ASSUME NEW c \in Arrays, Below(c, q)
    PROVE  /\ \A n \in 0 .. Layers : Below(Backward(c, n), Mul(Wide(n), q))
           /\ \A n \in 0 .. Layers - 1 :
                  Below(Differences(Backward(c, n), Length[Layers - n]), Mul(Wide(n + 1), q))
  <1>0. Layers \in Nat /\ q \in Int /\ q > 0 /\ HalfR \in Int
    BY LayersIs, DegreeFacts, WordFacts
  <1>1. ASSUME NEW n \in 0 .. Layers - 1, Below(Backward(c, n), Mul(Wide(n), q))
        PROVE  /\ Below(Backward(c, n + 1), Mul(Wide(n + 1), q))
               /\ Below(Differences(Backward(c, n), Length[Layers - n]), Mul(Wide(n + 1), q))
    <2> DEFINE i == Layers - n - 1
               x == Backward(c, n)
               y == Backward(c, n + 1)
               d == Differences(x, Length[i + 1])
               m == Mul(Wide(n), q)
               o == Mul(Wide(n + 1), q)
    <2>1. i \in 0 .. Layers - 1 /\ i + 1 = Layers - n /\ n \in 0 .. Layers /\ n + 1 \in 0 .. Layers
      BY <1>0
    <2>2. x \in Arrays /\ y = InverseLayer(x, Length[i + 1]) /\ Below(x, m)
      BY <1>1, <2>1, BackwardUnfold
    <2>3. m \in Int /\ o \in Int /\ o <= HalfR /\ o = m + m /\ q <= o
      <3> DEFINE w == Wide(n)
      <3>1. w \in Nat /\ w > 0 /\ Wide(n + 1) = 2 * w /\ Wide(n + 1) \in 0 .. Degree
        BY <2>1, WideIs, WideMost
      <3> HIDE DEF w
      <3>2. w \in Int /\ 2 * w = w + w /\ 1 \in Int /\ 1 <= w
        BY <3>1
      <3>3. Mul(w + w, q) = Mul(w, q) + Mul(w, q) /\ Mul(w, q) \in Int /\ Mul(1, q) = q
            /\ Mul(1, q) <= Mul(w, q)
        <4>1. \A u, v \in Int : Mul(u + v, q) = Mul(u, q) + Mul(v, q)
          BY <1>0, MulMore
        <4>2. Mul(w + w, q) = Mul(w, q) + Mul(w, q) /\ Mul(w, q) \in Int
          BY <3>2, <4>1, <1>0, MulFacts
        <4>3. Mul(1, q) = q /\ Mul(1, q) <= Mul(w, q)
          BY <3>2, <1>0, MulMore, MulGrows
        <4> QED BY <4>2, <4>3
      <3>4. o \in Int /\ o <= HalfR
        BY <3>1, Room
      <3> QED BY <1>0, <3>1, <3>2, <3>3, <3>4 DEF w
    <2> HIDE DEF i, x, y, m, o
    <2>4. ASSUME NEW j \in Coefficients
          PROVE  -o < y[j] /\ y[j] < o /\ -o < d[j] /\ d[j] < o
      <3>1. PICK k, t : IsPair(i, k, t) /\ (j = At(i, k, t) \/ j = High(i, k, t))
        BY <2>1, EachPair
      <3> DEFINE lo == At(i, k, t)
                 hi == High(i, k, t)
                 s  == x[lo] + x[hi]
                 v  == x[lo] - x[hi]
                 z  == montgomery_reduce((-zetas(Mirror(i, k))) * v)
      <3>2. /\ x[lo] \in Int /\ x[hi] \in Int
            /\ d[lo] = s /\ d[hi] = v /\ y[lo] = s /\ y[hi] = z
        <4> DEFINE e == InverseLayer(x, Length[i + 1])
        <4>1. \A k1, t1 : IsPair(i, k1, t1) =>
                 /\ x[At(i, k1, t1)] \in Int /\ x[High(i, k1, t1)] \in Int
                 /\ d[At(i, k1, t1)] = x[At(i, k1, t1)] + x[High(i, k1, t1)]
                 /\ d[High(i, k1, t1)] = x[At(i, k1, t1)] - x[High(i, k1, t1)]
                 /\ e[At(i, k1, t1)] = x[At(i, k1, t1)] + x[High(i, k1, t1)]
                 /\ e[High(i, k1, t1)] =
                      montgomery_reduce((-zetas(Mirror(i, k1)))
                                        * (x[At(i, k1, t1)] - x[High(i, k1, t1)]))
          <5> HIDE DEF s, v, z, lo, hi
          <5>1. x \in Arrays /\ i \in 0 .. Layers - 1
            BY <2>1, <2>2
          <5> QED BY <5>1, InverseLayerIs, SMTT(60)
        <4>2. y = e
          BY <2>2
        <4> HIDE DEF e, d
        <4> QED BY <3>1, <4>1, <4>2
      <3>3. lo \in Coefficients /\ hi \in Coefficients
        BY <3>1, PairIs
      <3>4. -m < x[lo] /\ x[lo] < m /\ -m < x[hi] /\ x[hi] < m
        BY <2>2, <3>3 DEF Below
      <3>5. s \in Int /\ v \in Int /\ -o < s /\ s < o /\ -o < v /\ v < o
        BY <2>3, <3>2, <3>4
      <3>6. Mirror(i, k) \in Nat
        BY <2>1, <3>1, HeapIs DEF IsPair
      <3> HIDE DEF s, v
      <3>7. -HalfR < v /\ v < HalfR
        BY <3>5, <2>3, <1>0
      <3>8. z \in Int /\ -q < z /\ z < q
        BY <3>5, <3>6, <3>7, TwiddleIs
      <3> HIDE DEF z, d
      <3>9. -o < z /\ z < o
        BY <3>8, <2>3, <1>0
      <3> QED BY <3>1, <3>2, <3>5, <3>9
    <2> HIDE DEF d
    <2>5. Below(y, o) /\ Below(d, o)
      BY <2>4 DEF Below
    <2> QED BY <2>1, <2>5 DEF y, o, d, x
  <1> DEFINE T == {n \in Nat : n <= Layers => Below(Backward(c, n), Mul(Wide(n), q))}
  <1>2. 0 \in T
    <2>1. Mul(Wide(0), q) = q
      BY <1>0, MulMore, WideIs
    <2> QED BY <2>1, BackwardUnfold
  <1>3. ASSUME NEW n \in Nat, n \in T PROVE n + 1 \in T
    <2>1. CASE n + 1 <= Layers
      <3>1. n \in 0 .. Layers - 1 /\ n <= Layers
        BY <1>0, <2>1
      <3> QED BY <3>1, <1>1, <1>3
    <2> QED BY <2>1, <1>0
  <1> HIDE DEF T
  <1>4. \A n \in Nat : n \in T
    BY <1>2, <1>3, SetInduction
  <1>5. \A n \in Nat : n <= Layers => Below(Backward(c, n), Mul(Wide(n), q))
    BY <1>4 DEF T
  <1>6. \A n \in 0 .. Layers : Below(Backward(c, n), Mul(Wide(n), q))
    BY <1>0, <1>5
  <1>7. \A n \in 0 .. Layers - 1 : n \in 0 .. Layers
    BY <1>0
  <1> QED BY <1>1, <1>6, <1>7

(* The last multiplication.                                                *)
LEMMA InverseIs ==
    ASSUME NEW c \in Arrays
    PROVE  LET x == Backward(c, Layers)
               d == invntt_tomont(c)
           IN  /\ x \in Arrays /\ d \in Arrays
               /\ \A j \in Coefficients : Same(d[j], Mul(RInverse, Mul(MontSquaredByN, x[j])))
               /\ Below(x, HalfR) => Below(d, q)
  <1> DEFINE x == Backward(c, Layers)
             d == invntt_tomont(c)
  <1>0. Layers \in 0 .. Layers
    BY LayersIs, DegreeFacts
  <1>1. x \in Arrays
    BY <1>0, BackwardUnfold
  <1>2. ASSUME NEW j \in Coefficients
        PROVE  /\ d[j] \in Int /\ Same(d[j], Mul(RInverse, Mul(MontSquaredByN, x[j])))
               /\ Below(x, HalfR) => -q < d[j] /\ d[j] < q
    <2> DEFINE y == x[j]
               p == Mul(MontSquaredByN, y)
    <2>1. y \in Int
      BY <1>1 DEF Arrays
    <2>2. d[j] = montgomery_reduce(p)
      BY DEF invntt_tomont, Mul
    <2> HIDE DEF y
    <2>3. p \in Int
      BY <2>1, DegreeFacts, MulFacts
    <2>4. montgomery_reduce(p) \in Int /\ Same(montgomery_reduce(p), Mul(RInverse, p))
      BY <2>3, MontgomerySame
    <2>5. ASSUME Below(x, HalfR) PROVE -q < montgomery_reduce(p) /\ montgomery_reduce(p) < q
      <3>1. -HalfR < y /\ y < HalfR
        BY <2>5 DEF Below, y
      <3>2. /\ MontSquaredByN \in Int /\ -q < MontSquaredByN /\ MontSquaredByN < q
            /\ q \in Int /\ HalfR \in Int
        BY DegreeFacts, WordFacts
      <3>3. -(HalfR * q) < MontSquaredByN * y /\ MontSquaredByN * y < HalfR * q
        BY <2>1, <3>1, <3>2, ProductBound
      <3>4. -(HalfR * q) < p /\ p < HalfR * q
        BY <3>3 DEF Mul
      <3> HIDE DEF p
      <3> QED BY <2>3, <3>4, MontgomeryReduces
    <2> QED BY <2>2, <2>4, <2>5 DEF y
  <1>3. d \in Arrays
    <2> DEFINE e(j) == montgomery_reduce(MontSquaredByN * x[j])
    <2>1. d = [j \in Coefficients |-> e(j)]
      BY DEF invntt_tomont
    <2> HIDE DEF e, d
    <2>2. \A j \in Coefficients : e(j) \in Int
      BY <1>2, <2>1
    <2> QED BY <2>1, <2>2 DEF Arrays
  <1> HIDE DEF d
  <1>4. Below(x, HalfR) => Below(d, q)
    BY <1>2 DEF Below
  <1> QED BY <1>1, <1>2, <1>3, <1>4 DEF d

-----------------------------------------------------------------------------
(* The roots of the blocks: two blocks of the next level have the two      *)
(* square roots of what their parent has.                                  *)

(* The indices of the two halves of a block.                               *)
LEMMA HeapHalves ==
    ASSUME NEW i \in Nat, i + 1 < Layers, NEW k \in 0 .. Wide(i) - 1
    PROVE  /\ Heap(i + 1, 2 * k) = 2 * Heap(i, k)
           /\ Heap(i + 1, 2 * k + 1) = 2 * Heap(i, k) + 1
           /\ Mirror(i + 1, 2 * k) = 2 * Mirror(i, k) + 1
           /\ Mirror(i + 1, 2 * k + 1) = 2 * Mirror(i, k)
  <1>1. Layers \in Nat
    BY LayersIs, DegreeFacts
  <1>2. i \in 0 .. Layers - 1 /\ i \in 0 .. Layers
    BY <1>1
  <1>3. Wide(i) \in Nat /\ Wide(i + 1) = 2 * Wide(i)
    BY <1>2, WideIs
  <1> QED BY <1>3 DEF Heap, Mirror

(* How often the reversed index holds the length of the layer, and that it *)
(* completes the mirrored one to the degree.                               *)
Completes(i, k) ==
    /\ \E c \in Nat : Reversed[Heap(i, k)] = Mul(c, Length[i + 1])
    /\ \E c \in Nat : Reversed[Mirror(i, k)] = Mul(c, Length[i + 1])
    /\ Reversed[Heap(i, k)] + Reversed[Mirror(i, k)] = Degree

LEMMA HalfDegree ==
    \A i \in 0 .. Layers - 1 :
        /\ Degree = 2 * (Degree \div 2) /\ Degree \div 2 \in Nat
        /\ Degree \div 2 = Mul(Wide(i), Length[i + 1])
  <1> SUFFICES ASSUME NEW i \in 0 .. Layers - 1
               PROVE  /\ Degree = 2 * (Degree \div 2) /\ Degree \div 2 \in Nat
                      /\ Degree \div 2 = Mul(Wide(i), Length[i + 1])
    OBVIOUS
  <1>0. Layers \in Nat
    BY LayersIs, DegreeFacts
  <1> DEFINE w == Wide(i)
             l == Length[i + 1]
             d == Mul(w, l)
  <1>1. i \in 0 .. Layers /\ i + 1 \in 0 .. Layers
    BY <1>0
  <1>2. w \in Nat /\ l \in Nat /\ Length[i] = 2 * l /\ Mul(w, 2 * l) = Degree
    BY <1>1, WideIs, LayersIs
  <1> HIDE DEF w, l
  <1>3. Mul(w, 2 * l) = 2 * (w * l) /\ w * l \in Nat
    BY <1>2, SMT DEF Mul
  <1>4. d \in Nat /\ Degree = 2 * d
    BY <1>2, <1>3 DEF Mul
  <1> HIDE DEF d
  <1>5. Degree \div 2 = d
    BY <1>4
  <1> QED BY <1>4, <1>5 DEF d, w, l

(* The reversed indices of the two halves of a block.                      *)
LEMMA ReversedHalves ==
    ASSUME NEW i \in Nat, i + 1 < Layers, NEW h \in Nat, h > 0, NEW c \in Nat,
           Reversed[h] = Mul(c, Length[i + 1])
    PROVE  /\ \E e \in Nat : Reversed[2 * h] = Mul(e, Length[(i + 1) + 1])
           /\ \E e \in Nat : Reversed[2 * h + 1] = Mul(e, Length[(i + 1) + 1])
           /\ Reversed[2 * h] \in Nat /\ Reversed[2 * h + 1] \in Nat
           /\ Reversed[2 * h] + Reversed[2 * h] = Reversed[h]
           /\ Reversed[2 * h + 1] = Reversed[2 * h] + (Degree \div 2)
           /\ Reversed[2 * h + 1] + Reversed[2 * h + 1] = Reversed[h] + Degree
  <1> DEFINE l == Length[(i + 1) + 1]
             p == Mul(c, l)
             w == Wide(i + 1)
             g == Mul(w, l)
  <1>0. Layers \in Nat
    BY LayersIs, DegreeFacts
  <1>1. i + 1 \in 0 .. Layers - 1 /\ i + 1 \in 0 .. Layers /\ (i + 1) + 1 \in 0 .. Layers
    BY <1>0
  <1>2. l \in Nat /\ Length[i + 1] = 2 * l /\ w \in Nat
    BY <1>1, LayersIs, WideIs
  <1>3. Degree = 2 * g /\ Degree \div 2 = g /\ g \in Nat
    BY <1>1, HalfDegree
  <1> HIDE DEF l, w
  <1>4. p \in Nat /\ Mul(c, 2 * l) = 2 * p
    <2>1. c * l \in Nat /\ c * (2 * l) = 2 * (c * l)
      BY <1>2
    <2> QED BY <2>1 DEF Mul
  <1>5. Mul(c + w, l) = p + g /\ c + w \in Nat
    <2>1. c \in Int /\ w \in Int /\ l \in Int
      BY <1>2
    <2> QED BY <1>2, <2>1, MulMore
  <1> HIDE DEF p, g
  <1>6. Reversed[h] = 2 * p
    BY <1>2, <1>4
  <1>7. Reversed[2 * h] = p /\ Reversed[2 * h + 1] = p + g
    <2>1. Reversed[2 * h] = Reversed[h] \div 2 /\ Reversed[2 * h + 1] = (Reversed[h] \div 2) + g
      BY <1>3, ReversedIs
    <2>2. (2 * p) \div 2 = p
      BY <1>4
    <2> QED BY <1>6, <2>1, <2>2
  <1>8. Reversed[2 * h] = Mul(c, l) /\ Reversed[2 * h + 1] = Mul(c + w, l)
    BY <1>5, <1>7 DEF p
  <1>9. p + p = 2 * p /\ (p + g) + (p + g) = 2 * p + 2 * g /\ p + g \in Nat
    BY <1>3, <1>4
  <1> QED BY <1>3, <1>4, <1>5, <1>6, <1>7, <1>8, <1>9 DEF l

(* By induction over the layers.                                           *)
LEMMA CompletesAll ==
    \A i \in 0 .. Layers - 1 : \A k \in 0 .. Wide(i) - 1 : Completes(i, k)
  <1>0. Layers \in Nat
    BY LayersIs, DegreeFacts
  <1> DEFINE T == {i \in Nat : i < Layers => \A k \in 0 .. Wide(i) - 1 : Completes(i, k)}
  <1>1. 0 \in T
    <2> SUFFICES ASSUME 0 < Layers, NEW k \in 0 .. Wide(0) - 1 PROVE Completes(0, k)
      OBVIOUS
    <2>1. Wide(0) = 1 /\ k = 0
      BY WideIs
    <2>2. Heap(0, k) = 1 /\ Mirror(0, k) = 1
      BY <2>1 DEF Heap, Mirror
    <2>3. 0 \in 0 .. Layers - 1
      BY <1>0
    <2>4. Degree = 2 * (Degree \div 2) /\ Degree \div 2 \in Nat /\ Degree \div 2 = Mul(1, Length[0 + 1])
      BY <2>1, <2>3, HalfDegree
    <2>5. Reversed[1] = Degree \div 2
      <3>1. Reversed[2 * 0 + 1] = (Reversed[0] \div 2) + (Degree \div 2) /\ Reversed[0] = 0
        BY ReversedIs
      <3>2. 2 * 0 + 1 = 1 /\ 0 \div 2 = 0
        OBVIOUS
      <3> QED BY <3>1, <3>2, <2>4
    <2>6. 1 \in Nat
      OBVIOUS
    <2> QED BY <2>2, <2>4, <2>5, <2>6 DEF Completes
  <1>2. ASSUME NEW i \in Nat, i \in T PROVE i + 1 \in T
    <2> SUFFICES ASSUME i + 1 < Layers, NEW k \in 0 .. Wide(i + 1) - 1 PROVE Completes(i + 1, k)
      OBVIOUS
    <2>1. i \in 0 .. Layers - 1 /\ i \in 0 .. Layers /\ i < Layers
      BY <1>0
    <2>2. Wide(i) \in Nat /\ Wide(i + 1) = 2 * Wide(i)
      BY <2>1, WideIs
    <2> DEFINE e == k \div 2
    <2>3. e \in 0 .. Wide(i) - 1 /\ (k = 2 * e \/ k = 2 * e + 1)
      BY <2>2
    <2> HIDE DEF e
    <2> DEFINE h == Heap(i, e)
               m == Mirror(i, e)
    <2>4. h \in Nat /\ m \in Nat /\ h > 0 /\ m > 0
      BY <2>1, <2>3, HeapIs
    <2>5. Completes(i, e)
      BY <2>1, <2>3, <1>2
    <2>6. PICK c \in Nat : Reversed[h] = Mul(c, Length[i + 1])
      BY <2>5 DEF Completes
    <2>7. PICK b \in Nat : Reversed[m] = Mul(b, Length[i + 1])
      BY <2>5 DEF Completes
    <2>8. Reversed[h] + Reversed[m] = Degree
      BY <2>5 DEF Completes
    <2>9. /\ Heap(i + 1, 2 * e) = 2 * h /\ Heap(i + 1, 2 * e + 1) = 2 * h + 1
          /\ Mirror(i + 1, 2 * e) = 2 * m + 1 /\ Mirror(i + 1, 2 * e + 1) = 2 * m
      BY <2>3, HeapHalves
    <2> HIDE DEF h, m
    <2>10. /\ \E x \in Nat : Reversed[2 * h] = Mul(x, Length[(i + 1) + 1])
           /\ \E x \in Nat : Reversed[2 * h + 1] = Mul(x, Length[(i + 1) + 1])
           /\ Reversed[2 * h] \in Nat /\ Reversed[2 * h + 1] \in Nat
           /\ Reversed[2 * h] + Reversed[2 * h] = Reversed[h]
           /\ Reversed[2 * h + 1] = Reversed[2 * h] + (Degree \div 2)
      BY <2>4, <2>6, ReversedHalves
    <2>11. /\ \E x \in Nat : Reversed[2 * m] = Mul(x, Length[(i + 1) + 1])
           /\ \E x \in Nat : Reversed[2 * m + 1] = Mul(x, Length[(i + 1) + 1])
           /\ Reversed[2 * m] \in Nat /\ Reversed[2 * m + 1] \in Nat
           /\ Reversed[2 * m] + Reversed[2 * m] = Reversed[m]
           /\ Reversed[2 * m + 1] = Reversed[2 * m] + (Degree \div 2)
      BY <2>4, <2>7, ReversedHalves
    <2>12. /\ Reversed[2 * h] + Reversed[2 * m + 1] = Degree
           /\ Reversed[2 * h + 1] + Reversed[2 * m] = Degree
      <3> DEFINE x == Reversed[2 * h]
                 y == Reversed[2 * m]
                 g == Degree \div 2
      <3>1. Degree = 2 * g /\ g \in Nat
        BY <2>1, HalfDegree
      <3>2. /\ x \in Nat /\ y \in Nat /\ (x + x) + (y + y) = Degree
            /\ Reversed[2 * h + 1] = x + g /\ Reversed[2 * m + 1] = y + g
        BY <2>8, <2>10, <2>11
      <3> HIDE DEF x, y, g
      <3>3. x + (y + g) = Degree /\ (x + g) + y = Degree
        BY <3>1, <3>2
      <3> QED BY <3>2, <3>3 DEF x, y
    <2>13. Completes(i + 1, 2 * e)
      <3>1. Heap(i + 1, 2 * e) = 2 * h /\ Mirror(i + 1, 2 * e) = 2 * m + 1
        BY <2>9
      <3> QED BY <3>1, <2>10, <2>11, <2>12, Zenon DEF Completes
    <2>14. Completes(i + 1, 2 * e + 1)
      <3>1. Heap(i + 1, 2 * e + 1) = 2 * h + 1 /\ Mirror(i + 1, 2 * e + 1) = 2 * m
        BY <2>9
      <3> QED BY <3>1, <2>10, <2>11, <2>12, Zenon DEF Completes
    <2> QED BY <2>3, <2>13, <2>14
  <1> HIDE DEF T
  <1>3. \A i \in Nat : i \in T
    BY <1>1, <1>2, SetInduction
  <1>4. \A i \in Nat : i < Layers => \A k \in 0 .. Wide(i) - 1 : Completes(i, k)
    BY <1>3 DEF T
  <1>5. \A i \in 0 .. Layers - 1 : i \in Nat /\ i < Layers
    BY <1>0
  <1> QED BY <1>4, <1>5

(* What X to the power of the length of a block is, in the block.          *)
Turn(i, k) == Mul(Root(Heap(i, k)), Root(Heap(i, k)))

(* The roots of a block, of its mirror image and of its halves.            *)
LEMMA RootsAre ==
    ASSUME NEW i \in 0 .. Layers - 1, NEW k \in 0 .. Wide(i) - 1
    PROVE  /\ Root(Heap(i, k)) \in Int /\ Root(Mirror(i, k)) \in Int /\ Turn(i, k) \in Int
           /\ Same(Mul(Root(Mirror(i, k)), Root(Heap(i, k))), -1)
           /\ i = 0 => Same(Turn(i, k), -1)
           /\ i + 1 < Layers => /\ Same(Turn(i + 1, 2 * k), Root(Heap(i, k)))
                                /\ Same(Turn(i + 1, 2 * k + 1), -Root(Heap(i, k)))
  <1> DEFINE h == Heap(i, k)
             m == Mirror(i, k)
  <1>0. Layers \in Nat
    BY LayersIs, DegreeFacts
  <1>1. h \in Nat /\ m \in Nat /\ h > 0 /\ m > 0
    BY HeapIs
  <1>2. Root(h) \in Int /\ Root(m) \in Int
    BY <1>1, RootInt
  <1>3. Turn(i, k) \in Int
    BY <1>2, MulFacts DEF Turn
  <1>4. Completes(i, k) /\ Reversed[h] \in Nat /\ Reversed[m] \in Nat
    BY <1>1, CompletesAll, ReversedIs
  <1>5. \A a, b \in Nat : a + b = Degree => Same(Mul(Power[a], Power[b]), -1)
    <2> SUFFICES ASSUME NEW a \in Nat, NEW b \in Nat, a + b = Degree
                 PROVE  Same(Mul(Power[a], Power[b]), -1)
      OBVIOUS
    <2>1. Same(Power[Degree], Mul(Power[a], Power[b])) /\ Same(Power[Degree], -1)
      BY PowerAdd, PowerDegree
    <2>2. Power[Degree] \in Int /\ Power[a] \in Int /\ Power[b] \in Int
      BY DegreeFacts, PowerIs
    <2>3. Mul(Power[a], Power[b]) \in Int
      <3> DEFINE u == Power[a]
                 v == Power[b]
      <3>1. u \in Int /\ v \in Int
        BY <2>2
      <3> HIDE DEF u, v
      <3>2. Mul(u, v) \in Int
        BY <3>1, MulFacts
      <3> QED BY <3>2 DEF u, v
    <2> DEFINE x == Power[Degree]
               y == Mul(Power[a], Power[b])
               z == -1
    <2>4. Same(x, y) /\ Same(x, z) /\ x \in Int /\ y \in Int /\ z \in Int
      BY <2>1, <2>2, <2>3
    <2> HIDE DEF x, y, z
    <2>5. Same(y, z)
      BY <2>4, SameBasics
    <2> QED BY <2>5 DEF y, z
  <1>6. Same(Mul(Root(m), Root(h)), -1)
    <2>1. Reversed[m] + Reversed[h] = Degree
      BY <1>4 DEF Completes
    <2> QED BY <1>4, <1>5, <2>1 DEF Root
  <1>7. ASSUME i = 0 PROVE Same(Turn(i, k), -1)
    <2>1. k = 0 /\ m = h
      BY <1>7, WideIs DEF Heap, Mirror
    <2> QED BY <2>1, <1>6 DEF Turn
  <1>8. ASSUME i + 1 < Layers
        PROVE  /\ Same(Turn(i + 1, 2 * k), Root(h))
               /\ Same(Turn(i + 1, 2 * k + 1), -Root(h))
    <2>0. i \in Nat
      BY <1>0
    <2>1. Heap(i + 1, 2 * k) = 2 * h /\ Heap(i + 1, 2 * k + 1) = 2 * h + 1
      BY <1>8, <2>0, HeapHalves
    <2>2. PICK c \in Nat : Reversed[h] = Mul(c, Length[i + 1])
      BY <1>4 DEF Completes
    <2> HIDE DEF h, m
    <2> DEFINE a == Reversed[2 * h]
               b == Reversed[2 * h + 1]
               r == Reversed[h]
    <2>3. a \in Nat /\ b \in Nat /\ a + a = r /\ b + b = r + Degree /\ r \in Nat
      BY <1>1, <1>4, <1>8, <2>0, <2>2, ReversedHalves
    <2> DEFINE u == Power[a]
               v == Power[b]
               s == Power[r]
               t == Power[Degree]
               y == Power[r + Degree]
    <2>4. Turn(i + 1, 2 * k) = Mul(u, u) /\ Turn(i + 1, 2 * k + 1) = Mul(v, v) /\ Root(h) = s
      BY <2>1 DEF Turn, Root
    <2>5. Degree \in Nat /\ r + Degree \in Nat
      BY <2>3, DegreeFacts
    <2>6. Same(s, Mul(u, u)) /\ Same(y, Mul(v, v)) /\ Same(y, Mul(s, t)) /\ Same(t, -1)
      BY <2>3, <2>5, PowerAdd, PowerDegree
    <2>7. /\ u \in Int /\ v \in Int /\ s \in Int /\ t \in Int /\ y \in Int
      BY <2>3, <2>5, PowerIs
    <2> HIDE DEF a, b, r, u, v, s, t, y
    <2>8. /\ Mul(u, u) \in Int /\ Mul(v, v) \in Int /\ Mul(s, t) \in Int /\ -s \in Int
          /\ Mul(s, -1) = -s
      <3>1. \A x \in Int : Mul(x, -1) = -x
        BY DEF Mul
      <3>2. Mul(s, -1) = -s /\ -s \in Int
        BY <2>7, <3>1
      <3>3. Mul(u, u) \in Int /\ Mul(v, v) \in Int /\ Mul(s, t) \in Int
        BY <2>7, MulFacts
      <3> QED BY <3>2, <3>3
    <2>9. Same(Mul(u, u), s)
      BY <2>6, <2>7, <2>8, SameBasics
    <2>10. Same(Mul(s, t), -s)
      <3>1. Same(Mul(s, t), Mul(s, -1))
        BY <2>6, <2>7, SameScale
      <3> QED BY <3>1, <2>8
    <2>11. Same(y, -s)
      BY <2>6, <2>7, <2>8, <2>10, SameBasics
    <2>12. Same(Mul(v, v), y)
      BY <2>6, <2>7, <2>8, SameBasics
    <2>13. Same(Mul(v, v), -s)
      BY <2>7, <2>8, <2>11, <2>12, SameBasics
    <2> QED BY <2>4, <2>9, <2>13
  <1> QED BY <1>2, <1>3, <1>6, <1>7, <1>8 DEF h, m

-----------------------------------------------------------------------------
(* Sums, and products of polynomials.                                      *)

(* Sums of congruent terms.                                                *)
LEMMA SumSame ==
    ASSUME NEW n \in Nat, NEW f, NEW h, IsInt(f, n), IsInt(h, n),
           \A i \in 0 .. n - 1 : Same(h[i], f[i])
    PROVE  Same(SumOf(h, n), SumOf(f, n))
  <1> DEFINE T == {m \in Nat : m <= n => Same(SumOf(h, m), SumOf(f, m))}
  <1>1. Adds(f, n) /\ Adds(h, n)
    BY SumUnfold
  <1>2. 0 \in T
    BY <1>1, SameBasics DEF Adds
  <1>3. ASSUME NEW m \in Nat, m \in T PROVE m + 1 \in T
    <2>1. CASE m + 1 <= n
      <3>1. m \in 0 .. n - 1 /\ m \in 0 .. n /\ m <= n
        BY <2>1
      <3>2. /\ SumOf(h, m + 1) = SumOf(h, m) + h[m] /\ h[m] \in Int /\ SumOf(h, m) \in Int
            /\ SumOf(f, m + 1) = SumOf(f, m) + f[m] /\ f[m] \in Int /\ SumOf(f, m) \in Int
        BY <3>1, <1>1 DEF Adds, IsInt
      <3>3. Same(SumOf(h, m), SumOf(f, m)) /\ Same(h[m], f[m])
        BY <3>1, <1>3
      <3>4. Same(SumOf(h, m) + h[m], SumOf(f, m) + f[m])
        BY <3>2, <3>3, SameAdd
      <3> QED BY <3>2, <3>4
    <2> QED BY <2>1
  <1> HIDE DEF T
  <1>4. n \in T
    BY <1>2, <1>3, SetInduction
  <1> QED BY <1>4 DEF T

(* A sum of 2n terms as one of n.                                          *)
LEMMA SumSplit ==
    ASSUME NEW n \in Nat, NEW m \in Nat, NEW f, NEW g, IsInt(f, n + m),
           \A i \in 0 .. m - 1 : g[i] = f[i + n]
    PROVE  SumOf(f, n + m) = SumOf(f, n) + SumOf(g, m)
  <1> DEFINE T == {k \in Nat : k <= m => SumOf(f, n + k) = SumOf(f, n) + SumOf(g, k)}
             v == n + m
  <1>0. v \in Nat
    OBVIOUS
  <1>1. IsInt(g, m)
    <2>1. \A i \in 0 .. m - 1 : i + n \in 0 .. (n + m) - 1
      OBVIOUS
    <2> QED BY <2>1 DEF IsInt
  <1>2. Adds(f, v) /\ Adds(g, m)
    BY <1>0, <1>1, SumUnfold
  <1>3. 0 \in T
    <2>1. n + 0 = n /\ n \in 0 .. v
      OBVIOUS
    <2>2. SumOf(g, 0) = 0 /\ SumOf(f, n) \in Int
      BY <1>2, <2>1 DEF Adds
    <2> QED BY <2>1, <2>2
  <1>4. ASSUME NEW k \in Nat, k \in T PROVE k + 1 \in T
    <2>1. CASE k + 1 <= m
      <3>1. /\ k \in 0 .. m - 1 /\ k <= m /\ k \in 0 .. m /\ n \in 0 .. v
            /\ n + k \in 0 .. v - 1 /\ n + k \in 0 .. v /\ n + (k + 1) = (n + k) + 1
            /\ k + n = n + k
        BY <2>1
      <3>2. SumOf(f, (n + k) + 1) = SumOf(f, n + k) + f[n + k]
        BY <1>2, <3>1 DEF Adds
      <3>3. SumOf(g, k + 1) = SumOf(g, k) + g[k] /\ SumOf(g, k) \in Int /\ SumOf(f, n) \in Int
        BY <1>2, <3>1 DEF Adds
      <3>4. g[k] = f[n + k] /\ g[k] \in Int
        BY <1>1, <3>1 DEF IsInt
      <3>5. SumOf(f, n + k) = SumOf(f, n) + SumOf(g, k)
        BY <3>1, <1>4
      <3>6. SumOf(f, n + (k + 1)) = SumOf(f, n) + SumOf(g, k + 1)
        BY <3>1, <3>2, <3>3, <3>4, <3>5
      <3> QED BY <3>6
    <2> QED BY <2>1
  <1> HIDE DEF T
  <1>5. m \in T
    BY <1>3, <1>4, SetInduction
  <1> QED BY <1>5 DEF T

-----------------------------------------------------------------------------
(* The product of x and y modulo X^n - z.                                  *)
Terms(x, y, n, z, t) ==
    [s \in 0 .. n - 1 |-> IF s <= t THEN Mul(x[s], y[t - s])
                          ELSE Mul(z, Mul(x[s], y[(n + t) - s]))]
Convolved(x, y, n, z, t) == SumOf(Terms(x, y, n, z, t), n)

LEMMA TermsInt ==
    ASSUME NEW n \in Nat, NEW x \in [0 .. n - 1 -> Int], NEW y \in [0 .. n - 1 -> Int],
           NEW z \in Int, NEW t \in 0 .. n - 1
    PROVE  IsInt(Terms(x, y, n, z, t), n) /\ Convolved(x, y, n, z, t) \in Int
  <1>1. ASSUME NEW s \in 0 .. n - 1 PROVE Terms(x, y, n, z, t)[s] \in Int
    <2>1. CASE s <= t
      <3>1. t - s \in 0 .. n - 1
        BY <2>1
      <3>2. x[s] \in Int /\ y[t - s] \in Int
        BY <3>1
      <3>3. Mul(x[s], y[t - s]) \in Int
        BY <3>2, MulFacts
      <3> QED BY <2>1, <3>3 DEF Terms
    <2>2. CASE ~(s <= t)
      <3>1. (n + t) - s \in 0 .. n - 1
        BY <2>2
      <3>2. x[s] \in Int /\ y[(n + t) - s] \in Int
        BY <3>1
      <3>3. Mul(x[s], y[(n + t) - s]) \in Int
        BY <3>2, MulFacts
      <3>4. Mul(z, Mul(x[s], y[(n + t) - s])) \in Int
        BY <3>3, MulFacts
      <3> QED BY <2>2, <3>4 DEF Terms
    <2> QED BY <2>1, <2>2
  <1>2. IsInt(Terms(x, y, n, z, t), n)
    BY <1>1 DEF IsInt
  <1> QED BY <1>2, SumInt DEF Convolved

(* A product of two sums.                                                  *)
LEMMA SumsMultiply ==
    ASSUME NEW a \in Int, NEW b \in Int, NEW c \in Int, NEW d \in Int,
           NEW u \in Int, NEW v \in Int, NEW z \in Int, NEW zz \in Int,
           Same(u, a + Mul(z, b)), Same(v, c + Mul(z, d)), Same(zz, Mul(z, z))
    PROVE  /\ Same(Mul(u, v), (Mul(a, c) + Mul(zz, Mul(b, d)))
                                + Mul(z, Mul(a, d) + Mul(b, c)))
           /\ Same(Mul(z, Mul(u, v)), (Mul(zz, Mul(a, d)) + Mul(zz, Mul(b, c)))
                                        + Mul(z, Mul(a, c) + Mul(zz, Mul(b, d))))
  <1> DEFINE ac == Mul(a, c)
             bd == Mul(b, d)
             ad == Mul(a, d)
             bc == Mul(b, c)
             w  == Mul(z, z)
  <1>1. ac \in Int /\ bd \in Int /\ ad \in Int /\ bc \in Int /\ w \in Int
    BY MulFacts
  <1>2. \A x \in Int : Mul(z, x) \in Int /\ Mul(zz, x) \in Int /\ Mul(w, x) \in Int
    BY <1>1, MulFacts
  <1>3. Mul(a + Mul(z, b), c + Mul(z, d)) = (ac + Mul(w, bd)) + Mul(z, ad + bc)
    <2>1. \A k, l, m, n, o \in Int :
              (k + (o * l)) * (m + (o * n)) = (k * m + (o * o) * (l * n)) + o * (k * n + l * m)
      BY SMT
    <2> QED BY <2>1 DEF Mul
  <1>4. Mul(z, Mul(a + Mul(z, b), c + Mul(z, d)))
          = (Mul(w, ad) + Mul(w, bc)) + Mul(z, ac + Mul(w, bd))
    <2>1. \A k, l, m, n, o \in Int :
              o * ((k + (o * l)) * (m + (o * n)))
                = ((o * o) * (k * n) + (o * o) * (l * m)) + o * (k * m + (o * o) * (l * n))
      BY SMT
    <2> QED BY <2>1 DEF Mul
  <1> DEFINE p == a + Mul(z, b)
             r == c + Mul(z, d)
             uv == Mul(u, v)
             pr == Mul(p, r)
  <1>5. p \in Int /\ r \in Int /\ Same(u, p) /\ Same(v, r)
    BY <1>2
  <1> HIDE DEF p, r
  <1>6. uv \in Int /\ pr \in Int /\ Same(uv, pr)
    BY <1>5, MulFacts, SameMul
  <1> HIDE DEF uv, pr, ac, bd, ad, bc, w
  <1>7. \A x \in Int : Same(Mul(w, x), Mul(zz, x))
    <2> SUFFICES ASSUME NEW x \in Int PROVE Same(Mul(w, x), Mul(zz, x))
      OBVIOUS
    <2>1. Same(w, zz) /\ Same(x, x)
      BY <1>1, SameBasics DEF w
    <2> QED BY <1>1, <2>1, SameMul
  <1>8. Same(uv, (ac + Mul(zz, bd)) + Mul(z, ad + bc))
    <2> DEFINE x == Mul(w, bd)
               y == Mul(zz, bd)
               k == Mul(z, ad + bc)
    <2>1. x \in Int /\ y \in Int /\ k \in Int /\ Same(x, y) /\ Same(ac, ac) /\ Same(k, k)
      <3>1. ad + bc \in Int
        BY <1>1
      <3>2. k \in Int
        BY <1>2, <3>1
      <3> QED BY <1>1, <1>2, <1>7, <3>2, SameBasics
    <2>2. pr = (ac + x) + k
      BY <1>3 DEF pr, p, r
    <2> HIDE DEF x, y, k
    <2>3. Same(ac + x, ac + y) /\ ac + x \in Int /\ ac + y \in Int
      BY <1>1, <2>1, SameAdd
    <2> DEFINE m == ac + x
               n == ac + y
    <2>4. m \in Int /\ n \in Int /\ Same(m, n) /\ pr = m + k
      BY <2>2, <2>3
    <2> HIDE DEF m, n
    <2>5. Same(m + k, n + k) /\ m + k \in Int /\ n + k \in Int
      BY <2>1, <2>4, SameAdd
    <2>6. Same(uv, n + k)
      BY <1>6, <2>4, <2>5, SameBasics
    <2> QED BY <2>6 DEF n, y, k
  <1>9. Same(Mul(z, uv), (Mul(zz, ad) + Mul(zz, bc)) + Mul(z, ac + Mul(zz, bd)))
    <2> DEFINE x == Mul(w, ad)
               xx == Mul(zz, ad)
               y == Mul(w, bc)
               yy == Mul(zz, bc)
               k == ac + Mul(w, bd)
               kk == ac + Mul(zz, bd)
    <2>1. /\ x \in Int /\ xx \in Int /\ Same(x, xx) /\ y \in Int /\ yy \in Int /\ Same(y, yy)
      BY <1>1, <1>2, <1>7
    <2>2. k \in Int /\ kk \in Int /\ Same(k, kk)
      <3> DEFINE m == Mul(w, bd)
                 n == Mul(zz, bd)
      <3>1. m \in Int /\ n \in Int /\ Same(m, n) /\ Same(ac, ac)
        BY <1>1, <1>2, <1>7, SameBasics
      <3> HIDE DEF m, n
      <3>2. Same(ac + m, ac + n) /\ ac + m \in Int /\ ac + n \in Int
        BY <1>1, <3>1, SameAdd
      <3> QED BY <3>2 DEF m, n
    <2>3. Mul(z, pr) = (x + y) + Mul(z, k)
      BY <1>4 DEF pr, p, r
    <2> HIDE DEF x, xx, y, yy, k, kk
    <2>4. Same(Mul(z, k), Mul(z, kk)) /\ Mul(z, k) \in Int /\ Mul(z, kk) \in Int
      BY <1>2, <2>2, SameScale
    <2>5. Same(x + y, xx + yy) /\ x + y \in Int /\ xx + yy \in Int
      BY <2>1, SameAdd
    <2> DEFINE m == Mul(z, k)
               n == Mul(z, kk)
               g == x + y
               h == xx + yy
               o == Mul(z, pr)
               l == Mul(z, uv)
    <2>6. l \in Int /\ o \in Int /\ Same(l, o)
      BY <1>6, <1>2, SameScale
    <2>7. o = g + m /\ Same(g, h) /\ Same(m, n) /\ g \in Int /\ h \in Int /\ m \in Int /\ n \in Int
      BY <2>3, <2>4, <2>5
    <2> HIDE DEF m, n, g, h, o, l
    <2>8. Same(g + m, h + n) /\ g + m \in Int /\ h + n \in Int
      BY <2>7, SameAdd
    <2>9. Same(l, h + n)
      BY <2>6, <2>7, <2>8, SameBasics
    <2> QED BY <2>9 DEF l, h, n, xx, yy, kk
  <1> QED BY <1>8, <1>9 DEF uv, ac, bd, ad, bc

(* A layer takes a product modulo X^2n - z^2 to one modulo X^n - z.  When  *)
(* n = 1, nothing is left of the modulus.                                  *)
LEMMA LayerMultiplies ==
    ASSUME NEW n \in Nat, n > 0,
           NEW x \in [0 .. 2 * n - 1 -> Int], NEW y \in [0 .. 2 * n - 1 -> Int],
           NEW u \in [0 .. n - 1 -> Int], NEW v \in [0 .. n - 1 -> Int],
           NEW z \in Int, NEW zz \in Int, NEW g \in Int,
           Same(zz, Mul(z, z)), n > 1 => Same(g, z),
           \A s \in 0 .. n - 1 : /\ Same(u[s], x[s] + Mul(z, x[s + n]))
                                 /\ Same(v[s], y[s] + Mul(z, y[s + n])),
           NEW t \in 0 .. n - 1
    PROVE  Same(Convolved(u, v, n, g, t),
                Convolved(x, y, 2 * n, zz, t) + Mul(z, Convolved(x, y, 2 * n, zz, t + n)))
  <1> DEFINE E == Terms(u, v, n, g, t)
             F == Terms(x, y, 2 * n, zz, t)
             G == Terms(x, y, 2 * n, zz, t + n)
             FF == [s \in 0 .. n - 1 |-> F[s + n]]
             GG == [s \in 0 .. n - 1 |-> G[s + n]]
             H  == [s \in 0 .. n - 1 |-> F[s] + FF[s]]
             I  == [s \in 0 .. n - 1 |-> G[s] + GG[s]]
             J  == [s \in 0 .. n - 1 |-> Mul(z, I[s])]
             M  == [s \in 0 .. n - 1 |-> H[s] + J[s]]
  <1>1. 2 * n \in Nat /\ t \in 0 .. 2 * n - 1 /\ t + n \in 0 .. 2 * n - 1 /\ 2 * n = n + n
    OBVIOUS
  <1>2. IsInt(E, n) /\ IsInt(F, 2 * n) /\ IsInt(G, 2 * n)
    BY <1>1, TermsInt
  <1>3. /\ SumOf(F, 2 * n) \in Int /\ SumOf(G, 2 * n) \in Int /\ SumOf(E, n) \in Int
    BY <1>1, <1>2, SumInt
  <1>4. ASSUME NEW s \in 0 .. n - 1
        PROVE  /\ E[s] \in Int /\ F[s] \in Int /\ FF[s] \in Int /\ G[s] \in Int /\ GG[s] \in Int
               /\ Same(E[s], (F[s] + FF[s]) + Mul(z, G[s] + GG[s]))
    <2>1. s \in 0 .. 2 * n - 1 /\ s + n \in 0 .. 2 * n - 1
      OBVIOUS
    <2>2. E[s] \in Int /\ F[s] \in Int /\ F[s + n] \in Int /\ G[s] \in Int /\ G[s + n] \in Int
      BY <1>2, <2>1 DEF IsInt
    <2>3. CASE s <= t
      <3> DEFINE r == t - s
      <3>1. /\ r \in 0 .. n - 1 /\ r \in 0 .. 2 * n - 1 /\ r + n \in 0 .. 2 * n - 1
            /\ (t + n) - s = r + n /\ (t + n) - (s + n) = r /\ (2 * n + t) - (s + n) = r + n
            /\ ~(s + n <= t) /\ s <= t + n /\ s + n <= t + n
        BY <2>3
      <3>2. /\ E[s] = Mul(u[s], v[r]) /\ F[s] = Mul(x[s], y[r])
            /\ F[s + n] = Mul(zz, Mul(x[s + n], y[r + n]))
            /\ G[s] = Mul(x[s], y[r + n]) /\ G[s + n] = Mul(x[s + n], y[r])
        <4>1. E[s] = Mul(u[s], v[r]) /\ F[s] = Mul(x[s], y[r])
          BY <2>1, <2>3 DEF Terms
        <4>2. F[s + n] = Mul(zz, Mul(x[s + n], y[(2 * n + t) - (s + n)]))
          BY <2>1, <3>1 DEF Terms
        <4>3. G[s] = Mul(x[s], y[(t + n) - s]) /\ G[s + n] = Mul(x[s + n], y[(t + n) - (s + n)])
          BY <2>1, <3>1 DEF Terms
        <4> HIDE DEF r
        <4> QED BY <3>1, <4>1, <4>2, <4>3
      <3> HIDE DEF r, E, F, G
      <3>3. /\ x[s] \in Int /\ x[s + n] \in Int /\ y[r] \in Int /\ y[r + n] \in Int
            /\ u[s] \in Int /\ v[r] \in Int
        BY <2>1, <3>1
      <3>4. Same(u[s], x[s] + Mul(z, x[s + n])) /\ Same(v[r], y[r] + Mul(z, y[r + n]))
        BY <3>1
      <3>5. Same(Mul(u[s], v[r]), (Mul(x[s], y[r]) + Mul(zz, Mul(x[s + n], y[r + n])))
                                    + Mul(z, Mul(x[s], y[r + n]) + Mul(x[s + n], y[r])))
        BY <3>3, <3>4, SumsMultiply
      <3> QED BY <2>2, <3>2, <3>5
    <2>4. CASE ~(s <= t)
      <3> DEFINE r == (n + t) - s
      <3>1. /\ r \in 0 .. n - 1 /\ r \in 0 .. 2 * n - 1 /\ r + n \in 0 .. 2 * n - 1
            /\ (2 * n + t) - s = r + n /\ (2 * n + t) - (s + n) = r
            /\ (t + n) - s = r /\ (2 * n + (t + n)) - (s + n) = r + n
            /\ ~(s + n <= t) /\ s <= t + n /\ ~(s + n <= t + n) /\ n > 1
        BY <2>4
      <3>2. /\ E[s] = Mul(g, Mul(u[s], v[r])) /\ F[s] = Mul(zz, Mul(x[s], y[r + n]))
            /\ F[s + n] = Mul(zz, Mul(x[s + n], y[r]))
            /\ G[s] = Mul(x[s], y[r]) /\ G[s + n] = Mul(zz, Mul(x[s + n], y[r + n]))
        <4>1. E[s] = Mul(g, Mul(u[s], v[r]))
          BY <2>1, <2>4 DEF Terms
        <4>2. F[s] = Mul(zz, Mul(x[s], y[(2 * n + t) - s]))
              /\ F[s + n] = Mul(zz, Mul(x[s + n], y[(2 * n + t) - (s + n)]))
          BY <2>1, <2>4, <3>1 DEF Terms
        <4>3. G[s] = Mul(x[s], y[(t + n) - s])
              /\ G[s + n] = Mul(zz, Mul(x[s + n], y[(2 * n + (t + n)) - (s + n)]))
          BY <2>1, <3>1 DEF Terms
        <4> HIDE DEF r
        <4> QED BY <3>1, <4>1, <4>2, <4>3
      <3> HIDE DEF r, E, F, G
      <3>3. /\ x[s] \in Int /\ x[s + n] \in Int /\ y[r] \in Int /\ y[r + n] \in Int
            /\ u[s] \in Int /\ v[r] \in Int
        BY <2>1, <3>1
      <3>4. Same(u[s], x[s] + Mul(z, x[s + n])) /\ Same(v[r], y[r] + Mul(z, y[r + n]))
        BY <3>1
      <3>5. Same(Mul(z, Mul(u[s], v[r])),
                 (Mul(zz, Mul(x[s], y[r + n])) + Mul(zz, Mul(x[s + n], y[r])))
                   + Mul(z, Mul(x[s], y[r]) + Mul(zz, Mul(x[s + n], y[r + n]))))
        BY <3>3, <3>4, SumsMultiply
      <3> DEFINE p == Mul(u[s], v[r])
                 a == Mul(g, p)
                 b == Mul(z, p)
                 c == (F[s] + F[s + n]) + Mul(z, G[s] + G[s + n])
      <3>6. p \in Int /\ Same(g, z) /\ Same(b, c)
        BY <3>1, <3>2, <3>3, <3>5, MulFacts
      <3>7. c \in Int
        <4> DEFINE k == G[s]
                   l == G[s + n]
                   m == F[s]
                   o == F[s + n]
        <4>1. k \in Int /\ l \in Int /\ m \in Int /\ o \in Int
          BY <2>2
        <4> HIDE DEF k, l, m, o, p
        <4>2. Mul(z, k + l) \in Int
          <5>1. k + l \in Int
            BY <4>1
          <5> QED BY <5>1, MulFacts
        <4>3. (m + o) + Mul(z, k + l) \in Int
          BY <4>1, <4>2
        <4> QED BY <4>3 DEF k, l, m, o
      <3> HIDE DEF p, c
      <3>8. a \in Int /\ b \in Int /\ Same(a, b)
        BY <3>6, MulFacts, SameBasics, SameMul
      <3>9. Same(a, c)
        <4> HIDE DEF a, b
        <4> QED BY <3>6, <3>7, <3>8, SameBasics
      <3> QED BY <2>2, <3>2, <3>9 DEF p, c
    <2> QED BY <2>3, <2>4
  <1> HIDE DEF E, F, G, FF, GG
  <1>5. /\ IsInt(F, n) /\ IsInt(FF, n) /\ IsInt(G, n) /\ IsInt(GG, n) /\ IsInt(H, n) /\ IsInt(I, n)
    <2>1. IsInt(F, n) /\ IsInt(FF, n) /\ IsInt(G, n) /\ IsInt(GG, n)
      BY <1>4 DEF IsInt
    <2>2. \A s \in 0 .. n - 1 : F[s] + FF[s] \in Int /\ G[s] + GG[s] \in Int
      <3>1. \A s \in 0 .. n - 1 : F[s] \in Int /\ FF[s] \in Int /\ G[s] \in Int /\ GG[s] \in Int
        BY <2>1 DEF IsInt
      <3>2. \A a, b \in Int : a + b \in Int
        OBVIOUS
      <3> QED BY <3>1, <3>2, Zenon
    <2>3. \A s \in 0 .. n - 1 : H[s] \in Int /\ I[s] \in Int
      BY <2>2
    <2> HIDE DEF H, I
    <2> QED BY <2>1, <2>3 DEF IsInt
  <1>6. IsInt(J, n)
    <2>1. \A s \in 0 .. n - 1 : I[s] \in Int
      BY <1>5 DEF IsInt
    <2> HIDE DEF I
    <2>2. \A s \in 0 .. n - 1 : Mul(z, I[s]) \in Int
      BY <2>1, MulFacts
    <2> QED BY <2>2 DEF IsInt
  <1>7. IsInt(M, n)
    <2>1. \A s \in 0 .. n - 1 : H[s] \in Int /\ J[s] \in Int
      BY <1>5, <1>6 DEF IsInt
    <2> HIDE DEF H, J
    <2>2. \A s \in 0 .. n - 1 : M[s] \in Int
      <3>1. \A s \in 0 .. n - 1 : M[s] = H[s] + J[s]
        OBVIOUS
      <3>2. \A a, b \in Int : a + b \in Int
        OBVIOUS
      <3> HIDE DEF M
      <3> QED BY <2>1, <3>1, <3>2, Zenon
    <2> HIDE DEF M
    <2> QED BY <2>2 DEF IsInt
  <1>8. \A s \in 0 .. n - 1 : Same(E[s], M[s])
    <2> SUFFICES ASSUME NEW s \in 0 .. n - 1 PROVE Same(E[s], M[s])
      OBVIOUS
    <2>1. I[s] = G[s] + GG[s] /\ H[s] = F[s] + FF[s]
      OBVIOUS
    <2>2. J[s] = Mul(z, I[s])
      <3> HIDE DEF I
      <3> QED OBVIOUS
    <2>3. M[s] = H[s] + J[s]
      <3> HIDE DEF H, J
      <3> QED OBVIOUS
    <2>4. Same(E[s], (F[s] + FF[s]) + Mul(z, G[s] + GG[s]))
      BY <1>4
    <2> HIDE DEF H, I, J, M
    <2> QED BY <2>1, <2>2, <2>3, <2>4
  <1>9. /\ \A s \in 0 .. n - 1 : H[s] = F[s] + FF[s] /\ I[s] = G[s] + GG[s] /\ J[s] = Mul(z, I[s])
        /\ \A s \in 0 .. n - 1 : M[s] = H[s] + J[s]
        /\ \A s \in 0 .. n - 1 : FF[s] = F[s + n] /\ GG[s] = G[s + n]
    BY DEF FF, GG
  <1> HIDE DEF H, I, J, M
  <1>10. Same(SumOf(E, n), SumOf(M, n))
    BY <1>2, <1>7, <1>8, SumSame
  <1>11. SumOf(M, n) = SumOf(H, n) + SumOf(J, n)
    BY <1>5, <1>6, <1>7, <1>9, SumAdd
  <1>12. SumOf(J, n) = Mul(z, SumOf(I, n))
    BY <1>5, <1>6, <1>9, SumScale
  <1>13. SumOf(H, n) = SumOf(F, n) + SumOf(FF, n) /\ SumOf(I, n) = SumOf(G, n) + SumOf(GG, n)
    BY <1>5, <1>9, SumAdd
  <1>14. SumOf(F, 2 * n) = SumOf(F, n) + SumOf(FF, n) /\ SumOf(G, 2 * n) = SumOf(G, n) + SumOf(GG, n)
    <2>1. IsInt(F, n + n) /\ IsInt(G, n + n)
      BY <1>1, <1>2
    <2>2. SumOf(F, n + n) = SumOf(F, n) + SumOf(FF, n)
      BY <2>1, <1>9, SumSplit
    <2>3. SumOf(G, n + n) = SumOf(G, n) + SumOf(GG, n)
      BY <2>1, <1>9, SumSplit
    <2> QED BY <1>1, <2>2, <2>3
  <1>15. Same(SumOf(E, n), SumOf(F, 2 * n) + Mul(z, SumOf(G, 2 * n)))
    BY <1>10, <1>11, <1>12, <1>13, <1>14
  <1> QED BY <1>15 DEF Convolved, E, F, G

-----------------------------------------------------------------------------
(* The products of the blocks of a level.                                  *)

Piece(a, i, k) == [s \in 0 .. Length[i] - 1 |-> a[At(i, k, s)]]

(* The products of the blocks before layer i + 1.                          *)
Level(a, b, i) ==
    [j \in Coefficients |->
        Convolved(Piece(Forward(a, i), i, j \div Length[i]),
                  Piece(Forward(b, i), i, j \div Length[i]),
                  Length[i], Turn(i, j \div Length[i]), j % Length[i])]

(* A block of an array.                                                    *)
LEMMA PieceIs ==
    ASSUME NEW a \in Arrays, NEW i \in 0 .. Layers, NEW k \in 0 .. Wide(i) - 1
    PROVE  /\ Piece(a, i, k) \in [0 .. Length[i] - 1 -> Int]
           /\ \A s \in 0 .. Length[i] - 1 : Piece(a, i, k)[s] = a[At(i, k, s)]
  <1>1. \A s \in 0 .. Length[i] - 1 : a[At(i, k, s)] \in Int
    BY AtIs DEF Arrays
  <1> QED BY <1>1 DEF Piece

(* The products of a level, block by block.                                *)
LEMMA LevelIs ==
    ASSUME NEW a \in Arrays, NEW b \in Arrays, NEW i \in 0 .. Layers
    PROVE  /\ \A k \in 0 .. Wide(i) - 1 : \A t \in 0 .. Length[i] - 1 :
                  Level(a, b, i)[At(i, k, t)] =
                      Convolved(Piece(Forward(a, i), i, k), Piece(Forward(b, i), i, k),
                                Length[i], Turn(i, k), t)
           /\ \A j \in Coefficients : Level(a, b, i)[j] \in Int
  <1> DEFINE n == Length[i]
  <1>1. n \in Nat /\ n > 0
    BY LayersIs
  <1>2. ASSUME NEW k \in 0 .. Wide(i) - 1, NEW t \in 0 .. n - 1
        PROVE  /\ Level(a, b, i)[At(i, k, t)] =
                      Convolved(Piece(Forward(a, i), i, k), Piece(Forward(b, i), i, k),
                                n, Turn(i, k), t)
               /\ Level(a, b, i)[At(i, k, t)] \in Int
    <2>1. At(i, k, t) \in Coefficients /\ At(i, k, t) \div n = k /\ At(i, k, t) % n = t
      BY AtIs
    <2> DEFINE j == At(i, k, t)
    <2>2. Level(a, b, i)[j] =
              Convolved(Piece(Forward(a, i), i, k), Piece(Forward(b, i), i, k),
                        n, Turn(i, k), t)
      <3> HIDE DEF j
      <3> QED BY <2>1 DEF Level, j
    <2>3. Turn(i, k) \in Int
      <3>1. Wide(i) \in Nat
        BY WideIs
      <3>2. Heap(i, k) \in Nat
        BY <3>1 DEF Heap
      <3>3. Root(Heap(i, k)) \in Int
        BY <3>2, RootInt
      <3> QED BY <3>3, MulFacts DEF Turn
    <2>4. Forward(a, i) \in Arrays /\ Forward(b, i) \in Arrays
      BY ForwardUnfold
    <2>5. /\ Piece(Forward(a, i), i, k) \in [0 .. n - 1 -> Int]
          /\ Piece(Forward(b, i), i, k) \in [0 .. n - 1 -> Int]
      BY <2>4, PieceIs
    <2> HIDE DEF n, j
    <2>6. Convolved(Piece(Forward(a, i), i, k), Piece(Forward(b, i), i, k),
                    n, Turn(i, k), t) \in Int
      BY <1>1, <2>3, <2>5, TermsInt
    <2> QED BY <2>2, <2>6 DEF j
  <1>3. ASSUME NEW j \in Coefficients PROVE Level(a, b, i)[j] \in Int
    <2>1. PICK k \in 0 .. Wide(i) - 1 : \E t \in 0 .. Length[i] - 1 : j = At(i, k, t)
      BY EachAt
    <2>2. PICK t \in 0 .. Length[i] - 1 : j = At(i, k, t)
      BY <2>1
    <2> QED BY <2>2, <1>2
  <1> QED BY <1>2, <1>3

(* A layer on a piece.                                                     *)
LEMMA LayerOnPiece ==
    ASSUME NEW a \in Arrays, NEW i \in 0 .. Layers - 1, NEW k \in 0 .. Wide(i) - 1,
           NEW s \in 0 .. Length[i + 1] - 1
    PROVE  LET x == Piece(Forward(a, i), i, k)
               n == Length[i + 1]
               r == Root(Heap(i, k))
               y == Forward(a, i + 1)
           IN  /\ Same(Piece(y, i + 1, 2 * k)[s], x[s] + Mul(r, x[s + n]))
               /\ Same(Piece(y, i + 1, 2 * k + 1)[s], x[s] + Mul(-r, x[s + n]))
  <1> DEFINE f  == Forward(a, i)
             y  == Forward(a, i + 1)
             x  == Piece(f, i, k)
             n  == Length[i + 1]
             r  == Root(Heap(i, k))
             lo == At(i, k, s)
             hi == High(i, k, s)
             p  == Piece(y, i + 1, 2 * k)
             o  == Piece(y, i + 1, 2 * k + 1)
             m  == montgomery_reduce(zetas(Heap(i, k)) * f[hi])
  <1>0. Layers \in Nat
    BY LayersIs, DegreeFacts
  <1>1. i \in 0 .. Layers /\ i + 1 \in 0 .. Layers
    BY <1>0
  <1>2. f \in Arrays /\ y \in Arrays /\ y = ForwardLayer(f, n)
    BY <1>1, ForwardUnfold
  <1>3. IsPair(i, k, s)
    BY DEF IsPair
  <1>4. n \in Nat /\ Length[i] = 2 * n
    BY <1>1, LayersIs
  <1>5. s \in 0 .. Length[i] - 1 /\ s + n \in 0 .. Length[i] - 1
    <2> HIDE DEF n
    <2> QED BY <1>4 DEF n
  <1>6. x[s] = f[lo] /\ x[s + n] = f[hi]
    <2>1. x[s] = f[lo] /\ x[s + n] = f[At(i, k, s + n)]
      BY <1>1, <1>2, <1>5, PieceIs
    <2>2. At(i, k, s + n) = hi
      <3>1. k \in Int /\ s \in Int /\ n \in Int /\ Length[i] \in Int
        BY <1>1, <1>4, WideIs
      <3>2. Mul(k, Length[i]) \in Int
        BY <3>1, MulFacts
      <3> QED BY <3>1, <3>2 DEF At, High
    <2> QED BY <2>1, <2>2
  <1>7. p[s] = y[lo] /\ o[s] = y[hi]
    <2>1. /\ 2 * k \in 0 .. Wide(i + 1) - 1 /\ 2 * k + 1 \in 0 .. Wide(i + 1) - 1
          /\ At(i + 1, 2 * k, s) = lo /\ At(i + 1, 2 * k + 1, s) = hi
      BY <1>3, Halves
    <2> HIDE DEF lo, hi, y
    <2> QED BY <1>1, <1>2, <2>1, PieceIs
  <1>8. /\ f[lo] \in Int /\ f[hi] \in Int /\ m \in Int /\ y[lo] = f[lo] + m /\ y[hi] = f[lo] - m
    BY <1>2, <1>3, ForwardLayerIs
  <1>9. r \in Int /\ Same(m, Mul(r, f[hi])) /\ Mul(r, f[hi]) \in Int /\ Mul(-r, f[hi]) = -Mul(r, f[hi])
    <2>1. Heap(i, k) \in Nat
      BY HeapIs
    <2>2. r \in Int
      BY <2>1, RootInt
    <2>3. Same(m, Mul(r, f[hi]))
      BY <2>1, <1>8, TwiddleIs
    <2> DEFINE v == f[hi]
    <2>4. v \in Int
      BY <1>8
    <2> HIDE DEF v, r
    <2>5. Mul(r, v) \in Int /\ Mul(-r, v) = -Mul(r, v)
      BY <2>2, <2>4, MulFacts, MulMore
    <2> QED BY <2>2, <2>3, <2>5 DEF v
  <1> DEFINE u == f[lo]
             w == Mul(r, f[hi])
             ww == Mul(-r, f[hi])
  <1>10. u \in Int /\ w \in Int /\ m \in Int /\ Same(m, w) /\ Same(u, u) /\ ww = -w
    BY <1>8, <1>9, SameBasics
  <1>11. p[s] = u + m /\ o[s] = u - m /\ x[s] = u
    BY <1>6, <1>7, <1>8
  <1>12. x[s] + Mul(r, x[s + n]) = u + w /\ x[s] + Mul(-r, x[s + n]) = u + ww
    BY <1>6
  <1> HIDE DEF u, w, m, p, o, x, r, n, ww
  <1>13. Same(u + m, u + w) /\ Same(u - m, u - w)
    BY <1>10, SameAdd
  <1>14. u + ww = u - w
    BY <1>10
  <1> QED BY <1>11, <1>12, <1>13, <1>14 DEF p, o, x, r, n

(* The products of a level from those of the level before.                 *)
LEMMA LevelStep ==
    ASSUME NEW a \in Arrays, NEW b \in Arrays, NEW i, NEW k, NEW t, IsPair(i, k, t)
    PROVE  LET lo == At(i, k, t)
               hi == High(i, k, t)
               c  == Level(a, b, i)
               d  == Level(a, b, i + 1)
               r  == Root(Heap(i, k))
           IN  /\ Same(d[lo], c[lo] + Mul(r, c[hi])) /\ Same(d[hi], c[lo] - Mul(r, c[hi]))
               /\ c[lo] \in Int /\ c[hi] \in Int /\ d[lo] \in Int /\ d[hi] \in Int /\ r \in Int
  <1> DEFINE lo == At(i, k, t)
             hi == High(i, k, t)
             c  == Level(a, b, i)
             d  == Level(a, b, i + 1)
             r  == Root(Heap(i, k))
             n  == Length[i + 1]
             x  == Piece(Forward(a, i), i, k)
             y  == Piece(Forward(b, i), i, k)
             u  == Piece(Forward(a, i + 1), i + 1, 2 * k)
             v  == Piece(Forward(b, i + 1), i + 1, 2 * k)
             uu == Piece(Forward(a, i + 1), i + 1, 2 * k + 1)
             vv == Piece(Forward(b, i + 1), i + 1, 2 * k + 1)
             zz == Turn(i, k)
             g  == Turn(i + 1, 2 * k)
             gg == Turn(i + 1, 2 * k + 1)
             cl == Convolved(x, y, 2 * n, zz, t)
             ch == Convolved(x, y, 2 * n, zz, t + n)
  <1>0. Layers \in Nat
    BY LayersIs, DegreeFacts
  <1>1. /\ i \in 0 .. Layers - 1 /\ i \in 0 .. Layers /\ i + 1 \in 0 .. Layers
        /\ k \in 0 .. Wide(i) - 1 /\ t \in 0 .. n - 1
    BY <1>0 DEF IsPair
  <1>2. n \in Nat /\ n > 0 /\ Length[i] = 2 * n
    BY <1>1, LayersIs
  <1>3. /\ 2 * k \in 0 .. Wide(i + 1) - 1 /\ 2 * k + 1 \in 0 .. Wide(i + 1) - 1
        /\ At(i + 1, 2 * k, t) = lo /\ At(i + 1, 2 * k + 1, t) = hi
    BY Halves
  <1>4. lo \in Coefficients /\ hi \in Coefficients
    BY PairIs
  <1>5. c[lo] \in Int /\ c[hi] \in Int /\ d[lo] \in Int /\ d[hi] \in Int
    BY <1>1, <1>4, LevelIs
  <1>6. hi = At(i, k, t + n) /\ t \in 0 .. Length[i] - 1 /\ t + n \in 0 .. Length[i] - 1
    <2>1. k \in Int /\ t \in Int /\ n \in Int /\ Length[i] \in Int
      BY <1>1, <1>2, WideIs
    <2>2. Mul(k, Length[i]) \in Int
      BY <2>1, MulFacts
    <2>3. hi = At(i, k, t + n)
      BY <2>1, <2>2 DEF At, High
    <2>4. t \in 0 .. Length[i] - 1 /\ t + n \in 0 .. Length[i] - 1
      <3> HIDE DEF n
      <3> QED BY <1>1, <1>2
    <2> QED BY <2>3, <2>4
  <1>7. c[lo] = cl /\ c[hi] = ch
    <2>1. /\ c[lo] = Convolved(x, y, Length[i], zz, t)
          /\ c[At(i, k, t + n)] = Convolved(x, y, Length[i], zz, t + n)
      <3> HIDE DEF x, y, zz, n
      <3> QED BY <1>1, <1>6, LevelIs DEF x, y, zz
    <2> QED BY <2>1, <1>2, <1>6
  <1>8. d[lo] = Convolved(u, v, n, g, t) /\ d[hi] = Convolved(uu, vv, n, gg, t)
    <2>1. d[At(i + 1, 2 * k, t)] = Convolved(u, v, n, g, t)
      BY <1>1, <1>3, LevelIs
    <2>2. d[At(i + 1, 2 * k + 1, t)] = Convolved(uu, vv, n, gg, t)
      BY <1>1, <1>3, LevelIs
    <2> QED BY <2>1, <2>2, <1>3
  <1>9. /\ r \in Int /\ zz \in Int /\ zz = Mul(r, r)
        /\ n > 1 => Same(g, r) /\ Same(gg, -r)
    <2>1. r \in Int /\ zz \in Int
      BY <1>1, RootsAre
    <2>2. zz = Mul(r, r)
      BY DEF Turn
    <2>3. ASSUME n > 1 PROVE Same(g, r) /\ Same(gg, -r)
      <3>1. Length[Layers] = 1
        BY LayersIs
      <3>2. i + 1 # Layers
        BY <2>3, <3>1
      <3>3. i + 1 < Layers
        BY <1>0, <1>1, <3>2
      <3> QED BY <1>1, <3>3, RootsAre
    <2> QED BY <2>1, <2>2, <2>3
  <1>10. g \in Int /\ gg \in Int
    <2>1. Wide(i + 1) \in Nat
      BY <1>1, WideIs
    <2>2. Heap(i + 1, 2 * k) \in Nat /\ Heap(i + 1, 2 * k + 1) \in Nat
      BY <2>1, <1>3 DEF Heap
    <2>3. Root(Heap(i + 1, 2 * k)) \in Int /\ Root(Heap(i + 1, 2 * k + 1)) \in Int
      BY <2>2, RootInt
    <2> QED BY <2>3, MulFacts DEF Turn
  <1>11. /\ x \in [0 .. 2 * n - 1 -> Int] /\ y \in [0 .. 2 * n - 1 -> Int]
    <2>1. Forward(a, i) \in Arrays /\ Forward(b, i) \in Arrays
      BY <1>1, ForwardUnfold
    <2> QED BY <1>1, <1>2, <2>1, PieceIs
  <1>12. /\ u \in [0 .. n - 1 -> Int] /\ v \in [0 .. n - 1 -> Int]
         /\ uu \in [0 .. n - 1 -> Int] /\ vv \in [0 .. n - 1 -> Int]
    <2>1. Forward(a, i + 1) \in Arrays /\ Forward(b, i + 1) \in Arrays
      BY <1>1, ForwardUnfold
    <2> QED BY <1>1, <1>3, <2>1, PieceIs
  <1>13. \A s \in 0 .. n - 1 :
             /\ Same(u[s], x[s] + Mul(r, x[s + n])) /\ Same(v[s], y[s] + Mul(r, y[s + n]))
             /\ Same(uu[s], x[s] + Mul(-r, x[s + n])) /\ Same(vv[s], y[s] + Mul(-r, y[s + n]))
    BY <1>1, LayerOnPiece
  <1> HIDE DEF n, x, y, u, v, uu, vv, zz, g, gg, r
  <1>14. Same(Convolved(u, v, n, g, t), cl + Mul(r, ch))
    <2>1. Same(zz, Mul(r, r))
      BY <1>9, SameBasics
    <2> QED BY <1>1, <1>2, <1>9, <1>10, <1>11, <1>12, <1>13, <2>1, LayerMultiplies
  <1>15. Same(Convolved(uu, vv, n, gg, t), cl + Mul(-r, ch))
    <2> DEFINE z == -r
    <2>1. z \in Int /\ Mul(z, z) = Mul(r, r)
      <3>1. \A o \in Int : -o \in Int /\ Mul(-o, -o) = Mul(o, o)
        BY SMT DEF Mul
      <3> QED BY <1>9, <3>1
    <2>2. Same(zz, Mul(z, z)) /\ (n > 1 => Same(gg, z))
      BY <1>9, <2>1, SameBasics
    <2>3. \A s \in 0 .. n - 1 : /\ Same(uu[s], x[s] + Mul(z, x[s + n]))
                                /\ Same(vv[s], y[s] + Mul(z, y[s + n]))
      BY <1>13
    <2> HIDE DEF z
    <2>4. Same(Convolved(uu, vv, n, gg, t), cl + Mul(z, ch))
      BY <1>1, <1>2, <1>9, <1>10, <1>11, <1>12, <2>1, <2>2, <2>3, LayerMultiplies
    <2> QED BY <2>4 DEF z
  <1>16. Mul(-r, ch) = -Mul(r, ch) /\ Mul(r, ch) \in Int /\ cl \in Int /\ ch \in Int
    <2>1. cl \in Int /\ ch \in Int
      BY <1>5, <1>7
    <2> HIDE DEF cl, ch
    <2> QED BY <1>9, <2>1, MulFacts, MulMore
  <1> HIDE DEF cl, ch, c, d, lo, hi
  <1>17. cl + Mul(-r, ch) = cl - Mul(r, ch)
    BY <1>16
  <1>18. Same(d[lo], c[lo] + Mul(r, c[hi])) /\ Same(d[hi], c[lo] - Mul(r, c[hi]))
    BY <1>7, <1>8, <1>14, <1>15, <1>17
  <1> QED BY <1>5, <1>9, <1>18 DEF c, d, lo, hi, r

-----------------------------------------------------------------------------
(* The first level and the last.                                           *)

(* The first level has one block, and its modulus is X^N + 1.              *)
LEMMA LevelZero ==
    ASSUME NEW a \in Arrays, NEW b \in Arrays, NEW j \in Coefficients
    PROVE  /\ Negacyclic(a, b, j) \in Int /\ Level(a, b, 0)[j] \in Int
           /\ Same(Level(a, b, 0)[j], Negacyclic(a, b, j))
  <1> DEFINE z == Turn(0, 0)
             x == Piece(a, 0, 0)
             y == Piece(b, 0, 0)
             E == Terms(x, y, Degree, z, j)
             F == [i \in Coefficients |-> IF i <= j THEN a[i] * b[j - i]
                                          ELSE -(a[i] * b[Degree + j - i])]
  <1>0. /\ Layers \in Nat /\ 0 \in 0 .. Layers /\ Degree \in Nat /\ Degree > 0
        /\ Length[0] = Degree /\ Wide(0) = 1 /\ 0 \in 0 .. Wide(0) - 1
    BY LayersIs, DegreeFacts, LengthIs, WideIs
  <1>1. j \in 0 .. Degree - 1 /\ Coefficients = 0 .. Degree - 1
    BY DEF Coefficients
  <1>2. \A s \in 0 .. Degree - 1 : At(0, 0, s) = s
    <2>1. Mul(0, Degree) = 0
      BY <1>0, MulMore
    <2> QED BY <1>0, <2>1 DEF At
  <1>3. Forward(a, 0) = a /\ Forward(b, 0) = b
    BY ForwardUnfold
  <1>4. /\ x \in [0 .. Degree - 1 -> Int] /\ y \in [0 .. Degree - 1 -> Int]
        /\ \A s \in 0 .. Degree - 1 : x[s] = a[s] /\ y[s] = b[s]
    <2>1. /\ x \in [0 .. Length[0] - 1 -> Int]
          /\ \A s \in 0 .. Length[0] - 1 : x[s] = a[At(0, 0, s)]
      BY <1>0, PieceIs
    <2>2. /\ y \in [0 .. Length[0] - 1 -> Int]
          /\ \A s \in 0 .. Length[0] - 1 : y[s] = b[At(0, 0, s)]
      BY <1>0, PieceIs
    <2> HIDE DEF x, y
    <2> QED BY <1>0, <1>2, <2>1, <2>2
  <1>5. Level(a, b, 0)[j] = Convolved(x, y, Degree, z, j) /\ Level(a, b, 0)[j] \in Int
    <2>1. Level(a, b, 0)[At(0, 0, j)] =
             Convolved(Piece(Forward(a, 0), 0, 0), Piece(Forward(b, 0), 0, 0), Length[0], z, j)
      BY <1>0, <1>1, LevelIs
    <2>2. Level(a, b, 0)[j] \in Int
      BY <1>0, LevelIs
    <2> QED BY <1>0, <1>1, <1>2, <1>3, <2>1, <2>2
  <1>6. z \in Int
    <2>1. Heap(0, 0) \in Nat
      BY <1>0 DEF Heap
    <2>2. Root(Heap(0, 0)) \in Int
      BY <2>1, RootInt
    <2> QED BY <2>2, MulFacts DEF Turn
  <1>7. Degree > 1 => Same(z, -1)
    <2> SUFFICES ASSUME Degree > 1 PROVE Same(z, -1)
      OBVIOUS
    <2>1. Length[Layers] = 1
      BY LayersIs
    <2>2. Layers # 0
      BY <1>0, <2>1
    <2>3. 0 \in 0 .. Layers - 1
      BY <1>0, <2>2
    <2> QED BY <1>0, <2>3, RootsAre
  <1> HIDE DEF z, x, y
  <1>8. ASSUME NEW s \in 0 .. Degree - 1
        PROVE  E[s] \in Int /\ F[s] \in Int /\ Same(E[s], F[s])
    <2>1. s \in Coefficients /\ x[s] = a[s] /\ a[s] \in Int
      BY <1>1, <1>4 DEF Arrays
    <2>2. CASE s <= j
      <3> DEFINE r == j - s
      <3>1. r \in 0 .. Degree - 1 /\ r \in Coefficients
        <4>1. \A m \in Nat : \A k \in 0 .. m - 1 : \A l \in 0 .. m - 1 :
                 l <= k => k - l \in 0 .. m - 1
          BY SMT
        <4> HIDE DEF E, F
        <4> QED BY <1>0, <1>1, <2>2, <4>1
      <3>2. y[r] = b[r] /\ b[r] \in Int
        BY <1>4, <3>1 DEF Arrays
      <3>3. E[s] = Mul(x[s], y[r])
        BY <2>2 DEF Terms
      <3>4. F[s] = Mul(a[s], b[r])
        BY <2>1, <2>2 DEF Mul
      <3> HIDE DEF r, E, F
      <3>5. Mul(a[s], b[r]) \in Int
        BY <2>1, <3>2, MulFacts
      <3>6. E[s] = F[s] /\ F[s] \in Int
        BY <2>1, <3>2, <3>3, <3>4, <3>5
      <3> QED BY <3>6, SameBasics
    <2>3. CASE ~(s <= j)
      <3> DEFINE r == Degree + j - s
      <3>1. r \in 0 .. Degree - 1 /\ r \in Coefficients /\ Degree > 1
        <4>1. \A m \in Nat : \A k \in 0 .. m - 1 : \A l \in 0 .. m - 1 :
                 ~(l <= k) => m + k - l \in 0 .. m - 1 /\ m > 1
          BY SMT
        <4> HIDE DEF E, F
        <4> QED BY <1>0, <1>1, <2>3, <4>1
      <3>2. y[r] = b[r] /\ b[r] \in Int
        BY <1>4, <3>1 DEF Arrays
      <3>3. E[s] = Mul(z, Mul(x[s], y[r]))
        <4>1. E[s] = Mul(z, Mul(x[s], y[(Degree + j) - s]))
          BY <2>3 DEF Terms
        <4>2. (Degree + j) - s = r
          BY <1>0, <1>1
        <4> HIDE DEF E, F, r
        <4> QED BY <4>1, <4>2, Zenon
      <3>4. F[s] = -Mul(a[s], b[r])
        <4>1. F[s] = -(a[s] * b[r])
          BY <2>1, <2>3
        <4> HIDE DEF E, F, r
        <4> QED BY <4>1 DEF Mul
      <3> DEFINE p == Mul(a[s], b[r])
      <3> HIDE DEF r, E, F
      <3>5. p \in Int /\ E[s] = Mul(z, p) /\ F[s] = -p
        BY <2>1, <3>2, <3>3, <3>4, MulFacts
      <3> HIDE DEF p
      <3>6. Mul(z, p) \in Int /\ Same(Mul(z, p), Mul(-1, p)) /\ Mul(-1, p) = -p /\ -p \in Int
        <4>1. Same(z, -1) /\ Same(p, p) /\ -1 \in Int
          BY <1>7, <3>1, <3>5, SameBasics
        <4>2. \A k \in Int : Mul(-1, k) = -k
          BY DEF Mul
        <4>3. Mul(z, p) \in Int
          BY <1>6, <3>5, MulFacts
        <4>4. Same(Mul(z, p), Mul(-1, p))
          BY <1>6, <3>5, <4>1, SameMul
        <4> QED BY <3>5, <4>2, <4>3, <4>4
      <3> QED BY <3>5, <3>6
    <2> QED BY <1>1, <2>2, <2>3
  <1> HIDE DEF E, F
  <1>9. IsInt(E, Degree) /\ IsInt(F, Degree)
    BY <1>8 DEF IsInt
  <1>10. Same(SumOf(E, Degree), SumOf(F, Degree)) /\ SumOf(F, Degree) \in Int
    BY <1>0, <1>8, <1>9, SumSame, SumInt
  <1>11. Negacyclic(a, b, j) = SumOf(F, Degree)
    BY DEF Negacyclic, F
  <1> QED BY <1>5, <1>10, <1>11 DEF Convolved, E

(* The last level has blocks of one coefficient.                           *)
LEMMA LevelLast ==
    ASSUME NEW a \in Arrays, NEW b \in Arrays, NEW j \in Coefficients
    PROVE  Level(a, b, Layers)[j] = Mul(Forward(a, Layers)[j], Forward(b, Layers)[j])
  <1> DEFINE z == Turn(Layers, j)
             x == Piece(Forward(a, Layers), Layers, j)
             y == Piece(Forward(b, Layers), Layers, j)
             E == Terms(x, y, 1, z, 0)
  <1>0. /\ Layers \in Nat /\ Layers \in 0 .. Layers /\ Degree \in Nat
        /\ Length[Layers] = 1 /\ Wide(Layers) = Degree
    BY LayersIs, DegreeFacts, WideIs
  <1>1. j \in 0 .. Wide(Layers) - 1 /\ j \in Int /\ 0 \in 0 .. Length[Layers] - 1 /\ 0 \in 0 .. 0
    BY <1>0 DEF Coefficients
  <1>2. At(Layers, j, 0) = j
    <2>1. Mul(j, 1) = j
      BY <1>1, MulMore
    <2> QED BY <1>0, <1>1, <2>1 DEF At
  <1>3. Forward(a, Layers) \in Arrays /\ Forward(b, Layers) \in Arrays
    BY <1>0, ForwardUnfold
  <1>4. x[0] = Forward(a, Layers)[j] /\ y[0] = Forward(b, Layers)[j]
    BY <1>0, <1>1, <1>2, <1>3, PieceIs
  <1>5. Forward(a, Layers)[j] \in Int /\ Forward(b, Layers)[j] \in Int
    BY <1>3 DEF Arrays
  <1>6. Level(a, b, Layers)[j] = Convolved(x, y, 1, z, 0)
    <2>1. Level(a, b, Layers)[At(Layers, j, 0)] = Convolved(x, y, Length[Layers], z, 0)
      BY <1>0, <1>1, LevelIs
    <2> QED BY <1>0, <1>2, <2>1
  <1> HIDE DEF x, y, z
  <1>7. E[0] = Mul(x[0], y[0])
    <2>1. 0 \in 0 .. 1 - 1 /\ 0 - 0 = 0 /\ 0 <= 0
      OBVIOUS
    <2>2. \A f, g, w : Terms(f, g, 1, w, 0) =
             [i \in 0 .. 1 - 1 |-> IF i <= 0 THEN Mul(f[i], g[0 - i])
                                   ELSE Mul(w, Mul(f[i], g[(1 + 0) - i]))]
      BY DEF Terms
    <2>3. E = [i \in 0 .. 1 - 1 |-> IF i <= 0 THEN Mul(x[i], y[0 - i])
                                   ELSE Mul(z, Mul(x[i], y[(1 + 0) - i]))]
      BY <2>2
    <2> HIDE DEF E
    <2>4. E[0] = IF 0 <= 0 THEN Mul(x[0], y[0 - 0]) ELSE Mul(z, Mul(x[0], y[(1 + 0) - 0]))
      BY <2>1, <2>3
    <2>5. E[0] = Mul(x[0], y[0 - 0])
      BY <2>1, <2>4
    <2> QED BY <2>1, <2>5
  <1> HIDE DEF E
  <1>8. E[0] \in Int
    <2>1. x[0] \in Int /\ y[0] \in Int
      BY <1>4, <1>5, Zenon
    <2>2. Mul(x[0], y[0]) \in Int
      BY <2>1, MulFacts
    <2> QED BY <1>7, <2>2, Zenon
  <1>9. IsInt(E, 1)
    <2>1. \A i \in 0 .. 1 - 1 : i = 0
      OBVIOUS
    <2> QED BY <1>8, <2>1 DEF IsInt
  <1>10. SumOf(E, 1) = E[0]
    <2>1. Adds(E, 1)
      BY <1>9, SumUnfold
    <2>2. SumOf(E, 0) = 0 /\ \A i \in 0 .. 0 : SumOf(E, i + 1) = SumOf(E, i) + E[i]
      BY <2>1 DEF Adds
    <2>3. SumOf(E, 0 + 1) = SumOf(E, 0) + E[0] /\ 0 + 1 = 1
      BY <1>1, <2>2
    <2> QED BY <1>8, <2>2, <2>3
  <1> QED BY <1>4, <1>6, <1>7, <1>10 DEF Convolved, E

(* The sum and the difference of the two halves.                           *)
LEMMA HalvesBack ==
    ASSUME NEW l \in Int, NEW h \in Int, NEW c \in Int, NEW d \in Int,
           NEW x \in Int, NEW y \in Int, NEW g \in Int, NEW r \in Int, NEW m \in Int,
           Same(x, c + Mul(r, d)), Same(y, c - Mul(r, d)),
           Same(l, Mul(g, x)), Same(h, Mul(g, y)), Same(Mul(m, r), -1)
    PROVE  /\ Same(l + h, Mul(g + g, c))
           /\ Same(-Mul(m, l - h), Mul(g + g, d))
  <1> DEFINE u == c + Mul(r, d)
             v == c - Mul(r, d)
             gu == Mul(g, u)
             gv == Mul(g, v)
  <1>1. u \in Int /\ v \in Int /\ Same(x, u) /\ Same(y, v)
    <2>1. Mul(r, d) \in Int
      BY MulFacts
    <2> QED BY <2>1
  <1>2. gu + gv = Mul(g + g, c) /\ gu - gv = Mul(g + g, Mul(r, d))
    <2>1. \A o, e, p, n \in Int : /\ o * (e + (p * n)) + o * (e - (p * n)) = (o + o) * e
                                  /\ o * (e + (p * n)) - o * (e - (p * n)) = (o + o) * (p * n)
      BY SMT
    <2> QED BY <2>1 DEF Mul
  <1> HIDE DEF u, v
  <1>3. gu \in Int /\ gv \in Int /\ Same(l, gu) /\ Same(h, gv)
    <2>1. Mul(g, x) \in Int /\ Mul(g, y) \in Int /\ gu \in Int /\ gv \in Int
      BY <1>1, MulFacts
    <2>2. Same(Mul(g, x), gu) /\ Same(Mul(g, y), gv)
      BY <1>1, SameScale
    <2> HIDE DEF gu, gv
    <2> QED BY <2>1, <2>2, SameBasics
  <1> HIDE DEF gu, gv
  <1>4. Same(l + h, gu + gv) /\ Same(l - h, gu - gv)
    BY <1>3, SameAdd
  <1> DEFINE e == l - h
             f == gu - gv
             p == Mul(m, e)
             o == Mul(m, f)
             w == Mul(g + g, d)
             s == Mul(m, r)
  <1>5. e \in Int /\ f \in Int /\ Same(e, f)
    BY <1>3, <1>4
  <1>6. o = Mul(s, w)
    <2>1. \A k, i, j, n \in Int : k * (i * (j * n)) = (k * j) * (i * n)
      BY SMT
    <2>2. g + g \in Int
      OBVIOUS
    <2> QED BY <1>2, <2>1, <2>2 DEF Mul
  <1> HIDE DEF e, f
  <1>7. p \in Int /\ o \in Int /\ Same(p, o) /\ s \in Int
    BY <1>5, MulFacts, SameScale
  <1>8. w \in Int
    <2>1. g + g \in Int
      OBVIOUS
    <2> QED BY <2>1, MulFacts
  <1> HIDE DEF p, w, s
  <1>9. Same(o, -w)
    <2>1. Same(s, -1) /\ Same(w, w) /\ -1 \in Int
      BY <1>8, SameBasics DEF s
    <2>2. Same(Mul(s, w), Mul(-1, w))
      BY <1>7, <1>8, <2>1, SameMul
    <2>3. \A k \in Int : Mul(-1, k) = -k
      BY DEF Mul
    <2> QED BY <1>6, <1>8, <2>2, <2>3
  <1> HIDE DEF o
  <1>10. Same(0 - p, 0 - (-w))
    <2> DEFINE n == -w
    <2>1. n \in Int
      BY <1>8
    <2>2. Same(o, n)
      BY <1>9
    <2> HIDE DEF n
    <2>3. Same(p, n)
      BY <1>7, <2>1, <2>2, SameBasics
    <2>4. 0 \in Int /\ Same(0, 0)
      BY SameBasics
    <2>5. Same(0 - p, 0 - n)
      BY <1>7, <2>1, <2>3, <2>4, SameAdd
    <2> QED BY <2>5 DEF n
  <1>11. 0 - p = -p /\ 0 - (-w) = w
    BY <1>7, <1>8
  <1> QED BY <1>2, <1>4, <1>10, <1>11 DEF p, e, w

-----------------------------------------------------------------------------
(* The layers back.                                                        *)

(* A layer back turns twice the products of the halves into those of the   *)
(* block.                                                                  *)
LEMMA PairBack ==
    ASSUME NEW a \in Arrays, NEW b \in Arrays, NEW x \in Arrays, NEW g \in Int,
           NEW i, NEW k, NEW t, IsPair(i, k, t),
           \A j \in Coefficients : Same(x[j], Mul(g, Level(a, b, i + 1)[j]))
    PROVE  LET y  == InverseLayer(x, Length[i + 1])
               lo == At(i, k, t)
               hi == High(i, k, t)
           IN  /\ Same(y[lo], Mul(g + g, Level(a, b, i)[lo]))
               /\ Same(y[hi], Mul(g + g, Level(a, b, i)[hi]))
  <1> DEFINE y  == InverseLayer(x, Length[i + 1])
             lo == At(i, k, t)
             hi == High(i, k, t)
             C  == Level(a, b, i)
             D  == Level(a, b, i + 1)
             l  == x[lo]
             h  == x[hi]
             r  == Root(Heap(i, k))
             m  == Root(Mirror(i, k))
             z  == montgomery_reduce((-zetas(Mirror(i, k))) * (l - h))
             w  == -Mul(m, l - h)
  <1>1. i \in 0 .. Layers - 1 /\ k \in 0 .. Wide(i) - 1
    BY DEF IsPair
  <1>2. lo \in Coefficients /\ hi \in Coefficients
    BY PairIs
  <1>3. l \in Int /\ h \in Int /\ y[lo] = l + h /\ y[hi] = z
    <2>1. \A k1, t1 : IsPair(i, k1, t1) =>
             /\ x[At(i, k1, t1)] \in Int /\ x[High(i, k1, t1)] \in Int
             /\ y[At(i, k1, t1)] = x[At(i, k1, t1)] + x[High(i, k1, t1)]
             /\ y[High(i, k1, t1)] =
                  montgomery_reduce((-zetas(Mirror(i, k1)))
                                    * (x[At(i, k1, t1)] - x[High(i, k1, t1)]))
      <3> HIDE DEF lo, hi, C, D, l, h, r, m, z, w
      <3> QED BY <1>1, InverseLayerIs, SMTT(60)
    <2> HIDE DEF y
    <2> QED BY <2>1
  <1>4. Same(l, Mul(g, D[lo])) /\ Same(h, Mul(g, D[hi]))
    BY <1>2
  <1>5. /\ Same(D[lo], C[lo] + Mul(r, C[hi])) /\ Same(D[hi], C[lo] - Mul(r, C[hi]))
        /\ C[lo] \in Int /\ C[hi] \in Int /\ D[lo] \in Int /\ D[hi] \in Int /\ r \in Int
    BY LevelStep
  <1>6. m \in Int /\ Same(Mul(m, r), -1)
    BY <1>1, RootsAre
  <1>7. Same(z, w) /\ z \in Int
    <2>1. Mirror(i, k) \in Nat
      BY <1>1, HeapIs
    <2> DEFINE v == l - h
    <2>2. v \in Int
      BY <1>3
    <2> HIDE DEF v
    <2> QED BY <2>1, <2>2, TwiddleIs DEF v
  <1> HIDE DEF y, lo, hi, C, D, l, h, r, m, z
  <1>8. Same(l + h, Mul(g + g, C[lo])) /\ Same(w, Mul(g + g, C[hi]))
    BY <1>3, <1>4, <1>5, <1>6, HalvesBack
  <1>9. w \in Int /\ Mul(g + g, C[hi]) \in Int
    <2>1. g + g \in Int /\ l - h \in Int
      BY <1>3
    <2>2. Mul(m, l - h) \in Int /\ Mul(g + g, C[hi]) \in Int
      BY <2>1, <1>5, <1>6, MulFacts
    <2> QED BY <2>2
  <1> HIDE DEF w
  <1>10. Same(z, Mul(g + g, C[hi]))
    BY <1>7, <1>8, <1>9, SameBasics
  <1> QED BY <1>3, <1>8, <1>10 DEF y, lo, hi, C

(* From products of the deepest level, n layers back leave those of level  *)
(* Layers - n, scaled.                                                     *)
LEMMA BackwardLevels ==
    ASSUME NEW a \in Arrays, NEW b \in Arrays, NEW c \in Arrays,
           \A j \in Coefficients : Same(c[j], Mul(RInverse, Level(a, b, Layers)[j]))
    PROVE  \A j \in Coefficients :
               Same(Backward(c, Layers)[j], Mul(Mul(Degree, RInverse), Level(a, b, 0)[j]))
  <1> DEFINE G(n) == Mul(Wide(n), RInverse)
             Reached(n) == \A j \in Coefficients :
                 Same(Backward(c, n)[j], Mul(G(n), Level(a, b, Layers - n)[j]))
             T == {n \in Nat : n <= Layers => Reached(n)}
  <1>0. Layers \in Nat /\ Layers - 0 = Layers /\ Layers - Layers = 0 /\ RInverse \in Int
    BY LayersIs, DegreeFacts, RInverseIs
  <1>1. 0 \in T
    <2>1. G(0) = RInverse
      BY <1>0, WideIs, MulMore
    <2>2. Backward(c, 0) = c
      BY BackwardUnfold
    <2>3. Reached(0)
      BY <1>0, <2>1, <2>2
    <2> QED BY <2>3
  <1>2. ASSUME NEW n \in Nat, n \in T PROVE n + 1 \in T
    <2> SUFFICES ASSUME n + 1 <= Layers PROVE Reached(n + 1)
      OBVIOUS
    <2> DEFINE i == Layers - (n + 1)
               g == G(n)
               x == Backward(c, n)
               y == InverseLayer(x, Length[i + 1])
    <2>1. /\ i \in 0 .. Layers - 1 /\ i + 1 = Layers - n /\ n <= Layers
          /\ n \in 0 .. Layers /\ n \in 0 .. Layers - 1
      BY <1>0
    <2>2. x \in Arrays /\ Backward(c, n + 1) = y
      BY <2>1, BackwardUnfold
    <2>3. \A j \in Coefficients : Same(x[j], Mul(g, Level(a, b, i + 1)[j]))
      BY <1>2, <2>1
    <2>4. g \in Int /\ G(n + 1) = g + g
      <3> DEFINE w == Wide(n)
      <3>1. w \in Nat /\ Wide(n + 1) = 2 * w
        BY <2>1, WideIs
      <3> HIDE DEF w
      <3>2. w \in Int /\ 2 * w = w + w
        BY <3>1
      <3>3. Mul(w, RInverse) \in Int /\ Mul(w + w, RInverse) = Mul(w, RInverse) + Mul(w, RInverse)
        <4>1. \A k, j, l \in Int : Mul(k + j, l) = Mul(k, l) + Mul(j, l)
          BY MulMore
        <4> QED BY <1>0, <3>2, <4>1, MulFacts
      <3>4. Wide(n + 1) = w + w
        BY <3>1, <3>2, Zenon
      <3> QED BY <3>3, <3>4, Zenon DEF w
    <2> HIDE DEF g, x, y, i, T
    <2>5. ASSUME NEW j \in Coefficients
          PROVE  Same(y[j], Mul(g + g, Level(a, b, i)[j]))
      <3>1. PICK k, t : IsPair(i, k, t) /\ (j = At(i, k, t) \/ j = High(i, k, t))
        BY <2>1, EachPair
      <3>2. \A k1, t1 : IsPair(i, k1, t1) =>
               /\ Same(y[At(i, k1, t1)], Mul(g + g, Level(a, b, i)[At(i, k1, t1)]))
               /\ Same(y[High(i, k1, t1)], Mul(g + g, Level(a, b, i)[High(i, k1, t1)]))
        BY <2>2, <2>3, <2>4, PairBack DEF y
      <3> QED BY <3>1, <3>2
    <2> QED BY <2>2, <2>4, <2>5 DEF i
  <1> HIDE DEF T
  <1>3. Layers \in T
    BY <1>0, <1>1, <1>2, SetInduction
  <1>4. Reached(Layers)
    BY <1>0, <1>3 DEF T
  <1> QED BY <1>0, <1>4, WideIs

(* The literal f undoes the factors R and N.                               *)
LEMMA FactorCancels ==
    ASSUME NEW l \in Int, NEW x \in Int, Same(x, Mul(Mul(Degree, RInverse), l))
    PROVE  Same(Mul(RInverse, Mul(MontSquaredByN, x)), l)
  <1> DEFINE i == RInverse
             f == MontSquaredByN
             n == Degree
             u == Mul(Mul(n, i), l)
  <1>1. i \in Int /\ f \in Int /\ n \in Int /\ R \in Int /\ q \in Int
    BY RInverseIs, DegreeFacts, WordFacts
  <1>2. Same(Mul(f, n), Mul(R, R))
    <2> DEFINE v == Mul(f, n)
               w == Mul(R % q, R % q)
               s == R % q
    <2>1. v % q = w % q
      BY NttAssumption DEF Mul
    <2>2. s \in Int /\ Same(s, R)
      BY <1>1, SameRemainder
    <2> HIDE DEF s
    <2>3. v \in Int /\ Mul(R, R) \in Int /\ Mul(s, s) \in Int /\ Same(Mul(s, s), Mul(R, R))
      BY <1>1, <2>2, MulFacts, SameMul
    <2>4. w \in Int /\ Same(w, Mul(R, R))
      BY <2>3 DEF s
    <2> HIDE DEF v, w
    <2>5. Same(v % q, v) /\ Same(w % q, w) /\ v % q \in Int /\ w % q \in Int
      BY <2>3, <2>4, SameRemainder
    <2>6. Same(v, w)
      BY <2>1, <2>3, <2>4, <2>5, SameBasics
    <2>7. Same(v, Mul(R, R))
      BY <2>3, <2>4, <2>6, SameBasics
    <2> QED BY <2>7 DEF v
  <1> HIDE DEF i, f, n
  <1>3. u \in Int /\ Mul(f, x) \in Int /\ Mul(f, u) \in Int
        /\ Mul(i, Mul(f, x)) \in Int /\ Mul(i, Mul(f, u)) \in Int
    <2>1. Mul(n, i) \in Int
      BY <1>1, MulFacts
    <2>2. u \in Int
      BY <2>1, MulFacts
    <2> HIDE DEF u
    <2> QED BY <1>1, <2>2, MulFacts
  <1>4. Same(Mul(i, Mul(f, x)), Mul(i, Mul(f, u)))
    <2>1. Same(x, u)
      BY DEF i, n
    <2> HIDE DEF u
    <2> QED BY <1>1, <1>3, <2>1, SameScale
  <1> DEFINE e == Mul(i, Mul(f, u))
             o == Mul(Mul(i, i), l)
             p == Mul(f, n)
             s == Mul(R, R)
  <1>5. e = Mul(p, o)
    <2>1. \A i1, f1, n1, l1 \in Int :
             i1 * (f1 * ((n1 * i1) * l1)) = (f1 * n1) * ((i1 * i1) * l1)
      BY SMT
    <2> QED BY <1>1, <2>1 DEF Mul
  <1>6. p \in Int /\ s \in Int /\ o \in Int
    <2>1. Mul(i, i) \in Int
      BY <1>1, MulFacts
    <2> QED BY <1>1, <2>1, MulFacts
  <1>7. Mul(s, o) = Mul(i, Mul(R, Mul(i, Mul(R, l))))
    <2>1. \A i1, r1, l1 \in Int :
             (r1 * r1) * ((i1 * i1) * l1) = i1 * (r1 * (i1 * (r1 * l1)))
      BY SMT
    <2> HIDE DEF R
    <2> QED BY <1>1, <2>1 DEF Mul
  <1>8. Same(Mul(s, o), l) /\ Mul(s, o) \in Int
    <2> DEFINE k == Mul(i, Mul(R, l))
    <2>1. k \in Int /\ Same(k, l)
      BY RCancels DEF i
    <2> HIDE DEF k
    <2>2. Mul(i, Mul(R, k)) \in Int /\ Same(Mul(i, Mul(R, k)), k)
      BY <2>1, RCancels DEF i
    <2>3. Same(Mul(i, Mul(R, k)), l)
      BY <2>1, <2>2, SameBasics
    <2> QED BY <1>7, <2>2, <2>3 DEF k
  <1>9. Same(Mul(p, o), Mul(s, o)) /\ Mul(p, o) \in Int
    <2>1. Same(p, s)
      BY <1>2 DEF p, s, f, n
    <2> HIDE DEF p, s, o
    <2>2. Same(o, o)
      BY <1>6, SameBasics
    <2> QED BY <1>6, <2>1, <2>2, SameMul, MulFacts
  <1>10. e \in Int
    BY <1>3
  <1> HIDE DEF e, p, o, s
  <1>11. Same(e, l)
    BY <1>5, <1>8, <1>9, SameBasics
  <1>12. Mul(i, Mul(f, x)) \in Int /\ Same(Mul(i, Mul(f, x)), e)
    BY <1>3, <1>4 DEF e
  <1> DEFINE d == Mul(i, Mul(f, x))
  <1>13. d \in Int /\ Same(d, e)
    BY <1>12
  <1> HIDE DEF d
  <1>14. Same(d, l)
    BY <1>10, <1>11, <1>13, SameBasics
  <1> QED BY <1>14 DEF d, i, f

(* One product, for any two factors.                                       *)
LEMMA ProductIs ==
    ASSUME NEW a \in Factors, NEW b \in Factors
    PROVE  LET c == RingProduct(a, b)
           IN  /\ WithinWords(a, b) /\ Below(c, q)
               /\ \A j \in Coefficients : (c[j] - Negacyclic(a, b, j)) % q = 0
  <1> DEFINE u == Forward(a, Layers)
             v == Forward(b, Layers)
             c == pointwise_montgomery(u, v)
             x == Backward(c, Layers)
             d == invntt_tomont(c)
  <1>0. /\ Layers \in Nat /\ Layers \in 0 .. Layers /\ q \in Int /\ HalfR \in Int
        /\ Wide(Layers) = Degree
    BY LayersIs, DegreeFacts, WordFacts, WideIs
  <1>1. a \in Arrays /\ b \in Arrays /\ Below(a, q) /\ Below(b, q)
    BY FactorIs
  <1>2. RingProduct(a, b) = d /\ c = pointwise_montgomery(ntt(a), ntt(b))
    BY DEF RingProduct, ntt
  <1>3. u \in Arrays /\ v \in Arrays
    BY <1>0, <1>1, ForwardUnfold
  <1>4. /\ \A n \in 0 .. Layers : Below(Forward(a, n), Mul(n + 1, q))
        /\ \A n \in 0 .. Layers : Below(Forward(b, n), Mul(n + 1, q))
    BY <1>1, ForwardBound
  <1>5. c \in Arrays /\ Below(c, q)
    <2> HIDE DEF u, v
    <2>1. Below(u, Mul(Layers + 1, q)) /\ Below(v, Mul(Layers + 1, q))
      BY <1>0, <1>4 DEF u, v
    <2> QED BY <1>3, <2>1, PointwiseIs
  <1> HIDE DEF c
  <1>6. /\ \A n \in 0 .. Layers : Below(Backward(c, n), Mul(Wide(n), q))
        /\ \A n \in 0 .. Layers - 1 :
               Below(Differences(Backward(c, n), Length[Layers - n]), Mul(Wide(n + 1), q))
    BY <1>5, BackwardBound
  <1>7. WithinWords(a, b)
    <2>1. ASSUME NEW n \in 0 .. Layers
          PROVE  /\ Below(Forward(a, n), HalfR) /\ Below(Forward(b, n), HalfR)
                 /\ Below(Backward(c, n), HalfR)
      <3>1. Mul(n + 1, q) \in Int /\ Mul(n + 1, q) <= HalfR
        BY Room
      <3>2. Mul(Wide(n), q) \in Int /\ Mul(Wide(n), q) <= HalfR
        BY WideMost, Room
      <3>3. Forward(a, n) \in Arrays /\ Forward(b, n) \in Arrays /\ Backward(c, n) \in Arrays
        BY <1>1, <1>5, ForwardUnfold, BackwardUnfold
      <3>4. /\ Below(Forward(a, n), Mul(n + 1, q)) /\ Below(Forward(b, n), Mul(n + 1, q))
            /\ Below(Backward(c, n), Mul(Wide(n), q))
        BY <1>4, <1>6
      <3> QED BY <1>0, <3>1, <3>2, <3>3, <3>4, BelowLess
    <2>2. ASSUME NEW n \in 1 .. Layers
          PROVE  Below(Differences(Backward(c, n - 1), Length[Layers + 1 - n]), HalfR)
      <3> DEFINE m == n - 1
                 e == Differences(Backward(c, m), Length[Layers - m])
                 i == Layers - m - 1
      <3>1. /\ m \in 0 .. Layers - 1 /\ m \in 0 .. Layers /\ m + 1 \in 0 .. Layers
            /\ Layers + 1 - n = Layers - m
            /\ i \in 0 .. Layers - 1 /\ i + 1 = Layers - m
        BY <1>0
      <3>2. Below(e, Mul(Wide(m + 1), q))
        BY <1>6, <3>1
      <3>3. Mul(Wide(m + 1), q) \in Int /\ Mul(Wide(m + 1), q) <= HalfR
        BY <3>1, WideMost, Room
      <3> HIDE DEF m, i
      <3>4. Backward(c, m) \in Arrays
        BY <1>5, <3>1, BackwardUnfold
      <3>5. e \in Arrays
        <4> DEFINE y == Backward(c, m)
                   len == Length[Layers - m]
        <4>1. ASSUME NEW j \in Coefficients PROVE e[j] \in Int
          <5>1. PICK k, t : IsPair(i, k, t) /\ (j = At(i, k, t) \/ j = High(i, k, t))
            BY <3>1, EachPair
          <5>2. /\ y[At(i, k, t)] \in Int /\ y[High(i, k, t)] \in Int
                /\ e[At(i, k, t)] = y[At(i, k, t)] + y[High(i, k, t)]
                /\ e[High(i, k, t)] = y[At(i, k, t)] - y[High(i, k, t)]
            <6> DEFINE f == Differences(y, Length[i + 1])
            <6> HIDE DEF y
            <6>1. \A k1, t1 : IsPair(i, k1, t1) =>
                     /\ y[At(i, k1, t1)] \in Int /\ y[High(i, k1, t1)] \in Int
                     /\ f[At(i, k1, t1)] = y[At(i, k1, t1)] + y[High(i, k1, t1)]
                     /\ f[High(i, k1, t1)] = y[At(i, k1, t1)] - y[High(i, k1, t1)]
              BY <3>1, <3>4, InverseLayerIs, SMTT(60) DEF y
            <6>2. e = f
              BY <3>1 DEF y
            <6> HIDE DEF e, f
            <6> QED BY <5>1, <6>1, <6>2
          <5> HIDE DEF e, y
          <5>3. y[At(i, k, t)] + y[High(i, k, t)] \in Int /\ y[At(i, k, t)] - y[High(i, k, t)] \in Int
            BY <5>2
          <5> QED BY <5>1, <5>2, <5>3, Zenon
        <4>2. DOMAIN e = Coefficients /\ e = [j \in DOMAIN e |-> e[j]]
          BY DEF Differences
        <4> HIDE DEF e
        <4> QED BY <4>1, <4>2 DEF Arrays
      <3> HIDE DEF e
      <3>6. Below(e, HalfR)
        BY <1>0, <3>2, <3>3, <3>5, BelowLess
      <3> QED BY <3>1, <3>6 DEF e, m
    <2> QED BY <1>2, <2>1, <2>2 DEF WithinWords
  <1>8. ASSUME NEW j \in Coefficients
        PROVE  Same(c[j], Mul(RInverse, Level(a, b, Layers)[j]))
    <2>1. Level(a, b, Layers)[j] = Mul(u[j], v[j])
      BY <1>1, LevelLast
    <2>2. Same(c[j], Mul(RInverse, Mul(u[j], v[j])))
      <3> HIDE DEF u, v
      <3> QED BY <1>3, PointwiseIs DEF c
    <2> QED BY <2>1, <2>2
  <1>9. \A j \in Coefficients : Same(x[j], Mul(Mul(Degree, RInverse), Level(a, b, 0)[j]))
    BY <1>1, <1>5, <1>8, BackwardLevels
  <1>10. /\ x \in Arrays /\ d \in Arrays /\ (Below(x, HalfR) => Below(d, q))
         /\ \A j \in Coefficients : Same(d[j], Mul(RInverse, Mul(MontSquaredByN, x[j])))
    BY <1>5, InverseIs
  <1>11. Below(d, q)
    <2>1. Below(x, HalfR)
      BY <1>0, <1>2, <1>7 DEF WithinWords
    <2> QED BY <1>10, <2>1
  <1> HIDE DEF u, v, x, d
  <1>12. ASSUME NEW j \in Coefficients PROVE (d[j] - Negacyclic(a, b, j)) % q = 0
    <2> DEFINE l == Level(a, b, 0)[j]
               m == Negacyclic(a, b, j)
               w == d[j]
               y == x[j]
               e == Mul(RInverse, Mul(MontSquaredByN, y))
    <2>1. l \in Int /\ m \in Int /\ Same(l, m)
      BY <1>1, LevelZero
    <2>2. w \in Int /\ y \in Int
      BY <1>10 DEF Arrays
    <2>3. Same(y, Mul(Mul(Degree, RInverse), l))
      BY <1>9
    <2>4. Same(w, e)
      BY <1>10
    <2> HIDE DEF l, m, w, y
    <2>5. e \in Int
      <3>1. Mul(MontSquaredByN, y) \in Int
        BY <2>2, DegreeFacts, MulFacts
      <3> QED BY <3>1, RInverseIs, MulFacts
    <2>6. Same(e, l)
      BY <2>1, <2>2, <2>3, FactorCancels
    <2> HIDE DEF e
    <2>7. Same(w, m)
      BY <2>1, <2>2, <2>4, <2>5, <2>6, SameBasics
    <2> QED BY <2>1, <2>2, <2>7, SameDifference DEF w, m
  <1> QED BY <1>2, <1>7, <1>11, <1>12

(* The transforms and the product in between multiply modulo X^N + 1, for  *)
(* every degree that is a power of 2, every modulus and every root that    *)
(* NttAssumption allows, and nothing leaves its word (ntt.c, poly.c).      *)
THEOREM TransformMultiplies == NttSpec => []ProductIsNegacyclic
  <1> DEFINE FactorsOK == factors = NoFactors \/ factors \in Factors \X Factors
  <1>1. NttInit => FactorsOK
    BY DEF NttInit
  <1>2. FactorsOK /\ [NttNext]_factors => FactorsOK'
    BY DEF NttNext, BeginProduct, EndProduct
  <1>3. FactorsOK => ProductIsNegacyclic
    <2> SUFFICES ASSUME FactorsOK, factors # NoFactors
                 PROVE  LET c == RingProduct(factors[1], factors[2])
                        IN  /\ WithinWords(factors[1], factors[2]) /\ Below(c, q)
                            /\ \A j \in Coefficients :
                                   (c[j] - Negacyclic(factors[1], factors[2], j)) % q = 0
      BY DEF ProductIsNegacyclic
    <2>1. factors[1] \in Factors /\ factors[2] \in Factors
      OBVIOUS
    <2> QED BY <2>1, ProductIs
  <1> QED BY <1>1, <1>2, <1>3, PTL DEF NttSpec

(***************************************************************************)
(* The constants of the code have the room that NttAssumption asks for,    *)
(* and the literal f is R^2 / N (params.h, ntt.c).                         *)
(***************************************************************************)
THEOREM ProgramHasRoom ==
    /\ 256 * 8380417 <= 2147483648
    /\ (8 + 1) * (8 + 1) * 8380417 <= 2147483648
    /\ (41978 * 256) % 8380417
           = ((4294967296 % 8380417) * (4294967296 % 8380417)) % 8380417
BY SMT

=============================================================================
