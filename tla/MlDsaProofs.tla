---------------------------- MODULE MlDsaProofs ----------------------------
(***************************************************************************)
(* What the ML-DSA-65 library computes, for every value of the parameters. *)
(*                                                                         *)
(*   Rounding, for every coefficient: the shifts and multiplications of    *)
(*   rounding.c and reduce.c against division with remainder, and the hint *)
(*   against the high bits it has to restore; every leaf there is          *)
(*   arithmetic with large literals, hence SMT throughout.                 *)
(*   Montgomery reduction, for every modulus and word size, and for those  *)
(*   of the program.                                                       *)
(*   The incremental hashing of fips202.c, for every rate, width, message  *)
(*   and division of it, against the sponge of FIPS 202.                   *)
(*   Keys, signatures and hints as bytes (packing.c), for every size.      *)
(*   Signature and verification (sign.c), for every degree and dimension,  *)
(*   matrix, secret, mask and challenge.                                   *)
(***************************************************************************)
EXTENDS Signing, Encoding, Montgomery, Sponge,
        SequenceTheorems, FiniteSetTheorems, WellFoundedInduction, TLAPS

(***************************************************************************)
(* reduce32 stays below 6283008 in absolute value and changes a by a       *)
(* multiple of Q (reduce.c, reduce32), for |a| < 2^31 - 2^22.  The bound   *)
(* from below is needed: reduce32(-2^31) = -6291200.                       *)
(***************************************************************************)
THEOREM ReduceRange ==
    ASSUME NEW a \in Int, -2143289343 <= a, a <= 2143289343
    PROVE  /\ -6283008 <= reduce32(a) /\ reduce32(a) <= 6283008
           /\ \E t \in Int : reduce32(a) = a - t * Q
<1> DEFINE t == (a + 4194304) \div 8388608
<1>1. /\ t \in Int
      /\ 8388608 * t <= a + 4194304 /\ a + 4194304 < 8388608 * t + 8388608
  BY SMT
<1>2. reduce32(a) = a - t * 8380417
  BY SMT DEF reduce32, Q
<1> HIDE DEF t
<1>3. -255 <= t /\ t <= 255
  BY SMT, <1>1
<1>4. -6283008 <= reduce32(a) /\ reduce32(a) <= 6283008
  BY SMT, <1>1, <1>2, <1>3
<1>5. reduce32(a) = a - t * Q
  BY SMT, <1>2 DEF Q
<1> QED
  BY SMT, <1>1, <1>4, <1>5

(***************************************************************************)
(* freeze returns the standard representative, 0 .. Q - 1, in the same     *)
(* domain (reduce.c, caddq and freeze): it is the remainder modulo Q.      *)
(***************************************************************************)
THEOREM FreezeIsRemainder ==
    ASSUME NEW a \in Int, -2143289343 <= a, a <= 2143289343
    PROVE  freeze(a) = a % Q
<1>1. PICK t \in Int : reduce32(a) = a - t * 8380417
  BY SMT, ReduceRange DEF Q
<1>2. -6283008 <= reduce32(a) /\ reduce32(a) <= 6283008
  BY SMT, ReduceRange
<1>3. \/ freeze(a) = a - t * 8380417
      \/ freeze(a) = a - (t - 1) * 8380417
  BY SMT, <1>1 DEF freeze, caddq, Q
<1>4. 0 <= freeze(a) /\ freeze(a) < 8380417
  BY SMT, <1>1, <1>2 DEF freeze, caddq, Q
<1>5. /\ (a % 8380417) \in Int /\ (a \div 8380417) \in Int
      /\ a = 8380417 * (a \div 8380417) + (a % 8380417)
      /\ 0 <= (a % 8380417) /\ (a % 8380417) < 8380417
  BY SMT
<1>6. freeze(a) = a % 8380417
  BY SMT, <1>1, <1>3, <1>4, <1>5
<1> QED
  BY SMT, <1>6 DEF Q

(***************************************************************************)
(* power2round splits a coefficient into 10 high bits and a centred low    *)
(* part in (-2^12, 2^12] without losing anything (rounding.c).             *)
(***************************************************************************)
THEOREM Power2RoundExact ==
    ASSUME NEW a \in Int, 0 <= a, a < Q
    PROVE  LET p == power2round(a)
           IN  /\ a = p.hi * 8192 + p.lo
               /\ p.hi \in Int /\ 0 <= p.hi /\ p.hi <= 1023
               /\ -4096 < p.lo /\ p.lo <= 4096
<1> DEFINE h == (a + 4095) \div 8192
<1>1. a \in Int /\ 0 <= a /\ a <= 8380416
  BY SMT DEF Q
<1>2. /\ h \in Int
      /\ 8192 * h <= a + 4095 /\ a + 4095 < 8192 * h + 8192
  BY SMT, <1>1
<1>3. power2round(a).hi = h /\ power2round(a).lo = a - h * 8192
  BY SMT DEF power2round
<1> HIDE DEF h
<1> QED
  BY SMT, <1>1, <1>2, <1>3

(***************************************************************************)
(* The multiplication and shifts of decompose round a / (2 * GAMMA2) to    *)
(* the nearest integer, ties downwards.                                    *)
(***************************************************************************)
LEMMA NearestIsNearest ==
    ASSUME NEW a \in Int, 0 <= a, a <= 8380416
    PROVE  /\ Nearest(a) \in 0 .. 16
           /\ -261888 < a - Nearest(a) * 523776
           /\ a - Nearest(a) * 523776 <= 261888
<1> DEFINE t == (a + 127) \div 128
           x == (t * 1025 + 2097152) \div 4194304
<1>1. t \in Int /\ 128 * t <= a + 127 /\ a + 127 < 128 * t + 128
  BY SMT
<1>2. Nearest(a) = x
  BY SMT DEF Nearest
<1> HIDE DEF t
<1>3. /\ x \in Int
      /\ 4194304 * x <= t * 1025 + 2097152
      /\ t * 1025 + 2097152 < 4194304 * x + 4194304
  BY SMT, <1>1
<1> HIDE DEF x
<1>4. 0 <= x /\ x <= 16
  BY SMT, <1>1, <1>3
<1>5. -261888 < a - x * 523776 /\ a - x * 523776 <= 261888
  BY SMTT(60), <1>1, <1>3, <1>4
<1> QED
  BY SMT, <1>2, <1>3, <1>4, <1>5

(* decompose, with the wrap of the topmost half band to high bits 0.       *)
LEMMA DecomposeIs ==
    ASSUME NEW a \in Int, 0 <= a, a <= 8380416,
           NEW x \in 0 .. 16,
           -261888 < a - x * 523776, a - x * 523776 <= 261888
    PROVE  /\ x < 16 => /\ decompose(a).hi = x
                        /\ decompose(a).lo = a - x * 523776
           /\ x = 16 => /\ decompose(a).hi = 0
                        /\ decompose(a).lo = a - 8380417
<1>1. Nearest(a) = x
  BY SMT, NearestIsNearest
<1> DEFINE hi == Nearest(a) % 16
           lo == a - hi * 2 * GAMMA2
<1>2. GAMMA2 = 261888 /\ (Q - 1) \div 2 = 4190208
  BY SMT DEF GAMMA2, Q
<1>3. (x < 16 => hi = x) /\ (x = 16 => hi = 0)
  BY SMT, <1>1
<1>4. /\ decompose(a).hi = hi
      /\ decompose(a).lo = IF lo > (Q - 1) \div 2 THEN lo - Q ELSE lo
  BY SMT DEF decompose
<1>5. lo = a - hi * 523776
  BY SMT, <1>2, <1>3
<1> HIDE DEF hi, lo
<1> QED
  BY SMT, <1>2, <1>3, <1>4, <1>5 DEF Q

(***************************************************************************)
(* decompose is the division of FIPS 204: high bits 0 .. 15 and a low part *)
(* in (-GAMMA2, GAMMA2], except that the topmost half band wraps to high   *)
(* bits 0, where the low part is a - Q (rounding.c, decompose).            *)
(***************************************************************************)
THEOREM DecomposeExact ==
    ASSUME NEW a \in Int, 0 <= a, a < Q
    PROVE  LET d == decompose(a)
           IN  /\ d.hi \in 0 .. 15
               /\ \/ /\ a = d.hi * 2 * GAMMA2 + d.lo
                     /\ -GAMMA2 < d.lo /\ d.lo <= GAMMA2
                  \/ /\ d.hi = 0 /\ a = d.lo + Q
                     /\ -GAMMA2 <= d.lo /\ d.lo < 0
<1>1. a \in Int /\ 0 <= a /\ a <= 8380416
  BY SMT DEF Q
<1>2. GAMMA2 = 261888
  BY SMT DEF GAMMA2, Q
<1> DEFINE x == Nearest(a)
<1>3. /\ x \in 0 .. 16
      /\ -261888 < a - x * 523776 /\ a - x * 523776 <= 261888
  BY SMT, <1>1, NearestIsNearest
<1>4. /\ x < 16 => decompose(a).hi = x /\ decompose(a).lo = a - x * 523776
      /\ x = 16 => decompose(a).hi = 0 /\ decompose(a).lo = a - 8380417
  BY SMT, <1>1, <1>3, DecomposeIs
<1> HIDE DEF x
<1> QED
  BY SMT, <1>1, <1>2, <1>3, <1>4 DEF Q

(***************************************************************************)
(* The hint restores the signer's high bits: if the verifier's coefficient *)
(* is the signer's high bits hi plus a low part u (what is left of w after *)
(* subtracting c * s2 and adding c * t0), |u| < 2 * GAMMA2, taken modulo Q, *)
(* then use_hint with the hint of u gives hi back.  The bands next to 0    *)
(* and Q are where it could go wrong (rounding.c, make_hint and use_hint). *)
(***************************************************************************)
THEOREM HintRecovers ==
    ASSUME NEW hi \in 0 .. 15, NEW u \in Int,
           -2 * GAMMA2 < u, u < 2 * GAMMA2,
           NEW a \in Int, 0 <= a, a < Q,
           \E k \in -1 .. 1 : a = hi * 2 * GAMMA2 + u + k * Q
    PROVE  use_hint(a, make_hint(u, hi)) = hi
<1>1. a \in Int /\ 0 <= a /\ a <= 8380416
  BY SMT DEF Q
<1>2. GAMMA2 = 261888
  BY SMT DEF GAMMA2, Q
<1>3. PICK k \in -1 .. 1 : a = hi * 523776 + u + k * 8380417
  BY SMT, <1>2 DEF Q
<1> DEFINE x == Nearest(a)
           d == decompose(a)
<1>4. /\ x \in 0 .. 16
      /\ -261888 < a - x * 523776 /\ a - x * 523776 <= 261888
  BY SMT, <1>1, NearestIsNearest
<1>5. /\ x < 16 => d.hi = x /\ d.lo = a - x * 523776
      /\ x = 16 => d.hi = 0 /\ d.lo = a - 8380417
  BY SMT, <1>1, <1>4, DecomposeIs
<1>6. use_hint(a, 0) = d.hi
  BY SMT DEF use_hint
<1>7. use_hint(a, 1) = IF d.lo > 0 THEN (d.hi + 1) % 16 ELSE (d.hi - 1) % 16
  BY SMT DEF use_hint
<1>8. \/ /\ make_hint(u, hi) = 1
         /\ u > 261888 \/ u < -261888 \/ (u = -261888 /\ hi # 0)
      \/ /\ make_hint(u, hi) = 0
         /\ u <= 261888 /\ u >= -261888 /\ (u = -261888 => hi = 0)
  BY SMT, <1>2 DEF make_hint
<1> DEFINE dh == d.hi
           dl == d.lo
<1>9. /\ x < 16 => dh = x /\ dl = a - x * 523776
      /\ x = 16 => dh = 0 /\ dl = a - 8380417
  BY SMT, <1>5
<1> HIDE DEF x, d
<1>10. CASE make_hint(u, hi) = 0
  <2>1. x < 16 => x = hi
    BY SMTT(60), <1>1, <1>2, <1>3, <1>4, <1>8, <1>10
  <2>2. x = 16 => hi = 0
    BY SMTT(60), <1>1, <1>2, <1>3, <1>4, <1>8, <1>10
  <2> QED
    BY SMT, <2>1, <2>2, <1>4, <1>5, <1>6, <1>10
<1>11. CASE make_hint(u, hi) = 1
  <2> HIDE DEF dh, dl
  <2>1. dh \in 0 .. 15 /\ dl \in Int
    BY SMT, <1>1, <1>4, <1>9
  <2>2. dl > 0 => (dh + 1 = hi \/ (dh = 15 /\ hi = 0))
    BY SMTT(60), <1>1, <1>2, <1>3, <1>4, <1>8, <1>9, <1>11
  <2>3. dl <= 0 => (dh - 1 = hi \/ (dh = 0 /\ hi = 15))
    BY SMTT(60), <1>1, <1>2, <1>3, <1>4, <1>8, <1>9, <1>11
  <2>4. dl > 0 => (dh + 1) % 16 = hi
    BY SMT, <2>1, <2>2
  <2>5. dl <= 0 => (dh - 1) % 16 = hi
    BY SMT, <2>1, <2>3
  <2> QED
    BY SMT, <2>1, <2>4, <2>5, <1>7, <1>11 DEF dh, dl
<1> QED
  BY SMT, <1>8, <1>10, <1>11

-----------------------------------------------------------------------------
(* The word kept is the product less a multiple of R, and within a word.   *)
LEMMA WordIs ==
    ASSUME NEW x \in Int
    PROVE  \E m \in Int : /\ Word(x) = x - m * R
                          /\ Word(x) \in Int
                          /\ -HalfR <= Word(x) /\ Word(x) < HalfR
<1> DEFINE m == (x + HalfR) \div R
<1>1. HalfR \in Int /\ R \in Int /\ R = 2 * HalfR /\ R > 0
  BY MontgomeryAssumption DEF R
<1>2. /\ m \in Int /\ (x + HalfR) % R \in Int
      /\ x + HalfR = (R * m) + ((x + HalfR) % R)
      /\ 0 <= (x + HalfR) % R /\ (x + HalfR) % R < R
  BY <1>1
<1> HIDE DEF m
<1>3. R * m = m * R
  BY <1>1, <1>2
<1>4. Word(x) = x - m * R
  BY <1>1, <1>2, <1>3 DEF Word
<1> QED
  BY <1>1, <1>2, <1>4 DEF Word

(* Multiples of a positive number compare as their factors do.             *)
LEMMA Smaller ==
    ASSUME NEW x \in Int, NEW y \in Int, NEW z \in Int, z > 0, z * x < z * y
    PROVE  x < y
<1> SUFFICES ASSUME y <= x PROVE FALSE
  OBVIOUS
<1>1. z * (x - y) >= 0
  OBVIOUS
<1> QED
  BY <1>1

(* What montgomery_reduce divides by R.                                    *)
LEMMA MontgomeryForm ==
    ASSUME NEW a \in Int
    PROVE  /\ montgomery_reduce(a) \in Int
           /\ \E t \in Int : /\ -HalfR <= t /\ t < HalfR
                             /\ R * montgomery_reduce(a) = a - t * q
<1> DEFINE t == Word(a * QINV)
<1>1. /\ HalfR \in Int /\ R \in Int /\ R = 2 * HalfR /\ R > 0
      /\ q \in Int /\ q > 0 /\ QINV \in Int
  BY MontgomeryAssumption DEF R
<1>2. a * QINV \in Int
  BY <1>1
<1>3. PICK m \in Int : /\ t = (a * QINV) - m * R /\ t \in Int
                       /\ -HalfR <= t /\ t < HalfR
  BY <1>2, WordIs
<1>4. PICK k \in Int : q * QINV = 1 + k * R
  <2> DEFINE k == (q * QINV) \div R
  <2>1. q * QINV \in Int
    BY <1>1
  <2>2. k \in Int /\ q * QINV = (R * k) + ((q * QINV) % R)
    BY <1>1, <2>1
  <2> HIDE DEF k
  <2>3. q * QINV = 1 + k * R
    BY <1>1, <2>2, MontgomeryAssumption
  <2> QED
    BY <2>2, <2>3
<1> HIDE DEF t
<1> DEFINE r == (m * q) - (a * k)
<1>5. r \in Int
  BY <1>1
<1>6. a - t * q = R * r
  <2>1. t * q = (a * QINV) * q - (m * R) * q
    BY <1>1, <1>3
  <2>2. (a * QINV) * q = a * (1 + k * R)
    BY <1>1, <1>4
  <2> QED
    BY <1>1, <2>1, <2>2
<1>7. montgomery_reduce(a) = r
  <2>1. montgomery_reduce(a) = (R * r) \div R
    BY <1>6 DEF montgomery_reduce, t
  <2> HIDE DEF r
  <2> QED
    BY <1>1, <1>5, <2>1
<1> HIDE DEF r
<1> QED
  BY <1>3, <1>5, <1>6, <1>7, Zenon

(***************************************************************************)
(* montgomery_reduce(a) * R is congruent to a modulo q, and the result is  *)
(* smaller than q in absolute value, for |a| < HalfR * q (reduce.c).  At   *)
(* a = HalfR * q, which the comment of the code admits, the result is q.   *)
(***************************************************************************)
THEOREM MontgomeryReduces ==
    ASSUME NEW a \in Int, -(HalfR * q) < a, a < HalfR * q
    PROVE  /\ montgomery_reduce(a) \in Int
           /\ -q < montgomery_reduce(a) /\ montgomery_reduce(a) < q
           /\ \E n \in Int : montgomery_reduce(a) * R = a + n * q
<1> DEFINE r == montgomery_reduce(a)
<1>1. /\ HalfR \in Int /\ R \in Int /\ R = 2 * HalfR /\ R > 0
      /\ q \in Int /\ q > 0
  BY MontgomeryAssumption DEF R
<1>2. r \in Int
  BY MontgomeryForm
<1>3. PICK t \in Int : -HalfR <= t /\ t < HalfR /\ R * r = a - t * q
  BY MontgomeryForm
<1> HIDE DEF r
<1>4. /\ -(HalfR * q) <= t * q /\ t * q <= HalfR * q
  BY <1>1, <1>3
<1>5. R * q = HalfR * q + HalfR * q
  BY <1>1
<1>6. R * r < R * q /\ R * (-q) < R * r
  BY <1>1, <1>2, <1>3, <1>4, <1>5
<1>7. -q < r /\ r < q
  BY <1>1, <1>2, <1>6, Smaller
<1>8. r * R = a + (-t) * q /\ -t \in Int
  BY <1>1, <1>2, <1>3
<1> QED
  BY <1>2, <1>7, <1>8 DEF r

(***************************************************************************)
(* The constants of reduce.h and params.h satisfy the assumption.          *)
(***************************************************************************)
THEOREM ProgramConstants ==
    (8380417 * 58728449) % (2 * 2147483648) = 1
BY SMT

---------------------------------------------------------------------------
(***************************************************************************)
(* The sponge.  The products k * Rate are Off(k), whose definition is only *)
(* expanded in the lemmas that state how it adds up.  A context absorbing  *)
(* m is Held(m): the state after the whole blocks of m with the rest of m  *)
(* XORed in, whatever pieces m came in.  A context squeezing is            *)
(* Waiting(s, d): what is left of the block when d bytes have been drawn   *)
(* from the state s, whose stream of bytes is Out(s, 0, d).                *)
(***************************************************************************)

(* Induction over a set instead of an operator.                            *)
LEMMA SetInduction ==
  ASSUME NEW S, 0 \in S, \A n \in Nat : n \in S => n + 1 \in S
  PROVE  \A n \in Nat : n \in S
  <1> DEFINE Rel == OpToRel(<, Nat)
             T == Nat \ S
  <1>1. IsWellFoundedOn(Rel, Nat) BY NatLessThanWellFounded
  <1>2. \A x, y \in Nat : x < y => <<x, y>> \in Rel BY DEF OpToRel
  <1> HIDE DEF Rel
  <1>3. SUFFICES ASSUME T # {} PROVE FALSE
  OBVIOUS
  <1>4. PICK x \in T : \A y \in T : ~(<<y, x>> \in Rel)
    <2> HIDE DEF T
    <2>1. T \subseteq Nat BY DEF T
    <2>2. QED BY <1>1, <1>3, <2>1, WFMin
  <1>5. x # 0 /\ x \in Nat OBVIOUS
  <1>6. x - 1 \in Nat /\ x - 1 < x /\ x = (x - 1) + 1 BY <1>5
  <1>7. x - 1 \notin T BY <1>2, <1>4, <1>5, <1>6
  <1>8. QED BY <1>4, <1>6, <1>7

-----------------------------------------------------------------------------
(* Where the blocks begin; the products stay behind a name.                *)
Off(k) == k * Rate

LEMMA RateIs == Rate \in Nat /\ Rate > 0 /\ Width \in Nat /\ Width > Rate
  BY SpongeAssumption

LEMMA Offs ==
    /\ Off(0) = 0
    /\ \A k \in Nat : Off(k) \in Nat /\ Off(k + 1) = Off(k) + Rate
  BY RateIs, SMT DEF Off

LEMMA OffOne == Off(1) = Rate
  BY RateIs, SMT DEF Off

LEMMA OffAdds == \A a, b \in Nat : Off(a + b) = Off(a) + Off(b)
  <1>1. \A a, b, r \in Nat : (a + b) * r = a * r + b * r
    BY SMT
  <1> QED BY <1>1, RateIs DEF Off

LEMMA OffGrows == \A a, b \in Nat : a < b => Off(a) + Rate <= Off(b)
  <1> SUFFICES ASSUME NEW a \in Nat, NEW b \in Nat, a < b PROVE Off(a) + Rate <= Off(b)
    OBVIOUS
  <1>1. PICK d \in Nat : b = (a + 1) + d
    BY SMT
  <1>2. a + 1 \in Nat
    OBVIOUS
  <1>3. Off((a + 1) + d) = Off(a + 1) + Off(d)
    BY <1>2, OffAdds
  <1>4. Off(a + 1) = Off(a) + Rate /\ Off(d) \in Nat /\ Off(a) \in Nat
    BY Offs
  <1> QED BY <1>1, <1>3, <1>4, RateIs

LEMMA DivRem ==
    ASSUME NEW n \in Nat
    PROVE  /\ n \div Rate \in Nat
           /\ Off(n \div Rate) <= n /\ n < Off(n \div Rate) + Rate
           /\ n % Rate = n - Off(n \div Rate)
  <1>1. \A r \in Nat \ {0} : /\ n \div r \in Nat /\ n % r \in 0 .. r - 1
                             /\ n = (n \div r) * r + (n % r)
    BY SMT
  <1>2. Rate \in Nat \ {0}
    BY RateIs
  <1> DEFINE d == n \div Rate
             m == n % Rate
  <1>3. d \in Nat /\ m \in 0 .. Rate - 1 /\ n = Off(d) + m
    BY <1>1, <1>2 DEF Off
  <1>4. Off(d) \in Nat
    BY <1>3, Offs
  <1> HIDE DEF d, m
  <1>5. d \in Nat /\ Off(d) <= n /\ n < Off(d) + Rate /\ m = n - Off(d)
    BY <1>3, <1>4, RateIs
  <1> QED BY <1>5 DEF d, m

LEMMA DivIs ==
    ASSUME NEW n \in Nat, NEW k \in Nat, Off(k) <= n, n < Off(k) + Rate
    PROVE  n \div Rate = k /\ n % Rate = n - Off(k)
  <1> DEFINE d == n \div Rate
  <1>1. d \in Nat /\ Off(d) <= n /\ n < Off(d) + Rate /\ n % Rate = n - Off(d)
    BY DivRem
  <1>2. (d < k => Off(d) + Rate <= Off(k)) /\ (k < d => Off(k) + Rate <= Off(d))
    BY <1>1, OffGrows
  <1>3. Off(d) \in Nat /\ Off(k) \in Nat
    BY <1>1, Offs
  <1> HIDE DEF d
  <1>4. d = k
    BY <1>1, <1>2, <1>3, RateIs
  <1> QED BY <1>1, <1>4 DEF d

LEMMA Blocks ==
    ASSUME NEW n \in Nat
    PROVE  /\ BlocksOf(n) \in Nat
           /\ n <= Off(BlocksOf(n)) /\ Off(BlocksOf(n)) < n + Rate
  <1>1. n + Rate - 1 \in Nat
    BY RateIs
  <1> DEFINE b == BlocksOf(n)
  <1>2. b \in Nat /\ Off(b) <= n + Rate - 1 /\ n + Rate - 1 < Off(b) + Rate
    BY <1>1, DivRem DEF BlocksOf
  <1>3. Off(b) \in Nat
    BY <1>2, Offs
  <1> HIDE DEF b
  <1>4. n <= Off(b) /\ Off(b) < n + Rate
    BY <1>2, <1>3, RateIs
  <1> QED BY <1>2, <1>4 DEF b

LEMMA BlocksIs ==
    ASSUME NEW n \in Nat, NEW k \in Nat, n <= Off(k), Off(k) < n + Rate
    PROVE  BlocksOf(n) = k
  <1> DEFINE x == n + Rate - 1
  <1>1. x \in Nat /\ Off(k) <= x /\ x < Off(k) + Rate
    BY Offs, RateIs
  <1> HIDE DEF x
  <1>2. x \div Rate = k
    BY <1>1, DivIs
  <1> QED BY <1>2 DEF x, BlocksOf

-----------------------------------------------------------------------------
(* The rounds of a loop, one after the other.                              *)
IsRun(run, s, pieces, n) ==
    run = [i \in 0 .. n |-> IF i = 0 THEN s ELSE Round(run[i - 1], pieces[i])]

LEMMA RunExists ==
    ASSUME NEW s, NEW pieces
    PROVE  \A n \in Nat : \E run : IsRun(run, s, pieces, n)
  <1> DEFINE S == {n \in Nat : \E run : IsRun(run, s, pieces, n)}
  <1>1. 0 \in S
    <2> DEFINE run == [i \in 0 .. 0 |-> s]
    <2>1. IsRun(run, s, pieces, 0)
      BY DEF IsRun
    <2> QED BY <2>1
  <1>2. ASSUME NEW n \in Nat, n \in S PROVE n + 1 \in S
    <2>1. PICK run : IsRun(run, s, pieces, n)
      BY <1>2
    <2> DEFINE next == [i \in 0 .. n + 1 |->
                          IF i = n + 1 THEN Round(run[n], pieces[n + 1]) ELSE run[i]]
    <2>2. \A i \in 0 .. n : run[i] = IF i = 0 THEN s ELSE Round(run[i - 1], pieces[i])
      BY <2>1 DEF IsRun
    <2>3. \A i \in 0 .. n + 1 : next[i] = IF i = 0 THEN s ELSE Round(next[i - 1], pieces[i])
      <3> SUFFICES ASSUME NEW i \in 0 .. n + 1
                   PROVE  next[i] = IF i = 0 THEN s ELSE Round(next[i - 1], pieces[i])
        OBVIOUS
      <3>1. CASE i = n + 1
        <4>1. i - 1 = n /\ i - 1 \in 0 .. n + 1 /\ i - 1 # n + 1 /\ i # 0
          BY <3>1
        <4> QED BY <3>1, <4>1
      <3>2. CASE i \in 1 .. n
        <4>1. i - 1 \in 0 .. n + 1 /\ i - 1 # n + 1 /\ i # 0 /\ i # n + 1 /\ i \in 0 .. n
          BY <3>2
        <4> QED BY <4>1, <2>2
      <3>3. CASE i = 0
        BY <3>3, <2>2
      <3> QED BY <3>1, <3>2, <3>3
    <2>4. next = [i \in 0 .. n + 1 |-> IF i = 0 THEN s ELSE Round(next[i - 1], pieces[i])]
      <3>1. next = [i \in 0 .. n + 1 |-> next[i]]
        OBVIOUS
      <3> HIDE DEF next
      <3> QED BY <3>1, <2>3
    <2>5. IsRun(next, s, pieces, n + 1)
      BY <2>4 DEF IsRun
    <2> QED BY <2>5
  <1> HIDE DEF S
  <1>3. \A n \in Nat : n \in S
    BY <1>1, <1>2, SetInduction
  <1> QED BY <1>3 DEF S

(* Only the pieces up to n count.                                          *)
LEMMA RunSame ==
    ASSUME NEW s, NEW p, NEW u, NEW n \in Nat, NEW m \in Nat, NEW a, NEW b,
           IsRun(a, s, p, n), IsRun(b, s, u, m), n <= m,
           \A i \in 1 .. n : p[i] = u[i]
    PROVE  \A i \in 0 .. n : a[i] = b[i]
  <1> DEFINE S == {i \in Nat : i <= n => a[i] = b[i]}
  <1>1. \A i \in 0 .. n : a[i] = IF i = 0 THEN s ELSE Round(a[i - 1], p[i])
    BY DEF IsRun
  <1>2. \A i \in 0 .. m : b[i] = IF i = 0 THEN s ELSE Round(b[i - 1], u[i])
    BY DEF IsRun
  <1>3. 0 \in S
    BY <1>1, <1>2
  <1>4. ASSUME NEW i \in Nat, i \in S PROVE i + 1 \in S
    <2>1. CASE i + 1 <= n
      <3>1. i + 1 \in 0 .. n /\ i + 1 \in 0 .. m /\ i + 1 \in 1 .. n
            /\ i + 1 # 0 /\ (i + 1) - 1 = i /\ i <= n
        BY <2>1
      <3>2. a[i + 1] = Round(a[i], p[i + 1]) /\ b[i + 1] = Round(b[i], u[i + 1])
        BY <3>1, <1>1, <1>2
      <3> QED BY <3>1, <3>2, <1>4
    <2> QED BY <2>1
  <1> HIDE DEF S
  <1>5. \A i \in Nat : i \in S
    BY <1>3, <1>4, SetInduction
  <1> QED BY <1>5 DEF S

LEMMA RunPrefix ==
    ASSUME NEW s, NEW p, NEW n \in Nat, NEW m \in Nat, NEW a, NEW b,
           IsRun(a, s, p, n), IsRun(b, s, p, m), n <= m
    PROVE  \A i \in 0 .. n : a[i] = b[i]
  BY RunSame

LEMMA RoundsRun ==
    ASSUME NEW s, NEW pieces, NEW n \in Nat
    PROVE  \E run : IsRun(run, s, pieces, n) /\ Rounds(s, pieces, n) = run[n]
  <1> DEFINE run == CHOOSE run : IsRun(run, s, pieces, n)
  <1>1. IsRun(run, s, pieces, n)
    BY RunExists
  <1>2. Rounds(s, pieces, n) = run[n]
    BY DEF Rounds, IsRun
  <1> QED BY <1>1, <1>2

LEMMA RoundsSame ==
    ASSUME NEW s, NEW p, NEW u, NEW n \in Nat, \A i \in 1 .. n : p[i] = u[i]
    PROVE  Rounds(s, p, n) = Rounds(s, u, n)
  <1>1. PICK a : IsRun(a, s, p, n) /\ Rounds(s, p, n) = a[n]
    BY RoundsRun
  <1>2. PICK b : IsRun(b, s, u, n) /\ Rounds(s, u, n) = b[n]
    BY RoundsRun
  <1>3. \A i \in 0 .. n : a[i] = b[i]
    BY <1>1, <1>2, RunSame
  <1> QED BY <1>1, <1>2, <1>3

LEMMA RoundsUnfold ==
    ASSUME NEW s, NEW p
    PROVE  /\ Rounds(s, p, 0) = s
           /\ \A n \in Nat : Rounds(s, p, n + 1) = Round(Rounds(s, p, n), p[n + 1])
  <1>1. Rounds(s, p, 0) = s
    <2>1. PICK a : IsRun(a, s, p, 0) /\ Rounds(s, p, 0) = a[0]
      BY RoundsRun
    <2> QED BY <2>1 DEF IsRun
  <1>2. ASSUME NEW n \in Nat PROVE Rounds(s, p, n + 1) = Round(Rounds(s, p, n), p[n + 1])
    <2>1. PICK a : IsRun(a, s, p, n) /\ Rounds(s, p, n) = a[n]
      BY RoundsRun
    <2>2. n + 1 \in Nat
      OBVIOUS
    <2>3. PICK b : IsRun(b, s, p, n + 1) /\ Rounds(s, p, n + 1) = b[n + 1]
      BY RoundsRun, <2>2
    <2>4. \A i \in 0 .. n : a[i] = b[i]
      <3> DEFINE m == n + 1
      <3>1. n <= m /\ m \in Nat /\ IsRun(b, s, p, m)
        BY <2>3
      <3> HIDE DEF m
      <3> QED BY <2>1, <3>1, RunPrefix
    <2>5. b[n + 1] = Round(b[n], p[n + 1])
      <3>1. \A i \in 0 .. n + 1 : b[i] = IF i = 0 THEN s ELSE Round(b[i - 1], p[i])
        BY <2>3 DEF IsRun
      <3>2. n + 1 \in 0 .. n + 1 /\ n + 1 # 0 /\ (n + 1) - 1 = n
        OBVIOUS
      <3> QED BY <3>1, <3>2
    <2> QED BY <2>1, <2>3, <2>4, <2>5
  <1> QED BY <1>1, <1>2

LEMMA RoundsOn ==
    ASSUME NEW s, NEW p, NEW n \in Nat
    PROVE  Rounds(s, p, n + 1) = Round(Rounds(s, p, n), p[n + 1])
  BY RoundsUnfold

-----------------------------------------------------------------------------
(* States, and what is XORed into them.                                    *)
IsState(s) == s = [p \in 0 .. Width - 1 |-> s[p]]

(* The next len bytes of m after the first from, from the start of s on.   *)
Mixed(s, m, from, len) ==
    [p \in 0 .. Width - 1 |-> IF p < len THEN Xor(s[p], m[from + p + 1]) ELSE s[p]]

LEMMA StateDomain ==
    ASSUME NEW s, IsState(s)
    PROVE  DOMAIN s = 0 .. Width - 1
  BY DEF IsState

LEMMA ZeroedState == IsState(Zeroed)
  BY DEF IsState, Zeroed

LEMMA XorBytes ==
    ASSUME NEW s, IsState(s), NEW m, NEW offset
    PROVE  /\ IsState(keccak_state_xor_bytes(s, m, offset))
           /\ \A p \in 0 .. Width - 1 :
                keccak_state_xor_bytes(s, m, offset)[p] =
                  IF p - offset \in 0 .. Len(m) - 1 THEN Xor(s[p], m[p - offset + 1]) ELSE s[p]
  BY StateDomain DEF keccak_state_xor_bytes, IsState

LEMMA PermuteState ==
    ASSUME NEW s, IsState(s)
    PROVE  IsState(Permute(s))
  BY StateDomain DEF Permute, IsState

LEMMA StatesEqual ==
    ASSUME NEW s, NEW x, IsState(s), IsState(x), \A p \in 0 .. Width - 1 : s[p] = x[p]
    PROVE  s = x
  BY DEF IsState

LEMMA MixedState ==
    ASSUME NEW s, NEW m, NEW from, NEW len
    PROVE  /\ IsState(Mixed(s, m, from, len))
           /\ \A p \in 0 .. Width - 1 : Mixed(s, m, from, len)[p] =
                IF p < len THEN Xor(s[p], m[from + p + 1]) ELSE s[p]
  BY DEF Mixed, IsState

LEMMA RoundState ==
    ASSUME NEW s, IsState(s), NEW piece
    PROVE  IsState(Round(s, piece))
  BY XorBytes, PermuteState DEF Round

LEMMA RoundsState ==
    ASSUME NEW s, IsState(s), NEW pieces
    PROVE  \A n \in Nat : IsState(Rounds(s, pieces, n))
  <1> DEFINE S == {n \in Nat : IsState(Rounds(s, pieces, n))}
  <1>1. 0 \in S
    BY RoundsUnfold
  <1>2. ASSUME NEW n \in Nat, n \in S PROVE n + 1 \in S
    <2>1. IsState(Rounds(s, pieces, n)) /\ n + 1 \in Nat
      BY <1>2
    <2>2. Rounds(s, pieces, n + 1) = Round(Rounds(s, pieces, n), pieces[n + 1])
      BY RoundsUnfold
    <2>3. IsState(Rounds(s, pieces, n + 1))
      BY <2>1, <2>2, RoundState
    <2> QED BY <2>1, <2>3
  <1> HIDE DEF S
  <1>3. \A n \in Nat : n \in S
    BY <1>1, <1>2, SetInduction
  <1> QED BY <1>3 DEF S

(* A part of a message.                                                    *)
LEMMA PieceOf ==
    ASSUME NEW S, NEW m \in Seq(S), NEW from \in Nat, NEW to \in Nat,
           from <= to, to <= Len(m)
    PROVE  /\ Len(SubSeq(m, from + 1, to)) = to - from
           /\ \A i \in 1 .. to - from : SubSeq(m, from + 1, to)[i] = m[from + i]
  <1>1. \A i \in from + 1 .. to : m[i] \in S
    BY ElementOfSeq, LenProperties
  <1>2. from + 1 \in Int /\ to \in Int
    OBVIOUS
  <1> DEFINE x == SubSeq(m, from + 1, to)
             a == from + 1
  <1>3. /\ Len(x) = IF a <= to THEN to - a + 1 ELSE 0
        /\ \A i \in 1 .. to - a + 1 : x[i] = m[a + i - 1]
    BY <1>1, <1>2, SubSeqProperties
  <1> HIDE DEF x
  <1>4. Len(x) = to - from
    BY <1>3
  <1>5. \A i \in 1 .. to - from : x[i] = m[from + i]
    BY <1>3
  <1> QED BY <1>4, <1>5 DEF x

(* XORing a part of a message into a state.                                *)
LEMMA XorPart ==
    ASSUME NEW S, NEW m \in Seq(S), NEW from \in Nat, NEW to \in Nat,
           from <= to, to <= Len(m), NEW s, IsState(s)
    PROVE  keccak_state_xor_bytes(s, SubSeq(m, from + 1, to), 0) = Mixed(s, m, from, to - from)
  <1> DEFINE x == SubSeq(m, from + 1, to)
             l == keccak_state_xor_bytes(s, x, 0)
             r == Mixed(s, m, from, to - from)
  <1>1. Len(x) = to - from /\ \A i \in 1 .. to - from : x[i] = m[from + i]
    BY PieceOf
  <1> HIDE DEF x
  <1>2. \A p \in 0 .. Width - 1 :
          l[p] = IF p - 0 \in 0 .. Len(x) - 1 THEN Xor(s[p], x[p - 0 + 1]) ELSE s[p]
    BY XorBytes
  <1>3. \A p \in 0 .. Width - 1 :
          r[p] = IF p < to - from THEN Xor(s[p], m[from + p + 1]) ELSE s[p]
    BY MixedState
  <1>4. IsState(l) /\ IsState(r)
    BY XorBytes, MixedState
  <1> HIDE DEF l, r
  <1>5. ASSUME NEW p \in 0 .. Width - 1 PROVE l[p] = r[p]
    <2>1. CASE p < to - from
      <3>1. p - 0 \in 0 .. Len(x) - 1 /\ p - 0 + 1 = p + 1 /\ p + 1 \in 1 .. to - from
            /\ from + (p + 1) = from + p + 1
        BY <2>1, <1>1, RateIs
      <3>2. x[p + 1] = m[from + p + 1]
        BY <3>1, <1>1
      <3> QED BY <2>1, <3>1, <3>2, <1>2, <1>3
    <2>2. CASE ~(p < to - from)
      <3>1. ~(p - 0 \in 0 .. Len(x) - 1)
        BY <2>2, <1>1
      <3> QED BY <2>2, <3>1, <1>2, <1>3
    <2> QED BY <2>1, <2>2
  <1>6. l = r
    BY <1>4, <1>5, StatesEqual
  <1> QED BY <1>6 DEF l, r, x

-----------------------------------------------------------------------------
(* The state after the first k blocks of a message.                        *)
BlockState(m, k) == Rounds(Zeroed, Pieces(m, 0, k), k)

(* The pieces after the first.                                             *)
LEMMA PieceAt ==
    ASSUME NEW m, NEW held \in Nat, NEW n \in Nat, NEW i \in 1 .. n
    PROVE  /\ i = 1 => Pieces(m, held, n)[i] = [m |-> Take(m, Rate - held), offset |-> held]
           /\ i # 1 => Pieces(m, held, n)[i] =
                [m |-> SubSeq(m, Off(i - 1) - held + 1, Off(i) - held), offset |-> 0]
  BY DEF Pieces, Off

LEMMA FirstPieces ==
    ASSUME NEW m, NEW j \in Nat, NEW k \in Nat, j = k + 1
    PROVE  Pieces(m, 0, j)[j] = [m |-> SubSeq(m, Off(k) + 1, Off(j)), offset |-> 0]
  <1> DEFINE p == Pieces(m, 0, j)
  <1>1. j \in 1 .. j /\ j - 1 = k /\ 0 \in Nat
    OBVIOUS
  <1>2. /\ j = 1 => p[j] = [m |-> Take(m, Rate - 0), offset |-> 0]
        /\ j # 1 => p[j] = [m |-> SubSeq(m, Off(j - 1) - 0 + 1, Off(j) - 0), offset |-> 0]
    BY <1>1 DEF Pieces, Off
  <1> HIDE DEF p
  <1>3. Off(k) \in Nat /\ Off(j) \in Nat /\ (j = 1 => Off(k) = 0 /\ Off(j) = Rate)
    BY Offs, OffOne
  <1>4. Off(j - 1) - 0 + 1 = Off(k) + 1 /\ Off(j) - 0 = Off(j) /\ Rate - 0 = Rate
    BY <1>1, <1>3, RateIs
  <1> DEFINE piece == [m |-> SubSeq(m, Off(k) + 1, Off(j)), offset |-> 0]
  <1>5. ASSUME j = 1 PROVE p[j] = piece
    <2>1. p[j] = [m |-> Take(m, Rate - 0), offset |-> 0]
      BY <1>2, <1>5
    <2>2. Off(k) + 1 = 1 /\ Off(j) = Rate
      BY <1>3, <1>5
    <2>3. Take(m, Rate - 0) = SubSeq(m, Off(k) + 1, Off(j))
      BY <2>2, <1>4 DEF Take
    <2> QED BY <2>1, <2>3
  <1>6. ASSUME j # 1 PROVE p[j] = piece
    BY <1>2, <1>4, <1>6
  <1>7. p[j] = [m |-> SubSeq(m, Off(k) + 1, Off(j)), offset |-> 0]
    BY <1>5, <1>6
  <1> QED BY <1>7 DEF p

LEMMA BlockStates ==
    ASSUME NEW m
    PROVE  /\ BlockState(m, 0) = Zeroed
           /\ \A k \in Nat : IsState(BlockState(m, k))
  BY RoundsUnfold, RoundsState, ZeroedState DEF BlockState

LEMMA BlockStep ==
    ASSUME NEW S, NEW m \in Seq(S), NEW k \in Nat, Off(k + 1) <= Len(m)
    PROVE  BlockState(m, k + 1) = Permute(Mixed(BlockState(m, k), m, Off(k), Rate))
  <1> DEFINE j == k + 1
             p == Pieces(m, 0, j)
             b == Rounds(Zeroed, p, k)
  <1>0. j \in Nat /\ j \in 1 .. j /\ j - 1 = k /\ k \in 0 .. j /\ Len(m) \in Nat
    BY LenProperties
  <1>1. b = BlockState(m, k)
    <2>1. \A i \in 1 .. k : Pieces(m, 0, j)[i] = Pieces(m, 0, k)[i]
      BY DEF Pieces
    <2> QED BY <2>1, RoundsSame DEF BlockState
  <1>2. BlockState(m, j) = Round(b, p[j])
    BY RoundsUnfold DEF BlockState
  <1>3. Off(k) \in Nat /\ Off(j) \in Nat /\ Off(j) = Off(k) + Rate
    BY Offs, <1>0
  <1>4. p[j] = [m |-> SubSeq(m, Off(k) + 1, Off(j)), offset |-> 0]
    BY <1>0, FirstPieces
  <1>5. IsState(b)
    BY <1>1, BlockStates
  <1> HIDE DEF p, b
  <1>6. keccak_state_xor_bytes(b, SubSeq(m, Off(k) + 1, Off(j)), 0) =
          Mixed(b, m, Off(k), Off(j) - Off(k))
    BY <1>0, <1>3, <1>5, XorPart, RateIs
  <1>7. Off(j) - Off(k) = Rate
    BY <1>3, RateIs
  <1>8. BlockState(m, j) = Permute(Mixed(b, m, Off(k), Rate))
    BY <1>2, <1>4, <1>6, <1>7 DEF Round
  <1> QED BY <1>1, <1>8

(* Blocks both messages have leave the same state.                         *)
LEMMA BlockPrefix ==
    ASSUME NEW S, NEW m \in Seq(S), NEW g \in Seq(S), Len(m) <= Len(g),
           \A i \in 1 .. Len(m) : g[i] = m[i]
    PROVE  \A k \in Nat : Off(k) <= Len(m) => BlockState(g, k) = BlockState(m, k)
  <1> DEFINE T == {k \in Nat : Off(k) <= Len(m) => BlockState(g, k) = BlockState(m, k)}
  <1>1. 0 \in T
    BY BlockStates
  <1>2. ASSUME NEW k \in Nat, k \in T PROVE k + 1 \in T
    <2> SUFFICES ASSUME Off(k + 1) <= Len(m)
                 PROVE  BlockState(g, k + 1) = BlockState(m, k + 1)
      OBVIOUS
    <2>1. Off(k) \in Nat /\ Off(k + 1) = Off(k) + Rate /\ Len(m) \in Nat /\ Len(g) \in Nat
      BY Offs, LenProperties
    <2>2. Off(k) <= Len(m) /\ Off(k + 1) <= Len(g)
      BY <2>1, RateIs
    <2> DEFINE b == BlockState(m, k)
               x == Mixed(b, g, Off(k), Rate)
               y == Mixed(b, m, Off(k), Rate)
    <2>3. BlockState(m, k + 1) = Permute(y)
      BY BlockStep
    <2>4. BlockState(g, k) = b
      BY <1>2, <2>2
    <2>5. BlockState(g, k + 1) = Permute(x)
      BY <2>2, <2>4, BlockStep
    <2>6. /\ IsState(x) /\ \A p \in 0 .. Width - 1 :
                 x[p] = IF p < Rate THEN Xor(b[p], g[Off(k) + p + 1]) ELSE b[p]
          /\ IsState(y) /\ \A p \in 0 .. Width - 1 :
                 y[p] = IF p < Rate THEN Xor(b[p], m[Off(k) + p + 1]) ELSE b[p]
      BY MixedState
    <2> HIDE DEF x, y, b
    <2>7. ASSUME NEW p \in 0 .. Width - 1 PROVE x[p] = y[p]
      <3>1. CASE p < Rate
        <4>1. Off(k) + p + 1 \in 1 .. Len(m)
          BY <3>1, <2>1, RateIs
        <4> QED BY <3>1, <4>1, <2>6
      <3>2. CASE ~(p < Rate)
        BY <3>2, <2>6
      <3> QED BY <3>1, <3>2
    <2>8. x = y
      BY <2>6, <2>7, StatesEqual
    <2> QED BY <2>3, <2>5, <2>8
  <1> HIDE DEF T
  <1>3. \A k \in Nat : k \in T
    BY <1>1, <1>2, SetInduction
  <1> QED BY <1>3 DEF T

-----------------------------------------------------------------------------
(* Between two absorb calls: the blocks that are complete are permuted     *)
(* into the state, the bytes of the last are XORed into it and counted.    *)
Held(m) ==
    LET k == Len(m) \div Rate
    IN  [s |-> keccak_state_xor_bytes(BlockState(m, k), Drop(m, Off(k)), 0),
         n |-> Len(m) - Off(k)]

LEMMA HeldIs ==
    ASSUME NEW S, NEW m \in Seq(S), NEW k \in Nat, Off(k) <= Len(m), Len(m) < Off(k) + Rate
    PROVE  /\ Held(m) = [s |-> Mixed(BlockState(m, k), m, Off(k), Len(m) - Off(k)),
                         n |-> Len(m) - Off(k)]
           /\ Len(m) \div Rate = k
  <1>1. Len(m) \in Nat /\ Off(k) \in Nat /\ IsState(BlockState(m, k))
    BY LenProperties, Offs, BlockStates
  <1>2. Len(m) \div Rate = k
    BY <1>1, DivIs
  <1> DEFINE b == BlockState(m, k)
             from == Off(k)
             to == Len(m)
  <1>3. from \in Nat /\ to \in Nat /\ from <= to /\ to <= Len(m) /\ IsState(b)
    BY <1>1
  <1>4. keccak_state_xor_bytes(b, SubSeq(m, from + 1, to), 0) = Mixed(b, m, from, to - from)
    <2> HIDE DEF b, from, to
    <2> QED BY <1>3, XorPart
  <1> QED BY <1>2, <1>4 DEF Held, Drop

LEMMA Concat ==
    ASSUME NEW S, NEW f \in Seq(S), NEW m \in Seq(S)
    PROVE  /\ f \o m \in Seq(S) /\ Len(f) \in Nat /\ Len(m) \in Nat
           /\ Len(f \o m) = Len(f) + Len(m)
           /\ \A i \in 1 .. Len(f) : (f \o m)[i] = f[i]
           /\ \A i \in 1 .. Len(m) : (f \o m)[Len(f) + i] = m[i]
  <1> DEFINE g == f \o m
             a == Len(f)
             b == Len(m)
  <1>1. a \in Nat /\ b \in Nat
    BY LenProperties
  <1>2. /\ g \in Seq(S) /\ Len(g) = a + b
        /\ \A i \in 1 .. a + b : g[i] = IF i <= a THEN f[i] ELSE m[i - a]
    BY ConcatProperties
  <1> HIDE DEF g, a, b
  <1>3. \A i \in 1 .. a : g[i] = f[i]
    BY <1>1, <1>2
  <1>4. \A i \in 1 .. b : g[a + i] = m[i]
    <2> SUFFICES ASSUME NEW i \in 1 .. b PROVE g[a + i] = m[i]
      OBVIOUS
    <2>1. a + i \in 1 .. a + b /\ ~(a + i <= a) /\ (a + i) - a = i
      BY <1>1
    <2> QED BY <2>1, <1>2
  <1> QED BY <1>1, <1>2, <1>3, <1>4 DEF g, a, b

IsConcat(g, f, m, S) ==
    /\ g \in Seq(S) /\ Len(f) \in Nat /\ Len(m) \in Nat
    /\ Len(g) = Len(f) + Len(m)
    /\ \A i \in 1 .. Len(f) : g[i] = f[i]
    /\ \A i \in 1 .. Len(m) : g[Len(f) + i] = m[i]

LEMMA ConcatIs ==
    ASSUME NEW S, NEW f \in Seq(S), NEW m \in Seq(S)
    PROVE  IsConcat(f \o m, f, m, S)
  BY Concat DEF IsConcat

LEMMA MixedShift ==
    ASSUME NEW S, NEW f \in Seq(S), NEW m \in Seq(S), NEW a \in Nat, NEW len \in Nat,
           a + len <= Len(m), NEW x
    PROVE  Mixed(x, m, a, len) = Mixed(x, f \o m, Len(f) + a, len)
  <1> DEFINE g == f \o m
             c == Len(f)
             d == c + a
             l == Mixed(x, m, a, len)
             r == Mixed(x, g, d, len)
  <1>1. c \in Nat /\ Len(m) \in Nat /\ \A i \in 1 .. Len(m) : g[c + i] = m[i]
    BY Concat
  <1>2. /\ IsState(l) /\ IsState(r)
        /\ \A p \in 0 .. Width - 1 : l[p] = IF p < len THEN Xor(x[p], m[a + p + 1]) ELSE x[p]
        /\ \A p \in 0 .. Width - 1 : r[p] = IF p < len THEN Xor(x[p], g[d + p + 1]) ELSE x[p]
    <2> HIDE DEF d
    <2> QED BY DEF Mixed, IsState
  <1> HIDE DEF g, c, l, r
  <1>3. ASSUME NEW p \in 0 .. Width - 1 PROVE l[p] = r[p]
    <2>1. CASE p < len
      <3>1. a + p + 1 \in 1 .. Len(m) /\ d + p + 1 = c + (a + p + 1)
        BY <2>1, <1>1, RateIs
      <3>2. g[d + p + 1] = m[a + p + 1]
        BY <3>1, <1>1
      <3> QED BY <2>1, <3>2, <1>2
    <2>2. CASE ~(p < len)
      BY <2>2, <1>2
    <2> QED BY <2>1, <2>2
  <1>4. l = r
    BY <1>2, <1>3, StatesEqual
  <1> QED BY <1>4 DEF l, r, g, c

(* The held bytes of f and the next l of m are a part of f \o m.           *)
LEMMA MixedOn ==
    ASSUME NEW S, NEW f \in Seq(S), NEW m \in Seq(S), NEW b, IsState(b),
           NEW base \in Nat, NEW t \in Nat, base + t = Len(f), NEW l \in 0 .. Len(m)
    PROVE  keccak_state_xor_bytes(Mixed(b, f, base, t), SubSeq(m, 1, l), t)
             = Mixed(b, f \o m, base, t + l)
  <1> DEFINE g == f \o m
             y == SubSeq(m, 1, l)
             x == Mixed(b, f, base, t)
             left == keccak_state_xor_bytes(x, y, t)
             e == t + l
             right == Mixed(b, g, base, e)
  <1>1. /\ Len(f) \in Nat /\ Len(m) \in Nat
        /\ \A i \in 1 .. Len(f) : g[i] = f[i]
        /\ \A i \in 1 .. Len(m) : g[Len(f) + i] = m[i]
    BY Concat
  <1>2. Len(y) = l /\ \A i \in 1 .. l : y[i] = m[i]
    <2>1. 0 \in Nat /\ l \in Nat /\ 0 <= l /\ l <= Len(m)
      BY <1>1
    <2>2. /\ Len(SubSeq(m, 0 + 1, l)) = l - 0
          /\ \A i \in 1 .. l - 0 : SubSeq(m, 0 + 1, l)[i] = m[0 + i]
      BY <2>1, PieceOf
    <2>3. 0 + 1 = 1 /\ l - 0 = l /\ \A i \in 1 .. l : 0 + i = i
      BY <2>1
    <2> QED BY <2>2, <2>3
  <1>3. IsState(x) /\ \A p \in 0 .. Width - 1 :
          x[p] = IF p < t THEN Xor(b[p], f[base + p + 1]) ELSE b[p]
    BY MixedState
  <1>4. IsState(left) /\ \A p \in 0 .. Width - 1 :
          left[p] = IF p - t \in 0 .. Len(y) - 1 THEN Xor(x[p], y[p - t + 1]) ELSE x[p]
    <2> HIDE DEF x, y
    <2> QED BY SMTT(30), <1>3, XorBytes
  <1>5. IsState(right) /\ \A p \in 0 .. Width - 1 :
          right[p] = IF p < e THEN Xor(b[p], g[base + p + 1]) ELSE b[p]
    <2> HIDE DEF e, g
    <2> QED BY DEF Mixed, IsState
  <1> HIDE DEF g, y, x, left, right
  <1>6. ASSUME NEW p \in 0 .. Width - 1 PROVE left[p] = right[p]
    <2>0. p \in Nat /\ l \in Nat
      BY RateIs, <1>1
    <2>1. CASE p < t
      <3>1. ~(p - t \in 0 .. Len(y) - 1) /\ p < e /\ base + p + 1 \in 1 .. Len(f)
        BY <2>0, <2>1, <1>1, <1>2
      <3> HIDE DEF e
      <3> QED BY <2>1, <3>1, <1>1, <1>3, <1>4, <1>5
    <2>2. CASE t <= p /\ p < e
      <3> DEFINE u == p - t + 1
      <3>1. /\ p - t \in 0 .. Len(y) - 1 /\ ~(p < t) /\ u \in 1 .. l
            /\ u \in 1 .. Len(m)
        BY SMTT(30), <2>0, <2>2, <1>1, <1>2
      <3>2. base + p + 1 = Len(f) + u
        <4>1. Len(f) \in Nat
          BY <1>1
        <4> QED BY <2>0, <4>1
      <3>3. y[u] = g[base + p + 1]
        <4> HIDE DEF u
        <4>1. g[Len(f) + u] = m[u]
          BY <3>1, <1>1
        <4>2. y[u] = m[u]
          BY <3>1, <1>2
        <4> QED BY <3>2, <4>1, <4>2
      <3> HIDE DEF e
      <3> QED BY <2>2, <3>1, <3>3, <1>3, <1>4, <1>5
    <2>3. CASE e <= p
      <3>1. ~(p - t \in 0 .. Len(y) - 1) /\ ~(p < t) /\ ~(p < e)
        BY <2>0, <2>3, <1>1, <1>2
      <3> HIDE DEF e
      <3> QED BY <3>1, <1>3, <1>4, <1>5
    <2> QED BY <2>0, <2>1, <2>2, <2>3, <1>1
  <1>7. left = right
    BY <1>4, <1>5, <1>6, StatesEqual
  <1> QED BY <1>7 DEF left, right, x, y, g

(* The rounds of an absorb call are blocks of the whole message.           *)
LEMMA AbsorbRounds ==
    ASSUME NEW S, NEW f \in Seq(S), NEW m \in Seq(S), NEW k \in Nat, NEW t \in Nat,
           Off(k) + t = Len(f), t < Rate, NEW n \in Nat, Off(n) <= t + Len(m)
    PROVE  \A i \in 1 .. n :
             Rounds(Mixed(BlockState(f, k), f, Off(k), t), Pieces(m, t, n), i)
               = BlockState(f \o m, k + i)
  <1> DEFINE g == f \o m
             s == Mixed(BlockState(f, k), f, Off(k), t)
             P == Pieces(m, t, n)
             T == {i \in Nat : i + 1 \in 1 .. n => Rounds(s, P, i + 1) = BlockState(g, k + (i + 1))}
  <1>1. /\ g \in Seq(S) /\ Len(f) \in Nat /\ Len(m) \in Nat /\ Len(g) = Len(f) + Len(m)
        /\ \A i \in 1 .. Len(f) : g[i] = f[i]
    BY Concat
  <1>2. Off(k) \in Nat /\ BlockState(g, k) = BlockState(f, k) /\ IsState(BlockState(f, k))
    <2>1. Off(k) <= Len(f) /\ Len(f) <= Len(g) /\ Off(k) \in Nat
      <3>1. Off(k) \in Nat
        BY Offs
      <3> HIDE DEF g
      <3> QED BY <3>1, <1>1
    <2> HIDE DEF g
    <2> QED BY <2>1, <1>1, BlockPrefix, BlockStates
  <1>3. ASSUME NEW i \in 1 .. n
        PROVE  /\ Off(i) \in Nat /\ Off(i) >= Rate /\ Off(i) <= Off(n)
               /\ Off(k + i) = Off(k) + Off(i) /\ Off(k + i) <= Len(g)
    <2>1. i \in Nat /\ (i = n \/ i < n) /\ 0 < i /\ 0 \in Nat
      OBVIOUS
    <2>2. Off(0) = 0 /\ Off(i) \in Nat /\ Off(n) \in Nat
      BY <2>1, Offs
    <2>3. Off(0) + Rate <= Off(i) /\ (i < n => Off(i) + Rate <= Off(n))
      BY <2>1, OffGrows
    <2>4. Off(k + i) = Off(k) + Off(i)
      BY <2>1, OffAdds
    <2> QED BY SMTT(30), <2>1, <2>2, <2>3, <2>4, <1>1, <1>2, RateIs
  <1> HIDE DEF g
  <1>4. 0 \in T
    <2> SUFFICES ASSUME 1 \in 1 .. n PROVE Rounds(s, P, 1) = BlockState(g, k + 1)
      OBVIOUS
    <2>1. P[1] = [m |-> Take(m, Rate - t), offset |-> t]
      BY DEF Pieces
    <2>2. Rounds(s, P, 1) = Round(s, P[1])
      <3>1. Rounds(s, P, 0) = s /\ Rounds(s, P, 0 + 1) = Round(Rounds(s, P, 0), P[0 + 1])
        BY RoundsUnfold
      <3> QED BY <3>1
    <2>3. keccak_state_xor_bytes(s, SubSeq(m, 1, Rate - t), t)
            = Mixed(BlockState(f, k), g, Off(k), t + (Rate - t))
      <3>1. Rate - t \in 0 .. Len(m)
        <4>1. 1 \in 1 .. n
          OBVIOUS
        <4>2. Off(1) = Rate /\ Off(1) <= Off(n) /\ Off(n) \in Nat
          BY <4>1, <1>3, OffOne, Offs
        <4>3. Len(m) \in Nat
          BY <1>1
        <4> HIDE DEF s, P, T
        <4> QED BY <4>2, <4>3, RateIs
      <3> QED BY <3>1, <1>2, MixedOn DEF g
    <2>4. t + (Rate - t) = Rate
      BY RateIs
    <2>5. BlockState(g, k + 1) = Permute(Mixed(BlockState(g, k), g, Off(k), Rate))
      BY <1>1, <1>3, BlockStep
    <2> QED BY <2>1, <2>2, <2>3, <2>4, <2>5, <1>2 DEF Round, Take
  <1>5. ASSUME NEW i \in Nat, i \in T PROVE i + 1 \in T
    <2> DEFINE j == i + 1
               h == j + 1
               b == BlockState(g, k + j)
               from == Off(j) - t
    <2> SUFFICES ASSUME h \in 1 .. n PROVE Rounds(s, P, h) = BlockState(g, k + h)
      OBVIOUS
    <2>1. j \in Nat /\ j \in 1 .. n /\ h \in Nat /\ h # 1 /\ h - 1 = j
          /\ k + j \in Nat /\ k + h = (k + j) + 1
      OBVIOUS
    <2>2. Rounds(s, P, j) = b
      BY <1>5, <2>1
    <2>3. /\ Off(j) \in Nat /\ Off(j) >= Rate /\ Off(h) = Off(j) + Rate
          /\ Off(k + j) = Off(k) + Off(j) /\ Off(h) <= t + Len(m)
          /\ Off((k + j) + 1) <= Len(g)
      <3>1. Off(h) <= Off(n) /\ Off(n) \in Nat /\ Off(h) \in Nat /\ Off(k + h) <= Len(g)
        BY <1>3, Offs
      <3>2. Off(j) \in Nat /\ Off(j) >= Rate /\ Off(k + j) = Off(k) + Off(j)
        BY <2>1, <1>3
      <3>3. Off(h) = Off(j) + Rate
        BY <2>1, Offs
      <3>4. Off(h) <= t + Len(m)
        <4> HIDE DEF h
        <4> QED BY <3>1, <1>1
      <3> HIDE DEF h, j
      <3> QED BY <3>1, <3>2, <3>3, <3>4, <2>1
    <2>4. P[h] = [m |-> SubSeq(m, Off(j) - t + 1, Off(h) - t), offset |-> 0]
      <3>1. P[h] = [m |-> SubSeq(m, Off(h - 1) - t + 1, Off(h) - t), offset |-> 0]
        BY <2>1 DEF Pieces, Off
      <3> QED BY <3>1, <2>1
    <2>5. from \in Nat /\ from + Rate <= Len(m) /\ Off(h) - t = from + Rate
          /\ from + Rate \in Nat /\ (from + Rate) - from = Rate /\ Len(f) + from = Off(k + j)
      <3> HIDE DEF h, j
      <3>1. Off(j) \in Nat /\ Off(j) >= Rate /\ Off(h) = Off(j) + Rate /\ Off(h) <= t + Len(m)
        BY <2>3
      <3>2. Off(k + j) = Off(k) + Off(j) /\ Len(m) \in Nat /\ Off(k) \in Nat /\ Len(f) = Off(k) + t
        BY <2>3, <1>1, <1>2
      <3>3. Rate \in Nat /\ t \in Nat /\ t < Rate
        BY RateIs
      <3> HIDE DEF T, P, s, b
      <3>4. from \in Nat /\ Off(h) - t = from + Rate
        BY <3>1, <3>3
      <3>5. Len(f) + from = Off(k + j)
        BY SMTT(30), <3>1, <3>2, <3>3
      <3>6. from + Rate <= Len(m)
        BY SMTT(30), <3>1, <3>2, <3>3
      <3> HIDE DEF from
      <3> QED BY SMTT(30), <3>3, <3>4, <3>5, <3>6
    <2>6. IsState(b)
      BY <2>1, BlockStates
    <2>7. Rounds(s, P, h) = Round(b, P[h])
      <3>1. Rounds(s, P, j + 1) = Round(Rounds(s, P, j), P[j + 1])
        <4>1. j \in Nat
          BY <2>1
        <4> HIDE DEF s, P, j, h, b, from, T
        <4> QED BY <4>1, RoundsOn, Zenon
      <3> QED BY <3>1, <2>2
    <2>8. BlockState(g, (k + j) + 1) = Permute(Mixed(b, g, Off(k + j), Rate))
      BY <1>1, <2>1, <2>3, BlockStep
    <2> HIDE DEF P, s, h, j, b, from
    <2>9. keccak_state_xor_bytes(b, SubSeq(m, from + 1, from + Rate), 0)
            = Mixed(b, m, from, (from + Rate) - from)
      BY <2>5, <2>6, XorPart, RateIs
    <2>10. Mixed(b, m, from, Rate) = Mixed(b, g, Len(f) + from, Rate)
      BY <2>5, MixedShift, RateIs DEF g
    <2>11. P[h] = [m |-> SubSeq(m, from + 1, from + Rate), offset |-> 0]
      BY <2>4, <2>5 DEF from
    <2>12. Round(b, P[h]) = Permute(Mixed(b, g, Off(k + j), Rate))
      BY <2>5, <2>9, <2>10, <2>11 DEF Round
    <2> QED BY <2>1, <2>7, <2>8, <2>12
  <1> HIDE DEF T
  <1>6. \A i \in Nat : i \in T
    BY <1>4, <1>5, SetInduction
  <1>7. ASSUME NEW i \in 1 .. n PROVE Rounds(s, P, i) = BlockState(g, k + i)
    <2>1. i - 1 \in Nat /\ (i - 1) + 1 = i
      OBVIOUS
    <2> QED BY <2>1, <1>6 DEF T
  <1> QED BY <1>7 DEF g

(* Absorbing m after f is absorbing both at once (keccak_inc_absorb).      *)
LEMMA AbsorbHeld ==
    ASSUME NEW S, NEW f \in Seq(S), NEW m \in Seq(S)
    PROVE  keccak_inc_absorb(Held(f), m) = Held(f \o m)
  <1> DEFINE g == f \o m
             k == Len(f) \div Rate
             t == Len(f) - Off(k)
             c == Held(f)
             n == (Len(m) + t) \div Rate
             b == BlockState(f, k)
  <1>1. /\ g \in Seq(S) /\ Len(f) \in Nat /\ Len(m) \in Nat /\ Len(g) = Len(f) + Len(m)
        /\ \A i \in 1 .. Len(f) : g[i] = f[i]
    BY Concat
  <1>2. k \in Nat /\ Off(k) \in Nat /\ Off(k) <= Len(f) /\ Len(f) < Off(k) + Rate
    BY <1>1, DivRem, Offs
  <1> HIDE DEF k
  <1>3. t \in Nat /\ t < Rate /\ Off(k) + t = Len(f)
    BY <1>1, <1>2, RateIs
  <1>4. c = [s |-> Mixed(b, f, Off(k), t), n |-> t]
    BY <1>2, HeldIs
  <1> HIDE DEF c, t
  <1>5. n \in Nat /\ Off(n) \in Nat /\ Off(n) <= Len(m) + t /\ Len(m) + t < Off(n) + Rate
    <2> DEFINE x == Len(m) + t
    <2>1. x \in Nat
      BY <1>1, <1>3
    <2> HIDE DEF x
    <2>2. x \div Rate \in Nat /\ Off(x \div Rate) <= x /\ x < Off(x \div Rate) + Rate
          /\ Off(x \div Rate) \in Nat
      BY <2>1, DivRem, Offs
    <2> QED BY <2>2 DEF x
  <1> HIDE DEF n
  <1>6. /\ k + n \in Nat /\ Off(k + n) = Off(k) + Off(n)
        /\ Off(k + n) <= Len(g) /\ Len(g) < Off(k + n) + Rate
    <2>1. k + n \in Nat /\ Off(k + n) = Off(k) + Off(n)
      BY <1>2, <1>5, OffAdds
    <2> HIDE DEF g
    <2> QED BY SMTT(30), <2>1, <1>1, <1>2, <1>3, <1>5, RateIs
  <1> DEFINE B == BlockState(g, k + n)
             l == Len(g) - Off(k + n)
  <1>7. Held(g) = [s |-> Mixed(B, g, Off(k + n), l), n |-> l]
    BY <1>1, <1>6, HeldIs
  <1>8. l = Len(m) + t - Off(n)
    <2>1. Len(g) = Len(f) + Len(m) /\ Len(f) \in Nat /\ Len(m) \in Nat
      BY <1>1
    <2>2. Off(k) \in Nat /\ Off(n) \in Nat /\ t \in Nat /\ Off(k) + t = Len(f)
      BY <1>2, <1>3, <1>5
    <2>3. Off(k + n) = Off(k) + Off(n)
      BY <1>6
    <2> DEFINE F == Len(f)
               M == Len(m)
               G == Len(g)
               I == Off(k)
               J == Off(n)
               x == Off(k + n)
    <2>4. /\ G = F + M /\ F \in Nat /\ M \in Nat /\ I \in Nat /\ J \in Nat /\ t \in Nat
          /\ I + t = F /\ x = I + J
      BY <2>1, <2>2, <2>3
    <2> HIDE DEF F, M, G, I, J, x
    <2>5. G - x = M + t - J
      BY <2>4
    <2> QED BY <2>5 DEF G, x, M, J
  <1>9. CASE n = 0
    <2>1. k + n = k /\ Off(n) = 0 /\ l = t + Len(m)
      BY <1>2, <1>3, <1>1, <1>8, <1>9, Offs
    <2>2. BlockState(g, k) = b /\ IsState(b)
      <3>1. Len(f) <= Len(g)
        BY <1>1
      <3> HIDE DEF g
      <3> QED BY <3>1, <1>1, <1>2, BlockPrefix, BlockStates
    <2>3. keccak_state_xor_bytes(c.s, m, t) = Mixed(b, g, Off(k), t + Len(m))
      <3>1. SubSeq(m, 1, Len(m)) = m
        BY SubSeqFull
      <3>2. Len(m) \in 0 .. Len(m)
        BY <1>1
      <3>3. keccak_state_xor_bytes(Mixed(b, f, Off(k), t), SubSeq(m, 1, Len(m)), t)
              = Mixed(b, g, Off(k), t + Len(m))
        BY <2>2, <3>2, <1>2, <1>3, MixedOn
      <3> QED BY <3>1, <3>3, <1>4
    <2>4. keccak_inc_absorb(c, m) = [s |-> keccak_state_xor_bytes(c.s, m, t), n |-> t + Len(m)]
      BY <1>4, <1>9 DEF keccak_inc_absorb, n
    <2> HIDE DEF g, l
    <2> QED BY <2>1, <2>2, <2>3, <2>4, <1>7 DEF c, g
  <1>10. CASE n # 0
    <2> DEFINE s == Rounds(c.s, Pieces(m, t, n), n)
               from == Off(n) - t
    <2>1. s = B
      <3>1. n \in 1 .. n
        BY <1>5, <1>10
      <3>2. \A i \in 1 .. n : Rounds(Mixed(b, f, Off(k), t), Pieces(m, t, n), i)
                                = BlockState(g, k + i)
        BY <1>1, <1>2, <1>3, <1>5, AbsorbRounds
      <3> QED BY <3>1, <3>2, <1>4
    <2>2. keccak_inc_absorb(c, m) =
            [s |-> keccak_state_xor_bytes(s, Drop(m, Off(n) - t), 0), n |-> Len(m) + t - Off(n)]
      BY <1>4, <1>10 DEF keccak_inc_absorb, n, Off
    <2>3. from \in Nat /\ from <= Len(m) /\ Len(m) - from = l /\ Len(f) + from = Off(k + n)
          /\ l \in Nat /\ from + l <= Len(m)
      <3>1. 0 < n /\ 0 \in Nat
        BY <1>5, <1>10
      <3>2. Off(0) + Rate <= Off(n) /\ Off(0) = 0
        BY <3>1, <1>5, OffGrows, Offs
      <3>3. l \in Nat
        <4> HIDE DEF g
        <4> QED BY <1>1, <1>6, <1>2, <1>5
      <3> HIDE DEF l, g
      <3>4. Len(f) \in Nat /\ Len(m) \in Nat /\ Off(k) \in Nat /\ Off(n) \in Nat /\ t \in Nat
            /\ Off(k) + t = Len(f) /\ t < Rate /\ Off(n) <= Len(m) + t
        BY <1>1, <1>2, <1>3, <1>5
      <3>5. Off(k + n) = Off(k) + Off(n) /\ Off(n) >= Rate
        BY <3>2, <1>6, RateIs
      <3> QED BY SMTT(30), <3>3, <3>4, <3>5, <1>8, RateIs
    <2>4. IsState(B)
      BY <1>6, BlockStates
    <2> HIDE DEF s, from, B, l
    <2>5. keccak_state_xor_bytes(B, SubSeq(m, from + 1, Len(m)), 0) = Mixed(B, m, from, Len(m) - from)
      BY <2>3, <2>4, <1>1, XorPart
    <2>6. Mixed(B, m, from, l) = Mixed(B, g, Len(f) + from, l)
      BY <2>3, MixedShift
    <2>7. keccak_inc_absorb(c, m) = [s |-> Mixed(B, g, Off(k + n), l), n |-> l]
      BY <2>1, <2>2, <2>3, <2>5, <2>6, <1>8 DEF Drop, from
    <2> QED BY <2>7, <1>7 DEF c
  <1> QED BY <1>9, <1>10

LEMMA HeldNothing == Held(<<>>) = keccak_inc_init
  <1>1. <<>> \in Seq({}) /\ Len(<<>>) = 0
    BY EmptySeq
  <1>2. 0 \in Nat /\ Off(0) = 0
    BY Offs
  <1>3. Held(<<>>) = [s |-> Mixed(BlockState(<<>>, 0), <<>>, Off(0), 0 - Off(0)), n |-> 0 - Off(0)]
    <2> DEFINE m == <<>>
    <2>1. m \in Seq({}) /\ Len(m) = 0 /\ Off(0) <= Len(m) /\ Len(m) < Off(0) + Rate
      BY <1>1, <1>2, RateIs
    <2> HIDE DEF m
    <2>2. Held(m) = [s |-> Mixed(BlockState(m, 0), m, Off(0), Len(m) - Off(0)), n |-> Len(m) - Off(0)]
      BY <1>2, <2>1, HeldIs
    <2> QED BY <2>1, <2>2 DEF m
  <1>4. 0 - Off(0) = 0 /\ BlockState(<<>>, 0) = Zeroed
    BY <1>2, BlockStates
  <1>5. Mixed(Zeroed, <<>>, 0, 0) = Zeroed
    BY RateIs DEF Mixed, Zeroed
  <1> QED BY <1>2, <1>3, <1>4, <1>5 DEF keccak_inc_init


-----------------------------------------------------------------------------
(* The state after n permutations.                                         *)
LEMMA PermutedIs ==
    ASSUME NEW s, IsState(s)
    PROVE  /\ Permuted(s, 0) = s
           /\ \A n \in Nat : /\ IsState(Permuted(s, n))
                             /\ Permuted(s, n + 1) = Permute(Permuted(s, n))
  <1>1. Permuted(s, 0) = s
    BY RoundsUnfold DEF Permuted
  <1>2. ASSUME NEW n \in Nat PROVE IsState(Permuted(s, n))
    BY RoundsState DEF Permuted
  <1>3. ASSUME NEW n \in Nat PROVE Permuted(s, n + 1) = Permute(Permuted(s, n))
    <2> DEFINE j == n + 1
               x == Permuted(s, n)
    <2>1. Permuted(s, j) = Round(Rounds(s, Nothing(j), n), Nothing(j)[j])
      BY RoundsUnfold DEF Permuted
    <2>2. Rounds(s, Nothing(j), n) = x
      <3>1. \A i \in 1 .. n : Nothing(j)[i] = Nothing(n)[i]
        BY DEF Nothing
      <3> QED BY <3>1, RoundsSame DEF Permuted
    <2>3. Nothing(j)[j] = [m |-> <<>>, offset |-> 0]
      BY DEF Nothing
    <2>4. IsState(x)
      BY <1>2
    <2> HIDE DEF j, x
    <2>5. keccak_state_xor_bytes(x, <<>>, 0) = x
      <3> DEFINE y == keccak_state_xor_bytes(x, <<>>, 0)
      <3>1. IsState(y) /\ \A p \in 0 .. Width - 1 :
              y[p] = IF p - 0 \in 0 .. Len(<<>>) - 1 THEN Xor(x[p], <<>>[p - 0 + 1]) ELSE x[p]
        BY <2>4, XorBytes
      <3>2. Len(<<>>) = 0
        BY EmptySeq
      <3>3. \A p \in 0 .. Width - 1 : ~(p - 0 \in 0 .. Len(<<>>) - 1)
        BY <3>2, RateIs
      <3> HIDE DEF y
      <3>4. y = x
        BY <3>1, <3>3, <2>4, StatesEqual
      <3> QED BY <3>4 DEF y
    <2> QED BY <2>1, <2>2, <2>3, <2>5 DEF Round, j, x
  <1> QED BY <1>1, <1>2, <1>3

LEMMA PermutedAdds ==
    ASSUME NEW s, IsState(s), NEW a \in Nat
    PROVE  \A b \in Nat : Permuted(Permuted(s, a), b) = Permuted(s, a + b)
  <1> DEFINE x == Permuted(s, a)
             T == {b \in Nat : Permuted(x, b) = Permuted(s, a + b)}
  <1>1. IsState(x)
    BY PermutedIs
  <1>2. 0 \in T
    BY <1>1, PermutedIs
  <1>3. ASSUME NEW b \in Nat, b \in T PROVE b + 1 \in T
    <2> DEFINE c == a + b
    <2>1. c \in Nat /\ a + (b + 1) = c + 1 /\ b + 1 \in Nat
      OBVIOUS
    <2>2. Permuted(x, b) = Permuted(s, c)
      BY <1>3
    <2> HIDE DEF x, c
    <2>3. Permuted(x, b + 1) = Permute(Permuted(x, b)) /\ Permuted(s, c + 1) = Permute(Permuted(s, c))
      BY <1>1, <2>1, PermutedIs
    <2> QED BY <2>1, <2>2, <2>3
  <1> HIDE DEF T
  <1>4. \A b \in Nat : b \in T
    BY <1>2, <1>3, SetInduction
  <1> QED BY <1>4 DEF T

-----------------------------------------------------------------------------
(* The output as one stream: byte i of what a finalized state gives, and   *)
(* the n bytes after the first d.                                          *)
Stream(s, i) == Permuted(s, ((i - 1) \div Rate) + 1)[(i - 1) % Rate]
Out(s, d, n) == [j \in 1 .. n |-> Stream(s, d + j)]

LEMMA StreamAt ==
    ASSUME NEW s, NEW k \in Nat, NEW j \in 1 .. Rate
    PROVE  Stream(s, Off(k) + j) = Permuted(s, k + 1)[j - 1]
  <1> DEFINE i == Off(k) + j
             n == i - 1
  <1>1. Off(k) \in Nat /\ j \in Nat
    BY Offs, RateIs
  <1>2. n \in Nat /\ Off(k) <= n /\ n < Off(k) + Rate /\ n - Off(k) = j - 1
    BY <1>1, RateIs
  <1>3. Stream(s, i) = Permuted(s, (n \div Rate) + 1)[n % Rate]
    BY DEF Stream
  <1> HIDE DEF n, i
  <1>4. n \div Rate = k /\ n % Rate = n - Off(k)
    BY <1>2, DivIs
  <1>5. Stream(s, i) = Permuted(s, k + 1)[j - 1]
    BY <1>2, <1>3, <1>4
  <1> QED BY <1>5 DEF i

StreamBytes(s, d, n) == {Stream(s, d + j) : j \in 1 .. n}

LEMMA OutSeq ==
    ASSUME NEW s, NEW d \in Nat, NEW n \in Nat
    PROVE  /\ Out(s, d, n) \in Seq(StreamBytes(s, d, n))
           /\ Len(Out(s, d, n)) = n
           /\ \A j \in 1 .. n : Out(s, d, n)[j] = Stream(s, d + j)
  <1> DEFINE S == StreamBytes(s, d, n)
             x == Out(s, d, n)
  <1>1. x \in [1 .. n -> S] /\ \A j \in 1 .. n : x[j] = Stream(s, d + j)
    BY DEF Out, StreamBytes
  <1> HIDE DEF S, x
  <1>2. x \in Seq(S) /\ Len(x) = n
    BY <1>1
  <1> QED BY <1>1, <1>2 DEF S, x

LEMMA OutNone ==
    ASSUME NEW s, NEW d
    PROVE  Out(s, d, 0) = <<>>
  BY DEF Out

LEMMA OutJoins ==
    ASSUME NEW s, NEW d \in Nat, NEW a \in Nat, NEW b \in Nat
    PROVE  Out(s, d, a) \o Out(s, d + a, b) = Out(s, d, a + b)
  <1> DEFINE e == d + a
             c == a + b
             x == Out(s, d, a)
             y == Out(s, e, b)
             z == Out(s, d, c)
             X == StreamBytes(s, d, a)
             Y == StreamBytes(s, e, b)
             Z == StreamBytes(s, d, c)
             S == X \union Y \union Z
  <1>1. c \in Nat /\ e \in Nat
    OBVIOUS
  <1> HIDE DEF c, e
  <1>2. x \in Seq(X) /\ Len(x) = a /\ \A j \in 1 .. a : x[j] = Stream(s, d + j)
    BY OutSeq
  <1>3. y \in Seq(Y) /\ Len(y) = b /\ \A j \in 1 .. b : y[j] = Stream(s, e + j)
    BY <1>1, OutSeq
  <1>4. z \in Seq(Z) /\ Len(z) = c /\ \A j \in 1 .. c : z[j] = Stream(s, d + j)
    BY <1>1, OutSeq
  <1>5. X \subseteq S /\ Y \subseteq S /\ Z \subseteq S
    <2> HIDE DEF X, Y, Z
    <2> QED OBVIOUS
  <1> HIDE DEF x, y, z, X, Y, Z, S
  <1>6. x \in Seq(S) /\ y \in Seq(S) /\ z \in Seq(S)
    BY <1>2, <1>3, <1>4, <1>5, SeqMonotonic
  <1> DEFINE w == x \o y
  <1>7. w \in Seq(S) /\ Len(w) = a + b
        /\ \A i \in 1 .. a + b : w[i] = IF i <= a THEN x[i] ELSE y[i - a]
    BY ZenonT(30), <1>2, <1>3, <1>6, ConcatProperties
  <1> HIDE DEF w
  <1>8. ASSUME NEW i \in 1 .. a + b PROVE w[i] = z[i]
    <2>1. i \in 1 .. c
      BY DEF c
    <2>2. CASE i <= a
      <3>1. i \in 1 .. a
        BY <2>2
      <3> QED BY <3>1, <2>1, <2>2, <1>2, <1>4, <1>7
    <2>3. CASE ~(i <= a)
      <3>1. i - a \in 1 .. b /\ e + (i - a) = d + i
        BY <2>3 DEF e
      <3> QED BY <3>1, <2>1, <2>3, <1>3, <1>4, <1>7
    <2> QED BY <2>2, <2>3
  <1>9. w = z
    <2>1. Len(w) = Len(z) /\ \A i \in 1 .. Len(w) : w[i] = z[i]
      BY <1>4, <1>7, <1>8 DEF c
    <2> QED BY <1>6, <1>7, <2>1, SeqEqual
  <1> QED BY <1>9 DEF w, x, y, z, e, c

LEMMA OutGrows ==
    ASSUME NEW s, NEW d \in Nat, NEW n \in Nat
    PROVE  Out(s, 0, d) \o Out(s, d, n) = Out(s, 0, d + n)
  <1> DEFINE z == 0
  <1>1. z \in Nat /\ z + d = d
    OBVIOUS
  <1> HIDE DEF z
  <1>2. Out(s, z, d) \o Out(s, z + d, n) = Out(s, z, d + n)
    BY <1>1, OutJoins
  <1> QED BY <1>1, <1>2 DEF z

(* The stream of a state permuted before.                                  *)
LEMMA OutLater ==
    ASSUME NEW s, IsState(s), NEW b \in Nat, NEW n \in Nat
    PROVE  Out(Permuted(s, b), 0, n) = Out(s, Off(b), n)
  <1> SUFFICES ASSUME NEW j \in 1 .. n
               PROVE  Stream(Permuted(s, b), 0 + j) = Stream(s, Off(b) + j)
    BY DEF Out
  <1> DEFINE i == j - 1
             k == i \div Rate
             r == j - Off(k)
             x == Permuted(s, b)
  <1>1. i \in Nat
    OBVIOUS
  <1>2. k \in Nat /\ Off(k) <= i /\ i < Off(k) + Rate /\ Off(k) \in Nat
    <2> HIDE DEF i
    <2> QED BY <1>1, DivRem, Offs
  <1> HIDE DEF k
  <1>3. r \in 1 .. Rate /\ j = Off(k) + r
    BY <1>2, RateIs
  <1> HIDE DEF r, i
  <1>4. Stream(x, Off(k) + r) = Permuted(x, k + 1)[r - 1]
    <2> HIDE DEF x
    <2> QED BY <1>2, <1>3, StreamAt
  <1>5. k + 1 \in Nat /\ b + k \in Nat /\ b + (k + 1) = (b + k) + 1
    BY <1>2
  <1>6. Permuted(x, k + 1) = Permuted(s, (b + k) + 1)
    BY <1>5, PermutedAdds
  <1>7. Stream(s, Off(b + k) + r) = Permuted(s, (b + k) + 1)[r - 1]
    BY <1>3, <1>5, StreamAt
  <1>8. Off(b + k) = Off(b) + Off(k) /\ Off(b) \in Nat
    BY <1>2, OffAdds, Offs
  <1>9. Off(b + k) + r = Off(b) + j /\ 0 + j = Off(k) + r
    BY <1>2, <1>3, <1>8, RateIs
  <1> QED BY <1>4, <1>6, <1>7, <1>9

(* The bytes of one block.                                                 *)
LEMMA ExtractIs ==
    ASSUME NEW s, NEW k \in Nat, NEW from \in Nat, NEW n \in Nat, from + n <= Rate
    PROVE  keccak_state_extract_bytes(Permuted(s, k + 1), from, n) = Out(s, Off(k) + from, n)
  <1> SUFFICES ASSUME NEW i \in 1 .. n
               PROVE  Permuted(s, k + 1)[from + i - 1] = Stream(s, (Off(k) + from) + i)
    BY DEF keccak_state_extract_bytes, Out
  <1> DEFINE j == from + i
  <1>1. j \in 1 .. Rate /\ (Off(k) + from) + i = Off(k) + j /\ from + i - 1 = j - 1
    BY Offs, RateIs
  <1> HIDE DEF j
  <1>2. Stream(s, Off(k) + j) = Permuted(s, k + 1)[j - 1]
    BY <1>1, StreamAt
  <1> QED BY <1>1, <1>2


-----------------------------------------------------------------------------
(* The squeeze loops give the bytes of the stream in order: out[k] in      *)
(* Squeezed is what the first k blocks hold of the n bytes.                *)
IsOut(o, s, n) ==
    o = [k \in 0 .. BlocksOf(n) |->
            IF k = 0 THEN <<>>
            ELSE LET left == n - (k - 1) * Rate
                     i    == IF left < Rate THEN left ELSE Rate
                 IN  o[k - 1] \o keccak_state_extract_bytes(Permuted(s, k), 0, i)]

Upto(n, k) == IF Off(k) < n THEN Off(k) ELSE n

LEMMA UptoBlock ==
    ASSUME NEW n \in Nat, NEW k \in Nat, k + 1 <= BlocksOf(n),
           NEW i, i = IF n - Off(k) < Rate THEN n - Off(k) ELSE Rate
    PROVE  /\ i \in 0 .. Rate /\ Upto(n, k) = Off(k) /\ Upto(n, k + 1) = Off(k) + i
           /\ Upto(n, 0) = 0
  <1> DEFINE b == BlocksOf(n)
             j == k + 1
  <1>1. b \in Nat /\ n <= Off(b) /\ Off(b) < n + Rate /\ Off(b) \in Nat
    BY Blocks, Offs
  <1>2. Off(k) \in Nat /\ Off(j) = Off(k) + Rate /\ Off(0) = 0
    BY Offs
  <1>3. j \in Nat /\ j <= b /\ (j < b => Off(j) + Rate <= Off(b))
    BY <1>1, OffGrows
  <1> HIDE DEF b, j
  <1>4. Off(j) <= Off(b)
    <2>1. CASE j = b
      BY <2>1, <1>1
    <2>2. CASE j < b
      BY <2>2, <1>1, <1>2, <1>3, RateIs
    <2> QED BY <2>1, <2>2, <1>1, <1>3
  <1>5. Off(k) < n
    BY <1>1, <1>2, <1>4, RateIs
  <1>6. i \in 0 .. Rate
    BY <1>2, <1>5, RateIs
  <1>7. Upto(n, k) = Off(k) /\ Upto(n, 0) = 0
    BY <1>2, <1>5 DEF Upto
  <1>8. Upto(n, j) = Off(k) + i
    BY <1>2, <1>5, RateIs DEF Upto
  <1> QED BY <1>6, <1>7, <1>8 DEF j

LEMMA OutExists ==
    ASSUME NEW s, NEW n \in Nat
    PROVE  IsOut([k \in 0 .. BlocksOf(n) |-> Out(s, 0, Upto(n, k))], s, n)
  <1> DEFINE b == BlocksOf(n)
             w == [k \in 0 .. b |-> Out(s, 0, Upto(n, k))]
  <1>1. b \in Nat
    BY Blocks
  <1>2. ASSUME NEW k \in 0 .. b
        PROVE  w[k] = IF k = 0 THEN <<>>
                      ELSE LET left == n - (k - 1) * Rate
                               i    == IF left < Rate THEN left ELSE Rate
                           IN  w[k - 1] \o keccak_state_extract_bytes(Permuted(s, k), 0, i)
    <2>1. ASSUME k = 0 PROVE w[k] = <<>>
      <3>1. Off(0) = 0
        BY Offs
      <3>2. Upto(n, 0) = 0
        BY <3>1 DEF Upto
      <3>3. w[0] = Out(s, 0, 0)
        BY <3>2, <1>1
      <3> QED BY <3>3, <2>1, OutNone
    <2>2. ASSUME k # 0
          PROVE  w[k] = w[k - 1] \o keccak_state_extract_bytes(Permuted(s, k), 0,
                                      IF n - (k - 1) * Rate < Rate THEN n - (k - 1) * Rate ELSE Rate)
      <3> DEFINE h == k - 1
                 left == n - Off(h)
                 i == IF left < Rate THEN left ELSE Rate
                 d == Off(h)
      <3>1. h \in Nat /\ h + 1 = k /\ h \in 0 .. b /\ h + 1 <= b
        BY <2>2, <1>1
      <3>2. i \in 0 .. Rate /\ Upto(n, h) = d /\ Upto(n, h + 1) = d + i /\ d \in Nat
        <4> HIDE DEF h
        <4>1. i = IF n - Off(h) < Rate THEN n - Off(h) ELSE Rate
          OBVIOUS
        <4> HIDE DEF i
        <4> QED BY ZenonT(30), <3>1, <4>1, UptoBlock, Offs
      <3>3. i \in Nat /\ 0 + i <= Rate /\ d + 0 = d /\ 0 + d = d
        <4> HIDE DEF i, d
        <4> QED BY <3>2, RateIs
      <3>4. w[h] = Out(s, 0, d) /\ w[k] = Out(s, 0, d + i)
        <4> HIDE DEF i, d, h
        <4> QED BY <3>1, <3>2
      <3> HIDE DEF i, left, h, w
      <3>5. keccak_state_extract_bytes(Permuted(s, h + 1), 0, i) = Out(s, Off(h) + 0, i)
        BY <3>1, <3>3, ExtractIs
      <3>6. Out(s, 0, d) \o Out(s, d, i) = Out(s, 0, d + i)
        <4> HIDE DEF d
        <4> QED BY <3>2, <3>3, OutGrows
      <3>7. w[k] = w[h] \o keccak_state_extract_bytes(Permuted(s, k), 0, i)
        BY <3>1, <3>3, <3>4, <3>5, <3>6
      <3> QED BY <3>7 DEF i, left, h, Off
    <2> HIDE DEF w
    <2> QED BY <2>1, <2>2
  <1>3. w = [k \in 0 .. b |-> w[k]]
    OBVIOUS
  <1> HIDE DEF w
  <1>4. w = [k \in 0 .. b |->
            IF k = 0 THEN <<>>
            ELSE LET left == n - (k - 1) * Rate
                     i    == IF left < Rate THEN left ELSE Rate
                 IN  w[k - 1] \o keccak_state_extract_bytes(Permuted(s, k), 0, i)]
    BY <1>2, <1>3, Zenon
  <1>5. IsOut(w, s, n)
    BY <1>4 DEF IsOut
  <1> QED BY <1>5 DEF w

LEMMA OutUnique ==
    ASSUME NEW s, NEW n \in Nat, NEW o, NEW w, IsOut(o, s, n), IsOut(w, s, n)
    PROVE  \A k \in 0 .. BlocksOf(n) : o[k] = w[k]
  <1> DEFINE b == BlocksOf(n)
             Next(x, k) == x \o keccak_state_extract_bytes(Permuted(s, k), 0,
                               IF n - (k - 1) * Rate < Rate THEN n - (k - 1) * Rate ELSE Rate)
             T == {k \in Nat : k \in 0 .. b => o[k] = w[k]}
  <1>0. b \in Nat
    BY Blocks
  <1>1. \A k \in 0 .. b : o[k] = IF k = 0 THEN <<>> ELSE Next(o[k - 1], k)
    BY Zenon DEF IsOut
  <1>2. \A k \in 0 .. b : w[k] = IF k = 0 THEN <<>> ELSE Next(w[k - 1], k)
    BY Zenon DEF IsOut
  <1> HIDE DEF Next, b
  <1>3. 0 \in T
    BY <1>0, <1>1, <1>2
  <1>4. ASSUME NEW k \in Nat, k \in T PROVE k + 1 \in T
    <2>1. CASE k + 1 \in 0 .. b
      <3>1. k \in 0 .. b /\ k + 1 # 0 /\ (k + 1) - 1 = k
        BY <2>1, <1>0
      <3>2. o[k] = w[k] /\ o[k + 1] = Next(o[k], k + 1) /\ w[k + 1] = Next(w[k], k + 1)
        BY <3>1, <2>1, <1>1, <1>2, <1>4
      <3> QED BY <3>2
    <2> QED BY <2>1
  <1> HIDE DEF T
  <1>5. \A k \in Nat : k \in T
    BY <1>3, <1>4, SetInduction
  <1> QED BY <1>5 DEF T, b

LEMMA SqueezedIs ==
    ASSUME NEW s, NEW n \in Nat
    PROVE  Squeezed(s, n) = Out(s, 0, n)
  <1> DEFINE b == BlocksOf(n)
             w == [k \in 0 .. b |-> Out(s, 0, Upto(n, k))]
             o == CHOOSE o : IsOut(o, s, n)
  <1>1. IsOut(w, s, n)
    BY OutExists
  <1>2. IsOut(o, s, n)
    BY <1>1
  <1>3. Squeezed(s, n) = o[b]
    BY DEF Squeezed, IsOut
  <1>4. b \in Nat /\ n <= Off(b) /\ Off(b) \in Nat
    BY Blocks, Offs
  <1>5. o[b] = w[b]
    <2> HIDE DEF w, o
    <2>1. \A k \in 0 .. BlocksOf(n) : o[k] = w[k]
      BY <1>1, <1>2, OutUnique
    <2> QED BY <2>1, <1>4
  <1>6. Upto(n, b) = n
    BY <1>4 DEF Upto
  <1>7. w[b] = Out(s, 0, n)
    BY <1>4, <1>6
  <1> QED BY <1>3, <1>5, <1>7


-----------------------------------------------------------------------------
(* Between two squeeze calls, after d bytes: the state of the block they   *)
(* end in, and how much of it is left.                                     *)
Waiting(s, d) == [s |-> Permuted(s, BlocksOf(d)), n |-> Off(BlocksOf(d)) - d]

LEMMA WaitingNothing ==
    ASSUME NEW s, IsState(s)
    PROVE  Waiting(s, 0) = [s |-> s, n |-> 0]
  <1>1. Off(0) = 0 /\ BlocksOf(0) = 0
    BY Offs, BlocksIs, RateIs
  <1> QED BY <1>1, PermutedIs DEF Waiting

LEMMA KeptIs ==
    ASSUME NEW s, NEW d \in Nat, NEW i \in Nat, i <= Off(BlocksOf(d)) - d
    PROVE  keccak_state_extract_bytes(Permuted(s, BlocksOf(d)), Rate - (Off(BlocksOf(d)) - d), i)
             = Out(s, d, i)
  <1> DEFINE b == BlocksOf(d)
             left == Off(b) - d
  <1>1. b \in Nat /\ d <= Off(b) /\ Off(b) < d + Rate /\ Off(b) \in Nat /\ Off(0) = 0
    BY Blocks, Offs
  <1> HIDE DEF b
  <1>2. left \in 0 .. Rate - 1 /\ left <= d + left /\ i <= left
    BY <1>1, RateIs DEF b
  <1>3. CASE i = 0
    BY <1>3 DEF keccak_state_extract_bytes, Out
  <1>4. CASE i # 0
    <2> DEFINE a == b - 1
               from == Rate - left
    <2>1. b # 0
      BY <1>1, <1>2, <1>4
    <2>2. a \in Nat /\ a + 1 = b
      BY <2>1, <1>1
    <2>3. Off(a) \in Nat /\ Off(a + 1) = Off(a) + Rate
      <3> HIDE DEF a
      <3> QED BY <2>2, Offs
    <2> HIDE DEF a
    <2>4. from \in Nat /\ from + i <= Rate /\ Off(a) + from = d
      BY <1>1, <1>2, <2>2, <2>3, RateIs
    <2> HIDE DEF from, left
    <2>5. keccak_state_extract_bytes(Permuted(s, a + 1), from, i) = Out(s, Off(a) + from, i)
      BY <2>2, <2>4, ExtractIs
    <2> QED BY <2>2, <2>4, <2>5 DEF from, left, b
  <1> QED BY <1>3, <1>4

LEMMA SqueezeOnIs ==
    ASSUME NEW s, IsState(s), NEW b \in Nat, NEW n \in Nat \ {0}, NEW r \in Nat
    PROVE  SqueezeOn([s |-> Permuted(s, b), n |-> r], n) =
             [out |-> Out(s, Off(b), n), c |-> Waiting(s, Off(b) + n)]
  <1> DEFINE x == Permuted(s, b)
             k == BlocksOf(n)
             d == Off(b) + n
  <1>1. k \in Nat /\ n <= Off(k) /\ Off(k) < n + Rate /\ Off(k) \in Nat /\ n \in Nat
    BY Blocks, Offs
  <1>2. k # 0
    BY <1>1, Offs
  <1> HIDE DEF k
  <1>3. Squeezed(x, n) = Out(s, Off(b), n)
    <2>1. Squeezed(x, n) = Out(x, 0, n)
      BY <1>1, SqueezedIs
    <2> QED BY <1>1, <2>1, OutLater
  <1>4. BlocksOf(d) = b + k
    <2>0. k \in Nat
      BY <1>1
    <2>1. b + k \in Nat /\ Off(b + k) = Off(b) + Off(k) /\ Off(b) \in Nat
      <3>1. b + k \in Nat
        BY <2>0
      <3>2. Off(b + k) = Off(b) + Off(k)
        BY <2>0, OffAdds
      <3>3. Off(b) \in Nat
        BY Offs
      <3> QED BY <3>1, <3>2, <3>3
    <2>2. d \in Nat /\ d <= Off(b + k) /\ Off(b + k) < d + Rate
      BY <1>1, <2>1, RateIs
    <2> HIDE DEF d
    <2> QED BY <2>1, <2>2, BlocksIs
  <1>5. Permuted(x, k) = Permuted(s, b + k)
    BY <1>1, PermutedAdds
  <1>6. Rate - (n - (k - 1) * Rate) = Off(b + k) - d
    <2> DEFINE h == k - 1
    <2>1. h \in Nat /\ h + 1 = k
      BY <1>1, <1>2
    <2> HIDE DEF h
    <2>2. Off(k) = Off(h) + Rate /\ Off(h) \in Nat
      BY <2>1, Offs
    <2>3. Off(b + k) = Off(b) + Off(k) /\ Off(b) \in Nat
      BY <1>1, OffAdds, Offs
    <2>4. Rate - (n - Off(h)) = Off(b + k) - d
      BY <1>1, <2>2, <2>3, RateIs
    <2> QED BY <2>4 DEF Off, h
  <1>7. SqueezeOn([s |-> x, n |-> r], n) =
          [out |-> Squeezed(x, n), c |-> [s |-> Permuted(x, k), n |-> Rate - (n - (k - 1) * Rate)]]
    BY DEF SqueezeOn, k
  <1>8. Waiting(s, d) = [s |-> Permuted(s, b + k), n |-> Off(b + k) - d]
    BY <1>4 DEF Waiting
  <1> QED BY <1>3, <1>5, <1>6, <1>7, <1>8

LEMMA SqueezeNone ==
    ASSUME NEW c
    PROVE  SqueezeOn(c, 0).c = c /\ SqueezeOn(c, 0).out = <<>>
  <1>1. Squeezed(c.s, 0) = <<>>
    BY SqueezedIs, OutNone
  <1> QED BY <1>1 DEF SqueezeOn

(* A squeeze call gives the next bytes of the stream (keccak_inc_squeeze). *)
LEMMA SqueezeWaiting ==
    ASSUME NEW s, IsState(s), NEW d \in Nat, NEW l \in Nat
    PROVE  /\ keccak_inc_squeeze(Waiting(s, d), l).out = Out(s, d, l)
           /\ keccak_inc_squeeze(Waiting(s, d), l).c = Waiting(s, d + l)
  <1> DEFINE b == BlocksOf(d)
             x == Permuted(s, b)
             w == Off(b) - d
             c == [s |-> x, n |-> w]
  <1>1. b \in Nat /\ d <= Off(b) /\ Off(b) < d + Rate /\ Off(b) \in Nat
    BY Blocks, Offs
  <1> HIDE DEF b
  <1>2. w \in Nat /\ d + w = Off(b)
    BY <1>1
  <1>3. Waiting(s, d) = c
    BY DEF Waiting, b
  <1> HIDE DEF x, w
  <1>4. CASE l <= w
    <2> DEFINE rest == SqueezeOn([s |-> x, n |-> w - l], 0)
    <2>1. keccak_inc_squeeze(c, l) =
            [rest EXCEPT !.out = keccak_state_extract_bytes(x, Rate - w, l) \o @]
      <3> DEFINE i == IF l < w THEN l ELSE w
      <3>1. i = l /\ l - i = 0
        BY <1>2, <1>4
      <3> HIDE DEF i
      <3>2. keccak_inc_squeeze(c, l) =
              [SqueezeOn([s |-> x, n |-> w - i], l - i)
                 EXCEPT !.out = keccak_state_extract_bytes(x, Rate - w, i) \o @]
        <4>1. c.s = x /\ c.n = w /\ [c EXCEPT !.n = @ - i] = [s |-> x, n |-> w - i]
          OBVIOUS
        <4> HIDE DEF c
        <4> QED BY <4>1 DEF keccak_inc_squeeze, i
      <3> QED BY <3>1, <3>2
    <2>2. rest.c = [s |-> x, n |-> w - l] /\ rest.out = <<>>
      BY SqueezeNone
    <2>3. DOMAIN rest = {"out", "c"}
      BY DEF SqueezeOn
    <2>4. keccak_state_extract_bytes(x, Rate - w, l) = Out(s, d, l)
      BY <1>4, KeptIs DEF x, w, b
    <2>5. Out(s, d, l) \o <<>> = Out(s, d, l)
      BY OutSeq, ConcatEmptySeq
    <2>6. Waiting(s, d + l) = [s |-> x, n |-> w - l]
      <3> DEFINE e == d + l
      <3>1. e \in Nat /\ e <= Off(b) /\ Off(b) < e + Rate /\ Off(b) - e = w - l
        BY <1>1, <1>2, <1>4, RateIs
      <3> HIDE DEF e
      <3>2. BlocksOf(e) = b
        BY <1>1, <3>1, BlocksIs
      <3>3. Waiting(s, e) = [s |-> x, n |-> w - l]
        BY <3>1, <3>2 DEF Waiting, x
      <3> QED BY <3>3 DEF e
    <2> HIDE DEF rest, c
    <2> QED BY <1>3, <2>1, <2>2, <2>3, <2>4, <2>5, <2>6
  <1>5. CASE l > w
    <2> DEFINE r == l - w
               rest == SqueezeOn([s |-> x, n |-> w - w], r)
    <2>1. keccak_inc_squeeze(c, l) =
            [rest EXCEPT !.out = keccak_state_extract_bytes(x, Rate - w, w) \o @]
      <3> DEFINE i == IF l < w THEN l ELSE w
      <3>1. i = w
        BY <1>2, <1>5
      <3> HIDE DEF i
      <3>2. keccak_inc_squeeze(c, l) =
              [SqueezeOn([s |-> x, n |-> w - i], l - i)
                 EXCEPT !.out = keccak_state_extract_bytes(x, Rate - w, i) \o @]
        <4>1. c.s = x /\ c.n = w /\ [c EXCEPT !.n = @ - i] = [s |-> x, n |-> w - i]
          OBVIOUS
        <4> HIDE DEF c
        <4> QED BY <4>1 DEF keccak_inc_squeeze, i
      <3> QED BY <3>1, <3>2
    <2>2. r \in Nat \ {0} /\ w - w \in Nat /\ w + r = l
      BY <1>2, <1>5
    <2>3. keccak_state_extract_bytes(x, Rate - w, w) = Out(s, d, w)
      BY <1>2, KeptIs DEF x, w, b
    <2> HIDE DEF r
    <2>4. rest = [out |-> Out(s, Off(b), r), c |-> Waiting(s, Off(b) + r)]
      <3> DEFINE y == w - w
      <3>1. y \in Nat
        BY <2>2
      <3> HIDE DEF y
      <3>2. SqueezeOn([s |-> Permuted(s, b), n |-> y], r) =
              [out |-> Out(s, Off(b), r), c |-> Waiting(s, Off(b) + r)]
        BY <1>1, <2>2, <3>1, SqueezeOnIs
      <3> QED BY <3>2 DEF x, y
    <2>5. Out(s, d, w) \o Out(s, d + w, r) = Out(s, d, w + r)
      <3>1. r \in Nat
        BY <2>2
      <3> QED BY ZenonT(30), <1>2, <3>1, OutJoins
    <2>6. Off(b) + r = d + l
      BY <1>1, <1>2, <2>2
    <2> HIDE DEF rest, c
    <2> QED BY <1>2, <1>3, <2>1, <2>2, <2>3, <2>4, <2>5, <2>6
  <1> QED BY <1>2, <1>4, <1>5


-----------------------------------------------------------------------------
(* The reference pads a message to whole blocks.  What comes after it in   *)
(* the last block, at the offset j, if t of its bytes are the message's.   *)
PadByte(t, j) ==
    (IF j = t THEN {<<-1>>} ELSE {}) \union (IF j = Rate - 1 THEN {<<-2>>} ELSE {})

PadBytes == {{<<-1>>}, {<<-2>>}, {<<-1>>, <<-2>>}, {}}

LEMMA ZerosIs ==
    ASSUME NEW l \in Nat, NEW k \in Nat, NEW t \in Nat, l = Off(k) + t, t + 2 <= Rate
    PROVE  (Rate - ((l + 2) % Rate)) % Rate = Rate - 2 - t
  <1>1. Off(k) \in Nat /\ Off(k + 1) = Off(k) + Rate /\ k + 1 \in Nat /\ Off(0) = 0
    BY Offs
  <1> DEFINE x == l + 2
             r == x % Rate
             y == Rate - r
  <1>2. x \in Nat
    OBVIOUS
  <1>3. CASE t + 2 < Rate
    <2>1. Off(k) <= x /\ x < Off(k) + Rate /\ x - Off(k) = t + 2
      BY <1>1, <1>3, RateIs
    <2> HIDE DEF x
    <2>2. x % Rate = t + 2
      BY <1>2, <2>1, DivIs
    <2>3. y \in Nat /\ Off(0) <= y /\ y < Off(0) + Rate /\ y - Off(0) = Rate - 2 - t
      BY <2>2, <1>1, <1>3, RateIs
    <2> HIDE DEF y
    <2>4. y % Rate = Rate - 2 - t
      BY <2>3, DivIs
    <2> QED BY <2>4 DEF y, x
  <1>4. CASE t + 2 = Rate
    <2> DEFINE j == k + 1
    <2>1. j \in Nat /\ Off(j) <= x /\ x < Off(j) + Rate /\ x - Off(j) = 0
      BY <1>1, <1>4, RateIs
    <2> HIDE DEF x, j
    <2>2. x % Rate = 0
      BY <1>2, <2>1, DivIs
    <2>3. y = Rate /\ Off(1) = Rate /\ 1 \in Nat
      BY <2>2, RateIs, OffOne
    <2> HIDE DEF y
    <2>4. y \in Nat /\ Off(1) <= y /\ y < Off(1) + Rate /\ y - Off(1) = 0
      BY <2>3, RateIs
    <2>5. y % Rate = 0
      BY <2>3, <2>4, DivIs
    <2>6. Rate - 2 - t = 0
      BY <1>4, RateIs
    <2> QED BY <2>5, <2>6 DEF y, x
  <1> QED BY <1>3, <1>4, RateIs

LEMMA PaddedIs ==
    ASSUME NEW S, NEW m \in Seq(S), NEW k \in Nat, NEW t \in Nat, Len(m) = Off(k) + t, t < Rate
    PROVE  /\ PaddedMessage(m) \in Seq(S \union PadBytes)
           /\ Len(PaddedMessage(m)) = Off(k) + Rate
           /\ \A i \in 1 .. Len(m) : PaddedMessage(m)[i] = m[i]
           /\ \A j \in t .. Rate - 1 : PaddedMessage(m)[Off(k) + (j + 1)] = PadByte(t, j)
  <1> DEFINE V == S \union PadBytes
             l == Len(m)
  <1>1. l \in Nat /\ Off(k) \in Nat /\ m \in Seq(V)
    BY LenProperties, Offs, SeqMonotonic
  <1>2. l % Rate = t
    <2>1. Off(k) <= l /\ l < Off(k) + Rate /\ l - Off(k) = t
      BY <1>1, RateIs
    <2> HIDE DEF l
    <2> QED BY <1>1, <2>1, DivIs
  <1>3. PadBytes \subseteq V
    OBVIOUS
  <1>4. CASE t = Rate - 1
    <2> DEFINE e == <<{<<-1>>, <<-2>>}>>
               g == m \o e
    <2>1. e \in Seq(V) /\ Len(e) = 1 /\ e[1] = {<<-1>>, <<-2>>}
      <3>1. {<<-1>>, <<-2>>} \in V
        BY <1>3 DEF PadBytes
      <3> HIDE DEF V
      <3> QED BY <3>1
    <2>2. Rate - (l % Rate) = 1
      BY <1>2, <1>4, RateIs
    <2>3. PaddedMessage(m) = g
      BY <2>2 DEF PaddedMessage
    <2> HIDE DEF e, V, l
    <2>4. /\ g \in Seq(V) /\ Len(m) \in Nat /\ Len(e) \in Nat
          /\ Len(g) = Len(m) + Len(e)
          /\ \A i \in 1 .. Len(m) : g[i] = m[i]
          /\ \A i \in 1 .. Len(e) : g[Len(m) + i] = e[i]
      <3>1. m \in Seq(V) /\ e \in Seq(V)
        BY <1>1, <2>1
      <3>2. IsConcat(g, m, e, V)
        BY <3>1, ConcatIs
      <3> HIDE DEF g
      <3> QED BY <3>2 DEF IsConcat
    <2> HIDE DEF g
    <2>5. Len(g) = Off(k) + Rate
      BY <1>1, <1>4, <2>1, <2>4, RateIs
    <2>6. g[Len(m) + 1] = {<<-1>>, <<-2>>}
      BY <2>1, <2>4
    <2>7. ASSUME NEW j \in t .. Rate - 1 PROVE g[Off(k) + (j + 1)] = PadByte(t, j)
      <3>1. j = t /\ j = Rate - 1
        BY <1>4, RateIs
      <3>2. Off(k) + (j + 1) = Len(m) + 1
        BY <3>1, <1>1
      <3>3. PadByte(t, j) = {<<-1>>, <<-2>>}
        BY <3>1 DEF PadByte
      <3> QED BY <3>2, <3>3, <2>6
    <2> QED BY <2>3, <2>4, <2>5, <2>7 DEF V
  <1>5. CASE t # Rate - 1
    <2> DEFINE zeros == (Rate - ((l + 2) % Rate)) % Rate
               z == [i \in 1 .. zeros |-> {}]
               d == DomainByte
               e == LastByte
               x == m \o d
               y == x \o z
               g == y \o e
    <2>1. zeros = Rate - 2 - t /\ zeros \in Nat
      <3>1. t + 2 <= Rate
        BY <1>5, RateIs
      <3>2. (Rate - ((l + 2) % Rate)) % Rate = Rate - 2 - t
        BY <3>1, <1>1, ZerosIs
      <3> QED BY <3>1, <3>2, RateIs
    <2>2. PaddedMessage(m) = g
      <3>1. ~(Rate - (l % Rate) = 1)
        BY <1>2, <1>5, RateIs
      <3> QED BY <3>1 DEF PaddedMessage
    <2> HIDE DEF zeros
    <2>3. /\ d \in Seq(V) /\ Len(d) = 1 /\ d[1] = {<<-1>>}
          /\ e \in Seq(V) /\ Len(e) = 1 /\ e[1] = {<<-2>>}
          /\ z \in Seq(V) /\ Len(z) = zeros /\ \A i \in 1 .. zeros : z[i] = {}
      <3>1. {<<-1>>} \in V /\ {<<-2>>} \in V /\ {} \in V
        BY <1>3 DEF PadBytes
      <3> HIDE DEF V
      <3>2. z \in [1 .. zeros -> V] /\ \A i \in 1 .. zeros : z[i] = {}
        BY <3>1
      <3>3. z \in Seq(V) /\ Len(z) = zeros
        <4> HIDE DEF z
        <4> QED BY <2>1, <3>2
      <3>4. d \in Seq(V) /\ Len(d) = 1 /\ d[1] = {<<-1>>}
        BY <3>1 DEF DomainByte
      <3>5. e \in Seq(V) /\ Len(e) = 1 /\ e[1] = {<<-2>>}
        BY <3>1 DEF LastByte
      <3> HIDE DEF z, d, e
      <3> QED BY <3>2, <3>3, <3>4, <3>5
    <2> HIDE DEF z, d, e, V
    <2>4. /\ x \in Seq(V) /\ l \in Nat /\ Len(d) \in Nat
          /\ Len(x) = l + Len(d)
          /\ \A i \in 1 .. l : x[i] = m[i]
          /\ \A i \in 1 .. Len(d) : x[l + i] = d[i]
      <3>1. m \in Seq(V) /\ d \in Seq(V)
        BY <1>1, <2>3
      <3>2. IsConcat(x, m, d, V)
        BY <3>1, ConcatIs
      <3> HIDE DEF x
      <3> QED BY <3>2 DEF IsConcat, l
    <2> HIDE DEF x
    <2>5. /\ y \in Seq(V) /\ Len(x) \in Nat /\ Len(z) \in Nat
          /\ Len(y) = Len(x) + Len(z)
          /\ \A i \in 1 .. Len(x) : y[i] = x[i]
          /\ \A i \in 1 .. Len(z) : y[Len(x) + i] = z[i]
      <3>1. x \in Seq(V) /\ z \in Seq(V)
        BY <2>3, <2>4
      <3>2. IsConcat(y, x, z, V)
        BY <3>1, ConcatIs
      <3> HIDE DEF y
      <3> QED BY <3>2 DEF IsConcat
    <2> HIDE DEF y
    <2>6. /\ g \in Seq(V) /\ Len(y) \in Nat /\ Len(e) \in Nat
          /\ Len(g) = Len(y) + Len(e)
          /\ \A i \in 1 .. Len(y) : g[i] = y[i]
          /\ \A i \in 1 .. Len(e) : g[Len(y) + i] = e[i]
      <3>1. y \in Seq(V) /\ e \in Seq(V)
        BY <2>3, <2>5
      <3>2. IsConcat(g, y, e, V)
        BY <3>1, ConcatIs
      <3> HIDE DEF g
      <3> QED BY <3>2 DEF IsConcat
    <2> HIDE DEF g, l
    <2>7. Len(x) = l + 1 /\ Len(y) = l + 1 + zeros /\ Len(g) = l + 1 + zeros + 1
      BY <1>1, <2>1, <2>3, <2>4, <2>5, <2>6
    <2>8. l = Off(k) + t
      BY DEF l
    <2>9. Len(g) = Off(k) + Rate
      <3>1. l + 1 + zeros + 1 = Off(k) + Rate
        <4>1. l \in Nat /\ Off(k) \in Nat
          BY <1>1
        <4> QED BY <4>1, <2>1, <2>8, RateIs
      <3> QED BY <3>1, <2>7
    <2>10. ASSUME NEW i \in 1 .. l PROVE g[i] = m[i]
      <3>1. i \in 1 .. Len(x) /\ i \in 1 .. Len(y)
        BY SMTT(30), <1>1, <2>1, <2>7
      <3> QED BY <3>1, <2>4, <2>5, <2>6
    <2>11. ASSUME NEW j \in t .. Rate - 1 PROVE g[Off(k) + (j + 1)] = PadByte(t, j)
      <3> DEFINE i == Off(k) + (j + 1)
                 lx == Len(x)
                 ly == Len(y)
                 o == Off(k)
      <3>0. /\ lx = o + t + 1 /\ ly = o + t + 1 + zeros /\ l = o + t /\ zeros = Rate - 2 - t
            /\ o \in Nat /\ lx \in Nat /\ ly \in Nat /\ i = o + (j + 1) /\ zeros \in Nat
            /\ j \in Nat /\ t <= j /\ j <= Rate - 1
        <4>1. lx = l + 1 /\ ly = l + 1 + zeros /\ l = o + t /\ zeros = Rate - 2 - t /\ zeros \in Nat
          BY <2>1, <2>7, <2>8
        <4>2. o \in Nat /\ lx \in Nat /\ ly \in Nat /\ i = o + (j + 1)
          BY <1>1, <2>5, <2>6
        <4>3. j \in Nat /\ t <= j /\ j <= Rate - 1
          BY RateIs
        <4> HIDE DEF lx, ly, o, i
        <4> QED BY <4>1, <4>2, <4>3
      <3> HIDE DEF lx, ly, o, i
      <3>1. ASSUME j = t PROVE g[i] = PadByte(t, j)
        <4>0. i = l + 1 /\ i \in 1 .. lx /\ i \in 1 .. ly /\ j # Rate - 1
          BY <1>5, <3>0, <3>1
        <4>1. i = l + 1 /\ i \in 1 .. Len(x) /\ i \in 1 .. Len(y) /\ j # Rate - 1
          BY <4>0 DEF lx, ly
        <4>2. x[l + 1] = {<<-1>>}
          BY <2>3, <2>4
        <4>3. g[i] = {<<-1>>}
          <5> HIDE DEF i
          <5> QED BY <4>1, <4>2, <2>5, <2>6
        <4>4. PadByte(t, j) = {<<-1>>}
          BY <3>1, <4>1 DEF PadByte
        <4> QED BY <4>3, <4>4
      <3>2. ASSUME j # t /\ j # Rate - 1 PROVE g[i] = PadByte(t, j)
        <4> DEFINE h == j - t
        <4>0. h \in 1 .. zeros /\ i = lx + h /\ i \in 1 .. ly
          BY <3>0, <3>2, RateIs
        <4>1. h \in 1 .. zeros /\ i = Len(x) + h /\ i \in 1 .. Len(y)
          BY <4>0 DEF lx, ly
        <4>2. g[i] = {}
          <5> HIDE DEF i, h
          <5>1. g[i] = y[i]
            BY <4>1, <2>6
          <5>2. y[Len(x) + h] = z[h] /\ z[h] = {}
            BY <4>1, <2>3, <2>5
          <5> QED BY <4>1, <5>1, <5>2
        <4>3. PadByte(t, j) = {}
          BY <3>2 DEF PadByte
        <4> QED BY <4>2, <4>3
      <3>3. ASSUME j # t /\ j = Rate - 1 PROVE g[i] = PadByte(t, j)
        <4>0. i = ly + 1
          BY <3>0, <3>3, RateIs
        <4>1. i = Len(y) + 1
          BY <4>0 DEF ly
        <4>2. g[Len(y) + 1] = {<<-2>>}
          BY <2>3, <2>6
        <4>3. PadByte(t, j) = {<<-2>>}
          BY <3>3 DEF PadByte
        <4> QED BY <4>1, <4>2, <4>3
      <3> QED BY <3>1, <3>2, <3>3 DEF i
    <2> QED BY <2>2, <2>6, <2>9, <2>10, <2>11 DEF V, l
  <1> QED BY <1>4, <1>5


LEMMA XorPads ==
    ASSUME NEW a
    PROVE  /\ Xor(a, {}) = a
           /\ Xor(Xor(a, {<<-1>>}), {<<-2>>}) = Xor(a, {<<-1>>, <<-2>>})
  <1> DEFINE x == <<-1>>
             y == <<-2>>
  <1>1. x # y
    OBVIOUS
  <1> HIDE DEF x, y
  <1>2. Xor(a, {}) = a
    BY DEF Xor
  <1>3. Xor(Xor(a, {x}), {y}) = Xor(a, {x, y})
    BY <1>1 DEF Xor
  <1> QED BY <1>2, <1>3 DEF x, y

LEMMA AbsorbIsHeld ==
    ASSUME NEW m
    PROVE  keccak_absorb(m) = keccak_inc_finalize(Held(m)).s
  BY DEF keccak_absorb, keccak_inc_finalize, Held, BlockState, Off

(* One byte at the offset t.                                               *)
WithByte(y, s, x, t) ==
    IsState(y) /\ \A p \in 0 .. Width - 1 : y[p] = IF p = t THEN Xor(s[p], x) ELSE s[p]

LEMMA XorByte ==
    ASSUME NEW s, IsState(s), NEW e, NEW x, e = <<x>>, NEW t \in Nat
    PROVE  WithByte(keccak_state_xor_bytes(s, e, t), s, x, t)
  <1> DEFINE y == keccak_state_xor_bytes(s, e, t)
  <1>1. Len(e) = 1 /\ e[1] = x
    OBVIOUS
  <1>2. IsState(y) /\ \A p \in 0 .. Width - 1 :
          y[p] = IF p - t \in 0 .. Len(e) - 1 THEN Xor(s[p], e[p - t + 1]) ELSE s[p]
    BY StateDomain DEF keccak_state_xor_bytes, IsState
  <1> HIDE DEF y
  <1>3. ASSUME NEW p \in 0 .. Width - 1 PROVE y[p] = IF p = t THEN Xor(s[p], x) ELSE s[p]
    <2>1. CASE p = t
      <3>1. p - t \in 0 .. Len(e) - 1 /\ p - t + 1 = 1
        BY <2>1, <1>1, RateIs
      <3> QED BY <2>1, <3>1, <1>1, <1>2
    <2>2. CASE p # t
      <3>1. ~(p - t \in 0 .. Len(e) - 1)
        BY <2>2, <1>1, RateIs
      <3> QED BY <2>2, <3>1, <1>2
    <2> QED BY <2>1, <2>2
  <1> QED BY <1>2, <1>3 DEF y, WithByte

(* Finalizing is XORing in the last block of the padded message.           *)
LEMMA FinalIs ==
    ASSUME NEW S, NEW m \in Seq(S), NEW k \in Nat, NEW t \in Nat, Len(m) = Off(k) + t, t < Rate
    PROVE  keccak_absorb(m) = Mixed(BlockState(m, k), PaddedMessage(m), Off(k), Rate)
  <1> DEFINE b == BlockState(m, k)
             input == PaddedMessage(m)
             o == Off(k)
             s == Mixed(b, m, o, t)
             x == keccak_state_xor_bytes(s, DomainByte, t)
             last == Rate - 1
             f == keccak_state_xor_bytes(x, LastByte, last)
             r == Mixed(b, input, o, Rate)
  <1>1. o \in Nat /\ Len(m) \in Nat
    BY Offs, LenProperties
  <1>2. keccak_absorb(m) = f
    <2>1. o <= Len(m) /\ Len(m) < o + Rate /\ Len(m) - o = t
      BY <1>1, RateIs
    <2>2. Held(m) = [s |-> Mixed(BlockState(m, k), m, Off(k), Len(m) - Off(k)), n |-> Len(m) - Off(k)]
      BY <2>1, HeldIs
    <2>3. Held(m) = [s |-> s, n |-> t]
      BY <2>1, <2>2
    <2> HIDE DEF s
    <2>4. Held(m).s = s /\ Held(m).n = t
      BY <2>3
    <2> QED BY <2>4, AbsorbIsHeld DEF keccak_inc_finalize, Padded
  <1>3. /\ \A i \in 1 .. Len(m) : input[i] = m[i]
        /\ \A j \in t .. Rate - 1 : input[o + (j + 1)] = PadByte(t, j)
    BY ZenonT(30), PaddedIs
  <1>4. IsState(s) /\ \A p \in 0 .. Width - 1 :
          s[p] = IF p < t THEN Xor(b[p], m[o + p + 1]) ELSE b[p]
    BY DEF Mixed, IsState
  <1>5. IsState(r) /\ \A p \in 0 .. Width - 1 :
          r[p] = IF p < Rate THEN Xor(b[p], input[o + p + 1]) ELSE b[p]
    <2> HIDE DEF b, input, o
    <2> QED BY DEF Mixed, IsState
  <1> HIDE DEF s, r, b, input, o
  <1>6. IsState(x) /\ \A p \in 0 .. Width - 1 :
          x[p] = IF p = t THEN Xor(s[p], {<<-1>>}) ELSE s[p]
    <2> DEFINE a == {<<-1>>}
    <2>1. DomainByte = <<a>> /\ IsState(s)
      BY <1>4 DEF DomainByte
    <2> HIDE DEF a
    <2>2. WithByte(x, s, a, t)
      BY <2>1, XorByte
    <2> HIDE DEF x
    <2> QED BY <2>2 DEF a, WithByte
  <1> HIDE DEF x
  <1>7. IsState(f) /\ \A p \in 0 .. Width - 1 :
          f[p] = IF p = Rate - 1 THEN Xor(x[p], {<<-2>>}) ELSE x[p]
    <2> DEFINE a == {<<-2>>}
    <2>1. LastByte = <<a>> /\ IsState(x) /\ last \in Nat
      BY <1>6, RateIs DEF LastByte
    <2> HIDE DEF a, last
    <2>2. WithByte(f, x, a, last)
      BY <2>1, XorByte
    <2> HIDE DEF f
    <2> QED BY <2>2 DEF a, last, WithByte
  <1> HIDE DEF f
  <1>8. ASSUME NEW p \in 0 .. Width - 1 PROVE f[p] = r[p]
    <2>0. p \in Nat /\ o + p + 1 = o + (p + 1)
      BY <1>1, RateIs
    <2>1. CASE p < t
      <3>1. p < Rate /\ p # Rate - 1 /\ p # t /\ o + p + 1 \in 1 .. Len(m)
        BY <2>0, <2>1, <1>1, RateIs DEF o
      <3>2. f[p] = Xor(b[p], m[o + p + 1])
        BY <2>1, <3>1, <1>4, <1>6, <1>7
      <3>3. r[p] = Xor(b[p], m[o + p + 1])
        BY <3>1, <1>3, <1>5
      <3> QED BY <3>2, <3>3
    <2>2. CASE t <= p /\ p < Rate
      <3>1. p \in t .. Rate - 1 /\ ~(p < t)
        BY <2>0, <2>2, RateIs
      <3>2. r[p] = Xor(b[p], PadByte(t, p)) /\ s[p] = b[p]
        BY <2>0, <2>2, <3>1, <1>3, <1>4, <1>5
      <3>3. CASE p = t /\ p = Rate - 1
        <4>1. PadByte(t, p) = {<<-1>>, <<-2>>}
          BY <3>3 DEF PadByte
        <4>2. f[p] = Xor(Xor(b[p], {<<-1>>}), {<<-2>>})
          BY <3>2, <3>3, <1>6, <1>7
        <4> QED BY <4>1, <4>2, <3>2, XorPads
      <3>4. CASE p = t /\ p # Rate - 1
        <4>1. PadByte(t, p) = {<<-1>>}
          BY <3>4 DEF PadByte
        <4>2. f[p] = Xor(b[p], {<<-1>>})
          BY <3>2, <3>4, <1>6, <1>7
        <4> QED BY <4>1, <4>2, <3>2
      <3>5. CASE p # t /\ p = Rate - 1
        <4>1. PadByte(t, p) = {<<-2>>}
          BY <3>5 DEF PadByte
        <4>2. f[p] = Xor(b[p], {<<-2>>})
          BY <3>2, <3>5, <1>6, <1>7
        <4> QED BY <4>1, <4>2, <3>2
      <3>6. CASE p # t /\ p # Rate - 1
        <4>1. PadByte(t, p) = {}
          BY <3>6 DEF PadByte
        <4>2. f[p] = b[p]
          BY <3>2, <3>6, <1>6, <1>7
        <4> QED BY <4>1, <4>2, <3>2, XorPads
      <3> QED BY <3>3, <3>4, <3>5, <3>6
    <2>3. CASE Rate <= p
      <3>1. ~(p < Rate) /\ p # Rate - 1 /\ p # t /\ ~(p < t)
        BY <2>0, <2>3, RateIs
      <3> QED BY <3>1, <1>4, <1>5, <1>6, <1>7
    <2> QED BY <2>0, <2>1, <2>2, <2>3, RateIs
  <1>9. f = r
    BY <1>5, <1>7, <1>8, StatesEqual
  <1> QED BY <1>2, <1>9 DEF r, b, input, o

LEMMA FinalState ==
    ASSUME NEW S, NEW m \in Seq(S)
    PROVE  /\ IsState(keccak_absorb(m))
           /\ Len(PaddedMessage(m)) = Off(Len(m) \div Rate) + Rate
           /\ BlockState(PaddedMessage(m), (Len(m) \div Rate) + 1) = Permute(keccak_absorb(m))
           /\ PaddedMessage(m) \in Seq(S \union PadBytes)
           /\ Len(m) \div Rate \in Nat
  <1> DEFINE k == Len(m) \div Rate
             t == Len(m) - Off(k)
             input == PaddedMessage(m)
             V == S \union PadBytes
             j == k + 1
  <1>1. Len(m) \in Nat /\ m \in Seq(V)
    BY LenProperties, SeqMonotonic
  <1>2. k \in Nat /\ Off(k) <= Len(m) /\ Len(m) < Off(k) + Rate /\ Off(k) \in Nat
    BY <1>1, DivRem, Offs
  <1> HIDE DEF k
  <1>3. t \in Nat /\ t < Rate /\ Len(m) = Off(k) + t
    BY <1>1, <1>2, RateIs
  <1> HIDE DEF t
  <1>4. keccak_absorb(m) = Mixed(BlockState(m, k), input, Off(k), Rate)
    BY <1>2, <1>3, FinalIs
  <1>5. /\ input \in Seq(V) /\ Len(input) = Off(k) + Rate
        /\ \A i \in 1 .. Len(m) : input[i] = m[i]
    BY <1>2, <1>3, PaddedIs
  <1> HIDE DEF input, V
  <1>6. BlockState(input, k) = BlockState(m, k)
    <2>1. Len(m) <= Len(input)
      BY <1>1, <1>2, <1>5, RateIs
    <2> QED BY <1>1, <1>2, <1>5, <2>1, BlockPrefix
  <1>7. Off(j) <= Len(input)
    BY <1>2, <1>5, Offs, RateIs
  <1>8. BlockState(input, k + 1) = Permute(Mixed(BlockState(input, k), input, Off(k), Rate))
    BY <1>2, <1>5, <1>7, BlockStep
  <1>9. IsState(keccak_absorb(m))
    BY <1>4, MixedState
  <1> QED BY <1>2, <1>4, <1>5, <1>6, <1>8, <1>9 DEF k, input, V


-----------------------------------------------------------------------------
(* The states of the reference: z in XofOutput.                            *)
ReferenceStep(x, input, blocks, k) ==
    Permute([p \in 0 .. Width - 1 |->
                IF k <= blocks /\ p < Rate
                THEN Xor(x[p], input[(k - 1) * Rate + p + 1]) ELSE x[p]])

IsReference(z, input, blocks, n) ==
    z = [k \in 0 .. blocks + n |->
            IF k = 0 THEN Zeroed ELSE ReferenceStep(z[k - 1], input, blocks, k)]

LEMMA ReferenceUnique ==
    ASSUME NEW input, NEW b \in Nat, NEW n \in Nat, NEW z, NEW w,
           IsReference(z, input, b, n), IsReference(w, input, b, n)
    PROVE  \A k \in 0 .. b + n : z[k] = w[k]
  <1> DEFINE c == b + n
             T == {k \in Nat : k \in 0 .. c => z[k] = w[k]}
  <1>0. c \in Nat
    OBVIOUS
  <1>1. \A k \in 0 .. c : z[k] = IF k = 0 THEN Zeroed ELSE ReferenceStep(z[k - 1], input, b, k)
    BY Zenon DEF IsReference
  <1>2. \A k \in 0 .. c : w[k] = IF k = 0 THEN Zeroed ELSE ReferenceStep(w[k - 1], input, b, k)
    BY Zenon DEF IsReference
  <1> HIDE DEF c
  <1>3. 0 \in T
    BY <1>0, <1>1, <1>2
  <1>4. ASSUME NEW k \in Nat, k \in T PROVE k + 1 \in T
    <2>1. CASE k + 1 \in 0 .. c
      <3>1. k \in 0 .. c /\ k + 1 # 0 /\ (k + 1) - 1 = k
        BY <2>1, <1>0
      <3>2. z[k] = w[k] /\ z[k + 1] = ReferenceStep(z[k], input, b, k + 1)
            /\ w[k + 1] = ReferenceStep(w[k], input, b, k + 1)
        BY <3>1, <2>1, <1>1, <1>2, <1>4
      <3> QED BY <3>2
    <2> QED BY <2>1
  <1> HIDE DEF T
  <1>5. \A k \in Nat : k \in T
    BY <1>3, <1>4, SetInduction
  <1> QED BY <1>5 DEF T, c

(* They are those of the loops: the blocks, then permutations of what      *)
(* finalizing leaves.                                                      *)
LEMMA ReferenceIs ==
    ASSUME NEW S, NEW m \in Seq(S), NEW n \in Nat, NEW k, k = Len(m) \div Rate, NEW w,
           w = [j \in 0 .. k + 1 + n |-> IF j <= k + 1 THEN BlockState(PaddedMessage(m), j)
                                         ELSE Permuted(keccak_absorb(m), j - k)]
    PROVE  IsReference(w, PaddedMessage(m), k + 1, n)
  <1> DEFINE input == PaddedMessage(m)
             f == keccak_absorb(m)
             b == k + 1
             c == b + n
             V == S \union PadBytes
  <1>1. /\ IsState(f) /\ Len(input) = Off(k) + Rate /\ BlockState(input, k + 1) = Permute(f)
        /\ input \in Seq(V) /\ k \in Nat
    BY FinalState
  <1>2. b \in Nat /\ c \in Nat /\ b <= c
    BY <1>1
  <1>3. \A j \in 0 .. c : w[j] = IF j <= b THEN BlockState(input, j) ELSE Permuted(f, j - k)
    OBVIOUS
  <1>4. w = [j \in 0 .. c |-> w[j]]
    OBVIOUS
  <1> HIDE DEF input, f, V
  <1>5. ASSUME NEW j \in 0 .. c
        PROVE  w[j] = IF j = 0 THEN Zeroed ELSE ReferenceStep(w[j - 1], input, b, j)
    <2>1. ASSUME j = 0 PROVE w[j] = Zeroed
      <3>1. BlockState(input, 0) = Zeroed
        BY BlockStates
      <3> HIDE DEF b, c
      <3>2. w[0] = BlockState(input, 0)
        <4>1. 0 \in 0 .. c /\ 0 <= b
          BY <1>2
        <4> DEFINE y == 0
        <4>2. y \in 0 .. c /\ y <= b
          BY <4>1
        <4> HIDE DEF y
        <4>3. w[y] = BlockState(input, y)
          BY <4>2, <1>3
        <4> QED BY <4>3 DEF y
      <3> QED BY <2>1, <3>1, <3>2
    <2>2. ASSUME j # 0, j <= b PROVE w[j] = ReferenceStep(w[j - 1], input, b, j)
      <3> DEFINE h == j - 1
                 x == BlockState(input, h)
      <3>1. h \in Nat /\ h + 1 = j /\ h \in 0 .. c /\ h <= b /\ h <= k
        BY <2>2, <1>1, <1>2
      <3>2. w[j] = BlockState(input, h + 1) /\ w[h] = x
        BY <2>2, <3>1, <1>3
      <3> HIDE DEF h, b, c
      <3>3. Off(h + 1) <= Len(input)
        <4>1. h < k => Off(h) + Rate <= Off(k)
          BY <1>1, <3>1, OffGrows
        <4>2. Off(h + 1) = Off(h) + Rate /\ Off(h) \in Nat /\ Off(k) \in Nat
          BY <1>1, <3>1, Offs
        <4>3. CASE h < k
          BY <4>1, <4>2, <4>3, <1>1, RateIs
        <4>4. CASE h = k
          BY <4>2, <4>4, <1>1, RateIs
        <4> QED BY <4>3, <4>4, <3>1, <1>1
      <3>4. BlockState(input, h + 1) = Permute(Mixed(x, input, Off(h), Rate))
        BY <1>1, <3>1, <3>3, BlockStep
      <3>5. ReferenceStep(x, input, b, j) = Permute(Mixed(x, input, Off(j - 1), Rate))
        BY <2>2 DEF ReferenceStep, Mixed, Off
      <3> QED BY <3>2, <3>4, <3>5 DEF h
    <2>3. ASSUME j > b PROVE w[j] = ReferenceStep(w[j - 1], input, b, j)
      <3> DEFINE h == j - 1
                 i == h - k
                 x == Permuted(f, i)
      <3>1. h \in 0 .. c /\ h \in Nat /\ i \in Nat /\ j - k = i + 1 /\ (h <= b => h = b /\ i = 1)
            /\ ~(j <= b)
        BY SMTT(30), <2>3, <1>1, <1>2
      <3>2. w[h] = x
        <4>1. CASE h <= b
          <5>1. w[h] = BlockState(input, k + 1)
            BY <3>1, <4>1, <1>3
          <5>2. Permuted(f, 0) = f /\ Permuted(f, 0 + 1) = Permute(Permuted(f, 0))
            BY <1>1, PermutedIs
          <5>3. x = Permuted(f, 0 + 1)
            BY <3>1, <4>1
          <5> QED BY <5>1, <5>2, <5>3, <1>1
        <4>2. CASE ~(h <= b)
          BY <3>1, <4>2, <1>3
        <4> QED BY <4>1, <4>2
      <3>3. w[j] = Permuted(f, i + 1)
        BY <3>1, <1>3
      <3> HIDE DEF i, h, b, c
      <3>4. IsState(x) /\ Permuted(f, i + 1) = Permute(x)
        BY <3>1, <1>1, PermutedIs
      <3> HIDE DEF x
      <3>5. [p \in 0 .. Width - 1 |->
                IF j <= b /\ p < Rate
                THEN Xor(x[p], input[(j - 1) * Rate + p + 1]) ELSE x[p]] = x
        <4>1. [p \in 0 .. Width - 1 |->
                IF j <= b /\ p < Rate
                THEN Xor(x[p], input[(j - 1) * Rate + p + 1]) ELSE x[p]]
              = [p \in 0 .. Width - 1 |-> x[p]]
          BY <3>1, Zenon
        <4> QED BY <4>1, <3>4 DEF IsState
      <3> QED BY ZenonT(30), <3>2, <3>3, <3>4, <3>5 DEF ReferenceStep, h
    <2> HIDE DEF b, c
    <2> QED BY <2>1, <2>2, <2>3, <1>2
  <1> HIDE DEF b, c
  <1>6. w = [j \in 0 .. c |-> IF j = 0 THEN Zeroed ELSE ReferenceStep(w[j - 1], input, b, j)]
    BY <1>4, <1>5, Zenon
  <1>7. IsReference(w, input, b, n)
    BY <1>6 DEF IsReference, c
  <1> QED BY <1>7 DEF input, b

LEMMA XofIs ==
    ASSUME NEW S, NEW m \in Seq(S), NEW n \in Nat
    PROVE  XofOutput(m, n) = Out(keccak_absorb(m), 0, n)
  <1> DEFINE input == PaddedMessage(m)
             f == keccak_absorb(m)
             k == Len(m) \div Rate
             b == k + 1
             w == [j \in 0 .. k + 1 + n |-> IF j <= k + 1 THEN BlockState(input, j)
                                            ELSE Permuted(f, j - k)]
             z == CHOOSE z : IsReference(z, input, b, n)
  <1>1. /\ IsState(f) /\ Len(input) = Off(k) + Rate /\ BlockState(input, k + 1) = Permute(f)
        /\ k \in Nat
    BY FinalState
  <1>2. IsReference(w, input, b, n)
    <2> HIDE DEF k
    <2>1. \A x, y : x = k /\ y = w => IsReference(y, input, b, n)
      BY ReferenceIs DEF k
    <2> QED BY <2>1
  <1>3. IsReference(z, input, b, n)
    BY <1>2
  <1>4. b \in Nat /\ Len(input) \div Rate = b
    <2>1. b \in Nat /\ Off(b) = Off(k) + Rate /\ Off(b) \in Nat
      <3>1. k \in Nat
        BY <1>1
      <3> HIDE DEF k
      <3>2. b \in Nat
        BY <3>1
      <3>3. Off(b) = Off(k) + Rate
        BY <3>1, Offs
      <3> HIDE DEF b
      <3>4. Off(b) \in Nat
        BY <3>2, Offs
      <3> QED BY <3>2, <3>3, <3>4
    <2> HIDE DEF b, k, input
    <2>2. Len(input) \in Nat /\ Off(b) <= Len(input) /\ Len(input) < Off(b) + Rate
      BY <2>1, <1>1, RateIs
    <2> QED BY <2>1, <2>2, DivIs
  <1>5. XofOutput(m, n) = [i \in 1 .. n |-> z[b + ((i - 1) \div Rate)][(i - 1) % Rate]]
    <2>1. XofOutput(m, n) = LET c == Len(input) \div Rate
                                y == CHOOSE y : IsReference(y, input, c, n)
                            IN  [i \in 1 .. n |-> y[c + ((i - 1) \div Rate)][(i - 1) % Rate]]
      BY DEF XofOutput, IsReference, ReferenceStep
    <2> HIDE DEF input, b
    <2> QED BY <2>1, <1>4
  <1>6. \A j \in 0 .. b + n : z[j] = w[j]
    <2> HIDE DEF z, w, input, b
    <2> QED BY <1>2, <1>3, <1>4, ReferenceUnique
  <1>7. ASSUME NEW i \in 1 .. n
        PROVE  z[b + ((i - 1) \div Rate)][(i - 1) % Rate] = Stream(f, 0 + i)
    <2> DEFINE h == i - 1
               d == h \div Rate
               j == b + d
    <2>0. h \in Nat /\ h < n /\ 0 + i = i
      OBVIOUS
    <2>1. d \in Nat /\ d <= h
      <3>1. d \in Nat /\ Off(d) <= h
        <4> HIDE DEF h
        <4> QED BY <2>0, DivRem
      <3>2. d <= Off(d)
        <4> HIDE DEF d
        <4>1. \A x \in Nat, y \in Nat \ {0} : x <= x * y
          <5> SUFFICES ASSUME NEW x \in Nat, NEW y \in Nat \ {0} PROVE x <= x * y
            OBVIOUS
          <5>1. PICK v \in Nat : y = 1 + v
            BY SMT
          <5>2. x * y = x + x * v /\ x * v \in Nat
            BY <5>1, SMT
          <5> QED BY <5>2, SMT
        <4> QED BY <3>1, <4>1, RateIs DEF Off
      <3>3. Off(d) \in Nat
        <4> HIDE DEF d
        <4> QED BY <3>1, Offs
      <3> HIDE DEF d, h
      <3> QED BY <2>0, <3>1, <3>2, <3>3
    <2>2. Stream(f, i) = Permuted(f, d + 1)[h % Rate]
      BY DEF Stream
    <2> HIDE DEF d, h
    <2>3. j \in 0 .. b + n /\ j - k = d + 1
      <3> HIDE DEF k
      <3> QED BY <1>1, <2>0, <2>1
    <2>4. w[j] = Permuted(f, d + 1)
      <3>1. CASE d = 0
        <4>1. w[j] = BlockState(input, k + 1)
          <5> HIDE DEF k, input, f
          <5> QED BY <1>1, <2>3, <3>1
        <4>2. Permuted(f, 0) = f /\ Permuted(f, 0 + 1) = Permute(Permuted(f, 0))
          <5> HIDE DEF f
          <5> QED BY <1>1, PermutedIs
        <4> QED BY <4>1, <4>2, <3>1, <1>1
      <3>2. CASE d # 0
        <4> HIDE DEF k, input, f
        <4>1. ~(j <= k + 1) /\ j \in 0 .. k + 1 + n
          BY <1>1, <2>1, <2>3, <3>2
        <4> QED BY <4>1, <2>3
      <3> QED BY <3>1, <3>2
    <2>5. z[j] = Permuted(f, d + 1)
      <3> HIDE DEF z, w, j, f, b, k
      <3> QED BY <1>6, <2>3, <2>4
    <2> HIDE DEF z, f
    <2> QED BY <2>0, <2>2, <2>5 DEF d, h
  <1> HIDE DEF z, f, b
  <1>8. XofOutput(m, n) = Out(f, 0, n)
    BY <1>5, <1>7, Zenon DEF Out
  <1> QED BY <1>8 DEF f


-----------------------------------------------------------------------------
(* The one-shot calls.                                                     *)
LEMMA TakeOut ==
    ASSUME NEW s, NEW d \in Nat, NEW a \in Nat, NEW r \in 0 .. a
    PROVE  Take(Out(s, d, a), r) = Out(s, d, r)
  <1> DEFINE x == Out(s, d, a)
             y == Out(s, d, r)
             X == StreamBytes(s, d, a)
             Y == StreamBytes(s, d, r)
             S == X \union Y
             z == SubSeq(x, 1, r)
  <1>1. r \in Nat /\ r <= a
    OBVIOUS
  <1>2. x \in Seq(X) /\ Len(x) = a /\ \A j \in 1 .. a : x[j] = Stream(s, d + j)
    BY OutSeq
  <1>3. y \in Seq(Y) /\ Len(y) = r /\ \A j \in 1 .. r : y[j] = Stream(s, d + j)
    BY <1>1, OutSeq
  <1>4. X \subseteq S /\ Y \subseteq S
    <2> HIDE DEF X, Y
    <2> QED OBVIOUS
  <1> HIDE DEF x, y, X, Y, S
  <1>5. x \in Seq(S) /\ y \in Seq(S)
    BY <1>2, <1>3, <1>4, SeqMonotonic
  <1>6. z \in Seq(S) /\ Len(z) = r /\ \A i \in 1 .. r : z[i] = x[i]
    <2>1. \A i \in 1 .. r : x[i] \in S
      BY <1>1, <1>2, <1>5, ElementOfSeq
    <2> DEFINE f == 1
    <2>2. f \in Int /\ r \in Int /\ \A i \in f .. r : x[i] \in S
      BY <1>1, <2>1
    <2>3. /\ SubSeq(x, f, r) \in Seq(S)
          /\ Len(SubSeq(x, f, r)) = IF f <= r THEN r - f + 1 ELSE 0
          /\ \A i \in 1 .. r - f + 1 : SubSeq(x, f, r)[i] = x[f + i - 1]
      <3> HIDE DEF f
      <3> QED BY <2>2, SubSeqProperties
    <2>4. r - f + 1 = r /\ \A i \in 1 .. r : f + i - 1 = i
      BY <1>1
    <2> HIDE DEF z
    <2>5. z = SubSeq(x, f, r)
      BY DEF z
    <2>6. Len(z) = r
      BY <2>3, <2>4, <2>5, <1>1
    <2>7. \A i \in 1 .. r : z[i] = x[i]
      BY <2>3, <2>4, <2>5
    <2> QED BY <2>3, <2>5, <2>6, <2>7
  <1> HIDE DEF z
  <1>7. z = y
    <2>1. \A i \in 1 .. r : i \in 1 .. a
      BY <1>1
    <2>2. Len(z) = Len(y) /\ \A i \in 1 .. Len(z) : z[i] = y[i]
      BY <1>2, <1>3, <1>6, <2>1
    <2> QED BY <1>5, <1>6, <2>2, SeqEqual
  <1> QED BY <1>7 DEF Take, z, x, y

LEMMA BlockOut ==
    ASSUME NEW s, IsState(s), NEW k \in Nat
    PROVE  keccak_squeezeblocks(Permuted(s, k), 1).out = Out(s, Off(k), Rate)
  <1>1. 1 * Rate = Rate /\ Rate \in Nat
    BY RateIs
  <1>2. Squeezed(Permuted(s, k), Rate) = Out(Permuted(s, k), 0, Rate)
    BY <1>1, SqueezedIs
  <1>3. Out(Permuted(s, k), 0, Rate) = Out(s, Off(k), Rate)
    BY <1>1, OutLater
  <1> QED BY <1>1, <1>2, <1>3 DEF keccak_squeezeblocks

LEMMA ShakeIs ==
    ASSUME NEW S, NEW m \in Seq(S), NEW n \in Nat
    PROVE  shake(n, m) = Out(keccak_absorb(m), 0, n)
  <1> DEFINE f == keccak_absorb(m)
             k == n \div Rate
             d == Off(k)
             r == n - d
             full == keccak_squeezeblocks(f, k)
             more == keccak_squeezeblocks(full.s, 1)
  <1>1. IsState(f)
    BY FinalState
  <1>2. k \in Nat /\ d \in Nat /\ d <= n /\ n < d + Rate
    BY DivRem, Offs
  <1>3. shake(n, m) = IF r = 0 THEN full.out ELSE full.out \o Take(more.out, r)
    BY DEF shake, Off
  <1> HIDE DEF f, k
  <1>4. r \in 0 .. Rate /\ r \in Nat /\ d + r = n
    BY <1>2, RateIs
  <1>5. full.out = Out(f, 0, d) /\ full.s = Permuted(f, k)
    <2>1. full.out = Squeezed(f, d) /\ full.s = Permuted(f, k)
      BY DEF keccak_squeezeblocks, Off
    <2>2. Squeezed(f, d) = Out(f, 0, d)
      <3> HIDE DEF d
      <3> QED BY <1>2, SqueezedIs
    <2> QED BY <2>1, <2>2
  <1> HIDE DEF full
  <1>6. more.out = Out(f, d, Rate)
    BY <1>1, <1>2, <1>5, BlockOut
  <1> HIDE DEF d, r, more
  <1>7. CASE r = 0
    <2>1. d = n
      BY <1>2, <1>4, <1>7
    <2> QED BY <2>1, <1>3, <1>5, <1>7 DEF f
  <1>8. CASE r # 0
    <2>1. Take(Out(f, d, Rate), r) = Out(f, d, r)
      BY <1>2, <1>4, TakeOut, RateIs
    <2>2. Out(f, 0, d) \o Out(f, d, r) = Out(f, 0, d + r)
      BY <1>2, <1>4, OutGrows
    <2> QED BY <2>1, <2>2, <1>3, <1>4, <1>5, <1>6, <1>8 DEF f
  <1> QED BY <1>7, <1>8

LEMMA Sha3Is ==
    ASSUME NEW S, NEW m \in Seq(S)
    PROVE  /\ sha3(Rate - 1, m) = Out(keccak_absorb(m), 0, Rate - 1)
           /\ sha3_inc_finalize(Held(m), Rate - 1) = Out(keccak_absorb(m), 0, Rate - 1)
  <1> DEFINE f == keccak_absorb(m)
             l == Rate - 1
             z == 0
             x == keccak_squeezeblocks(f, 1).out
  <1>1. IsState(f)
    BY FinalState
  <1>2. l \in 0 .. Rate /\ z \in Nat /\ Off(z) = z /\ Rate \in Nat
    BY RateIs, Offs
  <1> HIDE DEF f
  <1>3. Permuted(f, z) = f
    BY <1>1, PermutedIs
  <1> HIDE DEF l, z
  <1>4. x = Out(f, z, Rate)
    <2>1. keccak_squeezeblocks(Permuted(f, z), 1).out = Out(f, Off(z), Rate)
      BY <1>1, <1>2, BlockOut
    <2> QED BY <1>2, <1>3, <2>1
  <1>5. Take(Out(f, z, Rate), l) = Out(f, z, l)
    BY <1>2, TakeOut
  <1>6. sha3(l, m) = Take(x, l)
    BY DEF sha3, f
  <1>7. sha3_inc_finalize(Held(m), l) = Take(x, l)
    BY AbsorbIsHeld DEF sha3_inc_finalize, f
  <1> HIDE DEF x
  <1>8. sha3(l, m) = Out(f, z, l) /\ sha3_inc_finalize(Held(m), l) = Out(f, z, l)
    BY <1>4, <1>5, <1>6, <1>7
  <1> QED BY <1>8 DEF l, z, f

-----------------------------------------------------------------------------
(* The contexts are where the bytes absorbed and squeezed say they are.    *)
TheByte(h, a, i) == {<<100 * h + a + i>>}
MessageByte == {TheByte(p[1], p[2], p[3]) : p \in Handle \X Nat \X Nat}

Absorbing(h) ==
    phase[h] = "absorbing" => ctx[h] = Held(fed[h]) /\ drawn[h] = <<>>

Squeezing(h) ==
    phase[h] = "squeezing" =>
      /\ Len(drawn[h]) \in Nat
      /\ drawn[h] = Out(keccak_absorb(fed[h]), 0, Len(drawn[h]))
      /\ ctx[h] = Waiting(keccak_absorb(fed[h]), Len(drawn[h]))

Free(h) == phase[h] = "free" => fed[h] = <<>> /\ drawn[h] = <<>>

HandleInv(h) ==
    /\ phase[h] \in {"free", "absorbing", "squeezing"}
    /\ fed[h] \in Seq(MessageByte)
    /\ Absorbing(h) /\ Squeezing(h) /\ Free(h)

SpongeInv ==
    /\ DOMAIN ctx = Handle /\ DOMAIN phase = Handle
    /\ DOMAIN fed = Handle /\ DOMAIN drawn = Handle
    /\ \A h \in Handle : HandleInv(h)

LEMMA SpongeInitInv == SpongeInit => SpongeInv
  <1>1. <<>> \in Seq(MessageByte)
    BY EmptySeq
  <1> QED BY <1>1 DEF SpongeInit, SpongeInv, HandleInv, Absorbing, Squeezing, Free

(* A step of one context leaves the others as they are.                    *)
LEMMA Untouched ==
    ASSUME SpongeInv, NEW h \in Handle, NEW g \in Handle,
           ctx'[g] = ctx[g], phase'[g] = phase[g], fed'[g] = fed[g], drawn'[g] = drawn[g]
    PROVE  HandleInv(g)'
  BY DEF SpongeInv, HandleInv, Absorbing, Squeezing, Free


LEMMA ChunkBytes ==
    ASSUME SpongeInv, NEW h \in Handle, NEW len \in Nat
    PROVE  Chunk(h, len) \in Seq(MessageByte)
  <1> DEFINE l == Len(fed[h])
             x == [i \in 1 .. len |-> TheByte(h, l, i)]
  <1>1. l \in Nat
    BY LenProperties DEF SpongeInv, HandleInv
  <1> HIDE DEF l
  <1>2. \A i \in 1 .. len : TheByte(h, l, i) \in MessageByte
    <2>1. \A i \in 1 .. len : i \in Nat
      OBVIOUS
    <2>2. ASSUME NEW i \in Nat
          PROVE  TheByte(h, l, i) \in MessageByte
      <3> DEFINE p == <<h, l, i>>
      <3>1. p \in Handle \X Nat \X Nat /\ p[1] = h /\ p[2] = l /\ p[3] = i
        BY <1>1, <2>2
      <3> HIDE DEF p
      <3>2. TheByte(h, l, i) = TheByte(p[1], p[2], p[3])
        BY <3>1, Zenon
      <3> QED BY <3>1, <3>2, Zenon DEF MessageByte
    <2> QED BY <2>1, <2>2, Zenon
  <1>3. x \in [1 .. len -> MessageByte]
    BY <1>2, Zenon
  <1> HIDE DEF x
  <1>4. x \in Seq(MessageByte)
    BY <1>3
  <1> QED BY <1>4 DEF x, l, Chunk, TheByte

LEMMA FinalizeHeld ==
    ASSUME NEW m
    PROVE  keccak_inc_finalize(Held(m)) = [s |-> keccak_absorb(m), n |-> 0]
  BY AbsorbIsHeld DEF keccak_inc_finalize

(* The context an action works on.                                         *)
LEMMA InitStep ==
    ASSUME SpongeInv, NEW h \in Handle, IncInit(h)
    PROVE  HandleInv(h)'
  BY HeldNothing DEF SpongeInv, HandleInv, Absorbing, Squeezing, Free, IncInit

LEMMA AbsorbStep ==
    ASSUME SpongeInv, NEW h \in Handle, NEW len \in Nat, IncAbsorb(h, len)
    PROVE  HandleInv(h)'
  <1> DEFINE f == fed[h]
             m == Chunk(h, len)
  <1>1. /\ phase[h] = "absorbing" /\ f \in Seq(MessageByte) /\ ctx[h] = Held(f) /\ drawn[h] = <<>>
        /\ DOMAIN ctx = Handle /\ DOMAIN fed = Handle
    BY DEF SpongeInv, HandleInv, Absorbing, IncAbsorb
  <1>2. m \in Seq(MessageByte)
    BY ChunkBytes
  <1>3. ctx'[h] = keccak_inc_absorb(ctx[h], m) /\ fed'[h] = f \o m
        /\ phase' = phase /\ drawn' = drawn
    BY <1>1 DEF IncAbsorb
  <1> HIDE DEF f, m
  <1>4. f \o m \in Seq(MessageByte) /\ keccak_inc_absorb(Held(f), m) = Held(f \o m)
    BY <1>1, <1>2, Concat, AbsorbHeld
  <1> QED BY <1>1, <1>3, <1>4 DEF HandleInv, Absorbing, Squeezing, Free

LEMMA FinalizeStep ==
    ASSUME SpongeInv, NEW h \in Handle, IncFinalize(h)
    PROVE  HandleInv(h)'
  <1> DEFINE m == fed[h]
             f == keccak_absorb(m)
  <1>1. /\ phase[h] = "absorbing" /\ m \in Seq(MessageByte) /\ ctx[h] = Held(m) /\ drawn[h] = <<>>
        /\ DOMAIN ctx = Handle /\ DOMAIN phase = Handle
    BY DEF SpongeInv, HandleInv, Absorbing, IncFinalize
  <1>2. ctx'[h] = keccak_inc_finalize(ctx[h]) /\ phase'[h] = "squeezing"
        /\ fed' = fed /\ drawn' = drawn
    BY <1>1 DEF IncFinalize
  <1>3. IsState(f)
    BY <1>1, FinalState
  <1> HIDE DEF f
  <1>4. Waiting(f, 0) = [s |-> f, n |-> 0] /\ Out(f, 0, 0) = <<>> /\ Len(<<>>) = 0
    BY <1>3, WaitingNothing, OutNone, EmptySeq
  <1>5. ctx'[h] = Waiting(f, 0)
    BY <1>1, <1>2, <1>4, FinalizeHeld DEF f
  <1>6. drawn'[h] = <<>> /\ keccak_absorb(fed'[h]) = f /\ fed'[h] \in Seq(MessageByte)
    BY <1>1, <1>2 DEF f
  <1>7. Squeezing(h)'
    <2>1. Len(drawn'[h]) = 0 /\ drawn'[h] = Out(f, 0, 0)
      BY <1>4, <1>6
    <2> QED BY <2>1, <1>5, <1>6 DEF Squeezing
  <1> QED BY <1>2, <1>6, <1>7 DEF HandleInv, Absorbing, Free

LEMMA SqueezeStep ==
    ASSUME SpongeInv, NEW h \in Handle, NEW len \in Nat, IncSqueeze(h, len)
    PROVE  HandleInv(h)'
  <1> DEFINE f == keccak_absorb(fed[h])
             d == Len(drawn[h])
             e == d + len
             r == keccak_inc_squeeze(ctx[h], len)
  <1>1. /\ phase[h] = "squeezing" /\ fed[h] \in Seq(MessageByte)
        /\ d \in Nat /\ drawn[h] = Out(f, 0, d) /\ ctx[h] = Waiting(f, d)
        /\ DOMAIN ctx = Handle /\ DOMAIN drawn = Handle
    BY DEF SpongeInv, HandleInv, Squeezing, IncSqueeze
  <1>2. ctx'[h] = r.c /\ drawn'[h] = drawn[h] \o r.out /\ phase' = phase /\ fed' = fed
    BY <1>1 DEF IncSqueeze
  <1>3. IsState(f)
    BY <1>1, FinalState
  <1> HIDE DEF f, d
  <1>4. r.out = Out(f, d, len) /\ r.c = Waiting(f, e)
    BY <1>1, <1>3, SqueezeWaiting
  <1>5. Out(f, 0, d) \o Out(f, d, len) = Out(f, 0, e)
    BY <1>1, OutGrows
  <1>6. e \in Nat
    BY <1>1
  <1> HIDE DEF e, r
  <1>7. Len(Out(f, 0, e)) = e
    BY <1>6, OutSeq
  <1>8. drawn'[h] = Out(f, 0, e) /\ ctx'[h] = Waiting(f, e) /\ keccak_absorb(fed'[h]) = f
    BY <1>1, <1>2, <1>4, <1>5 DEF f
  <1>9. Squeezing(h)'
    BY <1>6, <1>7, <1>8 DEF Squeezing
  <1> QED BY <1>1, <1>2, <1>9 DEF HandleInv, Absorbing, Free

LEMMA CloneStep ==
    ASSUME SpongeInv, NEW dest \in Handle, NEW src \in Handle, CtxClone(dest, src)
    PROVE  HandleInv(dest)'
  <1>1. /\ ctx'[dest] = ctx[src] /\ phase'[dest] = phase[src]
        /\ fed'[dest] = fed[src] /\ drawn'[dest] = drawn[src]
    BY DEF SpongeInv, CtxClone
  <1>2. HandleInv(src)
    BY DEF SpongeInv
  <1> QED BY <1>1, <1>2 DEF HandleInv, Absorbing, Squeezing, Free

LEMMA ReleaseStep ==
    ASSUME SpongeInv, NEW h \in Handle, CtxRelease(h)
    PROVE  HandleInv(h)'
  <1>1. <<>> \in Seq(MessageByte)
    BY EmptySeq
  <1>2. /\ phase'[h] = "free" /\ fed'[h] = <<>> /\ drawn'[h] = <<>>
    BY DEF SpongeInv, CtxRelease
  <1> QED BY <1>1, <1>2 DEF HandleInv, Absorbing, Squeezing, Free

(* An action changes the context of one handle.                            *)
OnlyOf(h) ==
    /\ DOMAIN ctx' = Handle /\ DOMAIN phase' = Handle
    /\ DOMAIN fed' = Handle /\ DOMAIN drawn' = Handle
    /\ \A g \in Handle \ {h} : /\ ctx'[g] = ctx[g] /\ phase'[g] = phase[g]
                               /\ fed'[g] = fed[g] /\ drawn'[g] = drawn[g]

LEMMA OnlyOfKeeps ==
    ASSUME SpongeInv, NEW h \in Handle, OnlyOf(h), HandleInv(h)'
    PROVE  SpongeInv'
  <1>1. ASSUME NEW g \in Handle PROVE HandleInv(g)'
    <2>1. CASE g = h
      BY <2>1
    <2>2. CASE g # h
      BY <2>2, Untouched DEF OnlyOf
    <2> QED BY <2>1, <2>2
  <1> QED BY <1>1 DEF SpongeInv, OnlyOf

LEMMA SpongeStepInv == SpongeInv /\ [SpongeNext]_spongeVars => SpongeInv'
  <1> SUFFICES ASSUME SpongeInv, [SpongeNext]_spongeVars PROVE SpongeInv'
    OBVIOUS
  <1>0. /\ DOMAIN ctx = Handle /\ DOMAIN phase = Handle
        /\ DOMAIN fed = Handle /\ DOMAIN drawn = Handle
    BY DEF SpongeInv
  <1>1. ASSUME NEW h \in Handle, IncInit(h) PROVE SpongeInv'
    <2>1. OnlyOf(h)
      BY <1>0, <1>1 DEF IncInit, OnlyOf
    <2> QED BY <1>1, <2>1, InitStep, OnlyOfKeeps
  <1>2. ASSUME NEW h \in Handle, NEW len \in 1 .. MaxFed, IncAbsorb(h, len) PROVE SpongeInv'
    <2>1. OnlyOf(h)
      BY <1>0, <1>2 DEF IncAbsorb, OnlyOf
    <2>2. len \in Nat
      BY SpongeAssumption
    <2> QED BY <1>2, <2>1, <2>2, AbsorbStep, OnlyOfKeeps
  <1>3. ASSUME NEW h \in Handle, IncFinalize(h) PROVE SpongeInv'
    <2>1. OnlyOf(h)
      BY <1>0, <1>3 DEF IncFinalize, OnlyOf
    <2> QED BY <1>3, <2>1, FinalizeStep, OnlyOfKeeps
  <1>4. ASSUME NEW h \in Handle, NEW len \in 1 .. MaxDrawn, IncSqueeze(h, len) PROVE SpongeInv'
    <2>1. OnlyOf(h)
      BY <1>0, <1>4 DEF IncSqueeze, OnlyOf
    <2>2. len \in Nat
      BY SpongeAssumption
    <2> QED BY <1>4, <2>1, <2>2, SqueezeStep, OnlyOfKeeps
  <1>5. ASSUME NEW h \in Handle, NEW g \in Handle, CtxClone(g, h) PROVE SpongeInv'
    <2>1. OnlyOf(g)
      BY <1>0, <1>5 DEF CtxClone, OnlyOf
    <2> QED BY <1>5, <2>1, CloneStep, OnlyOfKeeps
  <1>6. ASSUME NEW h \in Handle, CtxRelease(h) PROVE SpongeInv'
    <2>1. OnlyOf(h)
      BY <1>0, <1>6 DEF CtxRelease, OnlyOf
    <2> QED BY <1>6, <2>1, ReleaseStep, OnlyOfKeeps
  <1>7. CASE UNCHANGED spongeVars
    <2>1. ctx' = ctx /\ phase' = phase /\ fed' = fed /\ drawn' = drawn
      BY <1>7 DEF spongeVars
    <2> QED BY <2>1 DEF SpongeInv, HandleInv, Absorbing, Squeezing, Free
  <1> QED BY <1>1, <1>2, <1>3, <1>4, <1>5, <1>6, <1>7 DEF SpongeNext

LEMMA SpongeInvShows == SpongeInv => XofIsSponge
  <1> SUFFICES ASSUME SpongeInv, NEW h \in Handle
               PROVE  /\ phase[h] = "squeezing" =>
                           LET n == Len(drawn[h])
                           IN  drawn[h] = XofOutput(fed[h], n) /\ drawn[h] = shake(n, fed[h])
                      /\ phase[h] = "absorbing" =>
                           LET hash == XofOutput(fed[h], Rate - 1)
                           IN  /\ hash = sha3(Rate - 1, fed[h])
                               /\ hash = sha3_inc_finalize(ctx[h], Rate - 1)
    BY DEF XofIsSponge
  <1>1. HandleInv(h) /\ fed[h] \in Seq(MessageByte)
    BY DEF SpongeInv, HandleInv
  <1> DEFINE m == fed[h]
             n == Len(drawn[h])
             f == keccak_absorb(m)
             l == Rate - 1
  <1>2. ASSUME phase[h] = "squeezing" PROVE drawn[h] = XofOutput(m, n) /\ drawn[h] = shake(n, m)
    <2>1. n \in Nat /\ drawn[h] = Out(f, 0, n)
      BY <1>1, <1>2 DEF HandleInv, Squeezing
    <2> HIDE DEF n
    <2> QED BY <1>1, <2>1, XofIs, ShakeIs
  <1>3. ASSUME phase[h] = "absorbing"
        PROVE  XofOutput(m, l) = sha3(l, m) /\ XofOutput(m, l) = sha3_inc_finalize(ctx[h], l)
    <2>1. ctx[h] = Held(m)
      BY <1>1, <1>3 DEF HandleInv, Absorbing
    <2>2. l \in Nat
      BY RateIs
    <2>3. sha3(l, m) = Out(f, 0, l) /\ sha3_inc_finalize(Held(m), l) = Out(f, 0, l)
      BY <1>1, Sha3Is
    <2> HIDE DEF l
    <2> QED BY <1>1, <2>1, <2>2, <2>3, XofIs
  <1> QED BY <1>2, <1>3

(* However a message is cut into pieces for the absorb calls and the       *)
(* output for the squeeze calls, and whatever contexts are cloned and      *)
(* released, the output is the sponge's over the whole message, and that   *)
(* of the one-shot calls (fips202.c): for every rate and width.            *)
THEOREM AbsorbInPieces == SpongeSpec => []XofIsSponge
  BY SpongeInitInv, SpongeStepInv, SpongeInvShows, PTL DEF SpongeSpec

-----------------------------------------------------------------------------
(* The function that a step defines by induction.                          *)

(* f follows step from x on, for n steps; step takes the number of the     *)
(* step and the value so far.                                              *)
Follows(f, x, step, n) ==
    f[0] = x /\ \A i \in 0 .. n - 1 : f[i + 1] = step[<<i, f[i]>>]

LEMMA FollowsUpTo ==
    ASSUME NEW S, NEW x \in S, NEW step \in [Nat \X S -> S]
    PROVE  \A n \in Nat : \E f \in [0 .. n -> S] : Follows(f, x, step, n)
  <1> DEFINE T == {n \in Nat : \E f \in [0 .. n -> S] : Follows(f, x, step, n)}
  <1>1. 0 \in T
    <2> DEFINE f == [i \in 0 .. 0 |-> x]
    <2>1. f \in [0 .. 0 -> S] /\ Follows(f, x, step, 0)
      BY DEF Follows
    <2> QED BY <2>1
  <1>2. ASSUME NEW n \in Nat, n \in T PROVE n + 1 \in T
    <2>1. PICK f \in [0 .. n -> S] : Follows(f, x, step, n)
      BY <1>2
    <2> DEFINE g == [i \in 0 .. n + 1 |-> IF i = n + 1 THEN step[<<n, f[n]>>] ELSE f[i]]
    <2>2. f[n] \in S /\ <<n, f[n]>> \in Nat \X S
      OBVIOUS
    <2>3. g \in [0 .. n + 1 -> S]
      BY <2>2
    <2>4. g[0] = x
      BY <2>1 DEF Follows
    <2>5. ASSUME NEW i \in 0 .. n PROVE g[i + 1] = step[<<i, g[i]>>]
      <3>1. g[i] = f[i]
        OBVIOUS
      <3>2. CASE i = n
        <4>1. i + 1 \in 0 .. n + 1 /\ i + 1 = n + 1
          BY <3>2
        <4>2. g[i + 1] = step[<<n, f[n]>>]
          BY <4>1
        <4> QED BY <3>1, <3>2, <4>2
      <3>3. CASE i # n
        <4>1. i \in 0 .. n - 1 /\ i + 1 \in 0 .. n + 1 /\ i + 1 # n + 1
          BY <3>3
        <4>2. g[i + 1] = f[i + 1]
          BY <4>1
        <4>3. f[i + 1] = step[<<i, f[i]>>]
          BY <2>1, <4>1 DEF Follows
        <4> QED BY <3>1, <4>2, <4>3
      <3> QED BY <3>2, <3>3
    <2> HIDE DEF g
    <2>6. 0 .. (n + 1) - 1 = 0 .. n
      OBVIOUS
    <2>7. Follows(g, x, step, n + 1)
      BY <2>4, <2>5, <2>6 DEF Follows
    <2> QED BY <2>3, <2>7
  <1> HIDE DEF T
  <1>3. \A n \in Nat : n \in T
    BY <1>1, <1>2, SetInduction
  <1> QED BY <1>3 DEF T

LEMMA FollowsOnce ==
    ASSUME NEW x, NEW step, NEW n \in Nat, NEW m \in Nat, n <= m, NEW f, NEW g,
           Follows(f, x, step, n), Follows(g, x, step, m)
    PROVE  \A i \in 0 .. n : f[i] = g[i]
  <1> DEFINE T == {i \in Nat : i <= n => f[i] = g[i]}
  <1>1. 0 \in T
    BY DEF Follows
  <1>2. ASSUME NEW i \in Nat, i \in T PROVE i + 1 \in T
    <2>1. CASE i + 1 <= n
      <3>1. i \in 0 .. n - 1 /\ i \in 0 .. m - 1 /\ i <= n
        BY <2>1
      <3>2. f[i + 1] = step[<<i, f[i]>>] /\ g[i + 1] = step[<<i, g[i]>>]
        BY <3>1 DEF Follows
      <3> QED BY <1>2, <3>1, <3>2
    <2> QED BY <2>1
  <1> HIDE DEF T
  <1>3. \A i \in Nat : i \in T
    BY <1>1, <1>2, SetInduction
  <1> QED BY <1>3 DEF T

Recursive(f, x, step) == f[0] = x /\ \A n \in Nat : f[n + 1] = step[<<n, f[n]>>]

LEMMA Recursion ==
    ASSUME NEW S, NEW x \in S, NEW step \in [Nat \X S -> S]
    PROVE  \E f \in [Nat -> S] : Recursive(f, x, step)
  <1> DEFINE Part(n) == CHOOSE f \in [0 .. n -> S] : Follows(f, x, step, n)
             whole == [n \in Nat |-> Part(n)[n]]
  <1>1. \A n \in Nat : Part(n) \in [0 .. n -> S] /\ Follows(Part(n), x, step, n)
    BY FollowsUpTo
  <1> HIDE DEF Part
  <1>2. whole \in [Nat -> S]
    BY <1>1
  <1>3. whole[0] = x
    BY <1>1 DEF Follows
  <1>4. ASSUME NEW n \in Nat PROVE whole[n + 1] = step[<<n, whole[n]>>]
    <2> DEFINE m == n + 1
    <2>1. m \in Nat /\ n <= m /\ n \in 0 .. m - 1 /\ n \in 0 .. n
      OBVIOUS
    <2>2. whole[m] = Part(m)[m] /\ whole[n] = Part(n)[n]
      OBVIOUS
    <2>3. Part(m)[n + 1] = step[<<n, Part(m)[n]>>]
      <3> HIDE DEF m
      <3> QED BY <1>1, <2>1 DEF Follows
    <2>4. Part(n)[n] = Part(m)[n]
      <3> HIDE DEF m
      <3>1. Follows(Part(n), x, step, n) /\ Follows(Part(m), x, step, m)
        BY <1>1, <2>1
      <3> QED BY <3>1, <2>1, FollowsOnce
    <2> QED BY <2>2, <2>3, <2>4
  <1> HIDE DEF whole
  <1> QED BY <1>2, <1>3, <1>4 DEF Recursive

-----------------------------------------------------------------------------
(* The loops of the hint.                                                  *)

LEMMA OnesUnfold ==
    ASSUME NEW poly
    PROVE  /\ Ones(poly, 0) = <<>>
           /\ \A n \in Nat : /\ Ones(poly, n) \in Seq(Nat)
                             /\ Ones(poly, n + 1) =
                                  IF poly[n] # 0 THEN Append(Ones(poly, n), n)
                                  ELSE Ones(poly, n)
  <1> DEFINE step == [p \in Nat \X Seq(Nat) |->
                        IF poly[p[1]] # 0 THEN Append(p[2], p[1]) ELSE p[2]]
  <1>1. step \in [Nat \X Seq(Nat) -> Seq(Nat)] /\ <<>> \in Seq(Nat)
    OBVIOUS
  <1>2. PICK f \in [Nat -> Seq(Nat)] :
            f[0] = <<>> /\ \A n \in Nat : f[n + 1] = step[<<n, f[n]>>]
    <2> HIDE DEF step
    <2>1. \E f \in [Nat -> Seq(Nat)] : Recursive(f, <<>>, step)
      BY <1>1, Recursion
    <2> QED BY <2>1 DEF Recursive
  <1>3. \A n \in Nat : f[n + 1] = IF poly[n] # 0 THEN Append(f[n], n) ELSE f[n]
    BY <1>2
  <1> HIDE DEF step
  <1>4. ASSUME NEW n \in Nat PROVE Ones(poly, n) = f[n]
    <2> DEFINE Is(o) == o = [j \in 0 .. n |->
            IF j = 0 THEN <<>>
            ELSE IF poly[j - 1] # 0 THEN Append(o[j - 1], j - 1) ELSE o[j - 1]]
    <2> DEFINE g == [j \in 0 .. n |-> f[j]]
    <2>1. \A j \in 0 .. n : g[j] =
            IF j = 0 THEN <<>>
            ELSE IF poly[j - 1] # 0 THEN Append(g[j - 1], j - 1) ELSE g[j - 1]
      <3> SUFFICES ASSUME NEW j \in 0 .. n
                   PROVE  g[j] =
            IF j = 0 THEN <<>>
            ELSE IF poly[j - 1] # 0 THEN Append(g[j - 1], j - 1) ELSE g[j - 1]
        OBVIOUS
      <3>0. CASE j = 0
        BY <3>0, <1>2
      <3> SUFFICES ASSUME j # 0
                   PROVE  g[j] = IF poly[j - 1] # 0 THEN Append(g[j - 1], j - 1)
                                 ELSE g[j - 1]
        BY <3>0
      <3>1. j - 1 \in Nat /\ j - 1 \in 0 .. n /\ (j - 1) + 1 = j
        OBVIOUS
      <3>2. g[j] = f[j] /\ g[j - 1] = f[j - 1]
        BY <3>1
      <3>3. f[j] = IF poly[j - 1] # 0 THEN Append(f[j - 1], j - 1) ELSE f[j - 1]
        BY <1>3, <3>1
      <3> QED BY <3>2, <3>3
    <2>2. Is(g)
      BY <2>1
    <2> DEFINE o == CHOOSE o : Is(o)
    <2>3. Ones(poly, n) = o[n]
      BY DEF Ones
    <2>4. Is(o)
      <3> HIDE DEF Is, g
      <3> QED BY <2>2
    <2>5. \A j \in 0 .. n : o[j] =
            IF j = 0 THEN <<>>
            ELSE IF poly[j - 1] # 0 THEN Append(o[j - 1], j - 1) ELSE o[j - 1]
      <3> HIDE DEF o
      <3> QED BY <2>4
    <2> HIDE DEF o, Is, g
    <2> DEFINE T == {j \in Nat : j <= n => o[j] = f[j]}
    <2>6. 0 \in T
      BY <2>5, <1>2
    <2>7. ASSUME NEW j \in Nat, j \in T PROVE j + 1 \in T
      <3>1. CASE j + 1 <= n
        <4>1. j + 1 \in 0 .. n /\ j + 1 # 0 /\ (j + 1) - 1 = j /\ j <= n
          BY <3>1
        <4>2. o[j + 1] = IF poly[j] # 0 THEN Append(o[j], j) ELSE o[j]
          BY <4>1, <2>5
        <4>3. o[j] = f[j]
          BY <4>1, <2>7
        <4>4. o[j + 1] = f[j + 1]
          BY <4>2, <4>3, <1>3
        <4> QED BY <4>4
      <3> QED BY <3>1
    <2> HIDE DEF T
    <2>8. n \in T
      BY <2>6, <2>7, SetInduction
    <2> QED BY <2>3, <2>8 DEF T
  <1>5. Ones(poly, 0) = <<>>
    BY <1>2, <1>4
  <1>6. ASSUME NEW n \in Nat
        PROVE  /\ Ones(poly, n) \in Seq(Nat)
               /\ Ones(poly, n + 1) =
                    IF poly[n] # 0 THEN Append(Ones(poly, n), n) ELSE Ones(poly, n)
    <2>1. Ones(poly, n) = f[n] /\ Ones(poly, n + 1) = f[n + 1]
      BY <1>4
    <2> QED BY <2>1, <1>2, <1>3
  <1> QED BY <1>5, <1>6

LEMMA PositionsUnfold ==
    ASSUME NEW h
    PROVE  /\ Positions(h, 0) = <<>>
           /\ \A n \in Nat : /\ Positions(h, n) \in Seq(Nat)
                             /\ Positions(h, n + 1) = Positions(h, n) \o Ones(h[n + 1], N)
  <1> DEFINE step == [p \in Nat \X Seq(Nat) |-> p[2] \o Ones(h[p[1] + 1], N)]
  <1>1. step \in [Nat \X Seq(Nat) -> Seq(Nat)] /\ <<>> \in Seq(Nat)
    <2>1. \A n \in Nat : Ones(h[n + 1], N) \in Seq(Nat)
      BY OnesUnfold, ParamsAssumption
    <2> QED BY <2>1
  <1>2. PICK f \in [Nat -> Seq(Nat)] :
            f[0] = <<>> /\ \A n \in Nat : f[n + 1] = step[<<n, f[n]>>]
    <2> HIDE DEF step
    <2>1. \E f \in [Nat -> Seq(Nat)] : Recursive(f, <<>>, step)
      BY <1>1, Recursion
    <2> QED BY <2>1 DEF Recursive
  <1>3. \A n \in Nat : f[n + 1] = f[n] \o Ones(h[n + 1], N)
    BY <1>2
  <1> HIDE DEF step
  <1>4. ASSUME NEW n \in Nat PROVE Positions(h, n) = f[n]
    <2> DEFINE Is(o) == o = [i \in 0 .. n |->
            IF i = 0 THEN <<>> ELSE o[i - 1] \o Ones(h[i], N)]
    <2> DEFINE g == [i \in 0 .. n |-> f[i]]
    <2>1. \A i \in 0 .. n : g[i] = IF i = 0 THEN <<>> ELSE g[i - 1] \o Ones(h[i], N)
      <3> SUFFICES ASSUME NEW i \in 0 .. n
                   PROVE  g[i] = IF i = 0 THEN <<>> ELSE g[i - 1] \o Ones(h[i], N)
        OBVIOUS
      <3>0. CASE i = 0
        BY <3>0, <1>2
      <3> SUFFICES ASSUME i # 0 PROVE g[i] = g[i - 1] \o Ones(h[i], N)
        BY <3>0
      <3>1. i - 1 \in Nat /\ i - 1 \in 0 .. n /\ (i - 1) + 1 = i
        OBVIOUS
      <3>2. g[i] = f[i] /\ g[i - 1] = f[i - 1]
        BY <3>1
      <3>3. f[i] = f[i - 1] \o Ones(h[i], N)
        BY <1>3, <3>1
      <3> QED BY <3>2, <3>3
    <2>2. Is(g)
      BY <2>1
    <2> DEFINE o == CHOOSE o : Is(o)
    <2>3. Positions(h, n) = o[n]
      BY DEF Positions
    <2>4. Is(o)
      <3> HIDE DEF Is, g
      <3> QED BY <2>2
    <2>5. \A i \in 0 .. n : o[i] = IF i = 0 THEN <<>> ELSE o[i - 1] \o Ones(h[i], N)
      <3> HIDE DEF o
      <3> QED BY <2>4
    <2> HIDE DEF o, Is, g
    <2> DEFINE T == {i \in Nat : i <= n => o[i] = f[i]}
    <2>6. 0 \in T
      BY <2>5, <1>2
    <2>7. ASSUME NEW i \in Nat, i \in T PROVE i + 1 \in T
      <3>1. CASE i + 1 <= n
        <4>1. i + 1 \in 0 .. n /\ i + 1 # 0 /\ (i + 1) - 1 = i /\ i <= n
          BY <3>1
        <4>2. o[i + 1] = o[i] \o Ones(h[i + 1], N)
          BY <4>1, <2>5
        <4>3. o[i] = f[i]
          BY <4>1, <2>7
        <4>4. o[i + 1] = f[i + 1]
          BY <4>2, <4>3, <1>3
        <4> QED BY <4>4
      <3> QED BY <3>1
    <2> HIDE DEF T
    <2>8. n \in T
      BY <2>6, <2>7, SetInduction
    <2> QED BY <2>3, <2>8 DEF T
  <1>5. Positions(h, 0) = <<>>
    BY <1>2, <1>4
  <1>6. ASSUME NEW n \in Nat
        PROVE  /\ Positions(h, n) \in Seq(Nat)
               /\ Positions(h, n + 1) = Positions(h, n) \o Ones(h[n + 1], N)
    <2>1. Positions(h, n) = f[n] /\ Positions(h, n + 1) = f[n + 1]
      BY <1>4
    <2> QED BY <2>1, <1>2, <1>3
  <1> QED BY <1>5, <1>6

(* FlattenSeq joins piece after piece.                                     *)
IsJoin(f, pieces) ==
    /\ FlattenSeq(pieces) = f[Len(pieces)]
    /\ f[0] = <<>>
    /\ \A n \in 0 .. Len(pieces) - 1 : f[n + 1] = f[n] \o pieces[n + 1]

LEMMA FlattenUnfold ==
    ASSUME NEW B, NEW pieces \in Seq(Seq(B)), Len(pieces) > 0
    PROVE  \E f \in [Nat -> Seq(B)] : IsJoin(f, pieces)
  <1> DEFINE m == Len(pieces)
             piece(n) == IF n \in 1 .. m THEN pieces[n] ELSE <<>>
             step == [p \in Nat \X Seq(B) |-> p[2] \o piece(p[1] + 1)]
  <1>0. m \in Nat /\ m > 0 /\ \A n \in 1 .. m : pieces[n] \in Seq(B)
    OBVIOUS
  <1>1. step \in [Nat \X Seq(B) -> Seq(B)] /\ <<>> \in Seq(B)
    <2>1. \A n \in Nat : piece(n + 1) \in Seq(B)
      BY <1>0
    <2> HIDE DEF piece
    <2> QED BY <2>1
  <1>2. PICK f \in [Nat -> Seq(B)] :
            f[0] = <<>> /\ \A n \in Nat : f[n + 1] = step[<<n, f[n]>>]
    <2> HIDE DEF step
    <2>1. \E f \in [Nat -> Seq(B)] : Recursive(f, <<>>, step)
      BY <1>1, Recursion
    <2> QED BY <2>1 DEF Recursive
  <1>3. ASSUME NEW n \in Nat, n + 1 <= m PROVE f[n + 1] = f[n] \o pieces[n + 1]
    <2>1. f[n + 1] = f[n] \o piece(n + 1)
      BY <1>2
    <2>2. n + 1 \in 1 .. m
      BY <1>0, <1>3
    <2> QED BY <2>1, <2>2
  <1> HIDE DEF step
  <1>4. f[1] = pieces[1]
    <2>1. 0 + 1 <= m
      BY <1>0
    <2> HIDE DEF m
    <2>2. f[0 + 1] = f[0] \o pieces[0 + 1]
      BY <1>3, <2>1
    <2>3. pieces[1] \in Seq(B)
      BY <1>0
    <2> QED BY <2>2, <2>3, <1>2
  <1>5. FlattenSeq(pieces) = f[m]
    <2> DEFINE Is(o) == o = [i \in 1 .. m |->
            IF i = 1 THEN pieces[i] ELSE o[i - 1] \o pieces[i]]
    <2> DEFINE g == [i \in 1 .. m |-> f[i]]
    <2>1. \A i \in 1 .. m : g[i] = IF i = 1 THEN pieces[i] ELSE g[i - 1] \o pieces[i]
      <3> SUFFICES ASSUME NEW i \in 1 .. m
                   PROVE  g[i] = IF i = 1 THEN pieces[i] ELSE g[i - 1] \o pieces[i]
        OBVIOUS
      <3>0. CASE i = 1
        BY <3>0, <1>4
      <3> SUFFICES ASSUME i # 1 PROVE g[i] = g[i - 1] \o pieces[i]
        BY <3>0
      <3>1. i - 1 \in Nat /\ i - 1 \in 1 .. m /\ (i - 1) + 1 = i /\ i \in 1 .. m
        BY <1>0
      <3>2. g[i] = f[i] /\ g[i - 1] = f[i - 1]
        BY <3>1
      <3>3. f[i] = f[i - 1] \o pieces[i]
        <4> DEFINE k == i - 1
        <4>1. k \in Nat /\ k + 1 <= m /\ k + 1 = i
          BY <3>1, <1>0
        <4> HIDE DEF k
        <4>2. f[k + 1] = f[k] \o pieces[k + 1]
          BY <4>1, <1>3
        <4> QED BY <4>1, <4>2 DEF k
      <3> QED BY <3>2, <3>3
    <2>2. Is(g)
      BY <2>1
    <2> DEFINE o == CHOOSE o : Is(o)
    <2>3. FlattenSeq(pieces) = o[m]
      BY <1>0 DEF FlattenSeq
    <2>4. Is(o)
      <3> HIDE DEF Is, g
      <3> QED BY <2>2
    <2>5. \A i \in 1 .. m : o[i] = IF i = 1 THEN pieces[i] ELSE o[i - 1] \o pieces[i]
      <3> HIDE DEF o
      <3> QED BY <2>4
    <2> HIDE DEF o, Is, g
    <2> DEFINE T == {i \in Nat : i + 1 <= m => o[i + 1] = f[i + 1]}
    <2>6. 0 \in T
      <3>1. 1 <= m => 1 \in 1 .. m
        BY <1>0
      <3>2. 0 + 1 <= m => o[0 + 1] = f[0 + 1]
        <4>1. 0 + 1 = 1
          OBVIOUS
        <4> QED BY <3>1, <2>5, <1>4, <4>1
      <3> QED BY <3>2
    <2>7. ASSUME NEW i \in Nat, i \in T PROVE i + 1 \in T
      <3> DEFINE k == i + 1
      <3>1. CASE k + 1 <= m
        <4>1. k + 1 \in 1 .. m /\ k + 1 # 1 /\ (k + 1) - 1 = k /\ k <= m /\ k \in Nat
          <5> HIDE DEF m
          <5>1. k \in Nat /\ k + 1 # 1 /\ k >= 1
            BY DEF T
          <5> HIDE DEF k
          <5> QED BY <3>1, <1>0, <5>1
        <4> HIDE DEF k
        <4>2. o[k + 1] = o[k] \o pieces[k + 1]
          BY <4>1, <2>5
        <4>3. o[k] = f[k]
          BY <4>1, <2>7 DEF k
        <4>4. f[k + 1] = f[k] \o pieces[k + 1]
          BY <4>1, <3>1, <1>3
        <4>5. k \in T
          BY <4>1, <4>2, <4>3, <4>4
        <4> QED BY <4>5 DEF k
      <3>2. CASE ~(k + 1 <= m)
        BY <3>2
      <3> QED BY <3>1, <3>2
    <2>8. m - 1 \in T
      <3>1. m - 1 \in Nat
        BY <1>0
      <3> HIDE DEF T
      <3> QED BY <2>6, <2>7, <3>1, SetInduction
    <2>9. (m - 1) + 1 = m /\ m \in Nat
      BY <1>0
    <2> QED BY <2>3, <2>8, <2>9
  <1>6. \A n \in 0 .. m - 1 : f[n + 1] = f[n] \o pieces[n + 1]
    <2> SUFFICES ASSUME NEW n \in 0 .. m - 1 PROVE f[n + 1] = f[n] \o pieces[n + 1]
      OBVIOUS
    <2>1. n \in Nat /\ n + 1 <= m
      BY <1>0
    <2> HIDE DEF m
    <2> QED BY <1>3, <2>1
  <1>7. IsJoin(f, pieces)
    BY <1>2, <1>5, <1>6 DEF IsJoin
  <1> QED BY <1>7

-----------------------------------------------------------------------------
(* Ascending positions.                                                    *)

LEMMA Slice ==
    ASSUME NEW B, NEW s \in Seq(B), NEW m \in Nat, NEW n \in Nat, m <= n, n <= Len(s)
    PROVE  /\ SubSeq(s, m + 1, n) \in Seq(B)
           /\ Len(SubSeq(s, m + 1, n)) = n - m
           /\ \A i \in 1 .. n - m : SubSeq(s, m + 1, n)[i] = s[m + i]
  <1>1. \A i \in m + 1 .. n : s[i] \in B
    OBVIOUS
  <1>2. m + 1 \in Int /\ n \in Int
    OBVIOUS
  <1> DEFINE k == m + 1
  <1>3. /\ SubSeq(s, k, n) \in Seq(B)
        /\ Len(SubSeq(s, k, n)) = IF k <= n THEN n - k + 1 ELSE 0
        /\ \A i \in 1 .. n - k + 1 : SubSeq(s, k, n)[i] = s[k + i - 1]
    <2>1. k \in Int /\ n \in Int /\ \A i \in k .. n : s[i] \in B
      BY <1>1, <1>2
    <2> HIDE DEF k
    <2> QED BY <2>1, SubSeqProperties
  <1>4. /\ n - k + 1 = n - m
        /\ k <= n => m < n
        /\ ~(k <= n) => n - m = 0
        /\ \A i \in Int : k + i - 1 = m + i
    OBVIOUS
  <1> DEFINE u == SubSeq(s, k, n)
  <1>5. u \in Seq(B) /\ Len(u) = n - m
    BY <1>3, <1>4
  <1>6. \A i \in 1 .. n - m : u[i] = s[m + i]
    <2> SUFFICES ASSUME NEW i \in 1 .. n - m PROVE u[i] = s[m + i]
      OBVIOUS
    <2>1. i \in 1 .. n - k + 1 /\ k + i - 1 = m + i
      BY <1>4
    <2> HIDE DEF k
    <2> QED BY <2>1, <1>3
  <1> QED BY <1>5, <1>6

Ascending(t) == \A a \in 2 .. Len(t) : t[a] > t[a - 1]

LEMMA AscendingPairs ==
    ASSUME NEW t \in Seq(Nat), Ascending(t)
    PROVE  \A a, b \in 1 .. Len(t) : a < b => t[a] < t[b]
  <1> SUFFICES ASSUME NEW a \in 1 .. Len(t)
               PROVE  \A b \in 1 .. Len(t) : a < b => t[a] < t[b]
    OBVIOUS
  <1> DEFINE T == {b \in Nat : b \in 1 .. Len(t) /\ a < b => t[a] < t[b]}
  <1>1. 0 \in T
    OBVIOUS
  <1>2. ASSUME NEW b \in Nat, b \in T PROVE b + 1 \in T
    <2> SUFFICES ASSUME b + 1 \in 1 .. Len(t), a < b + 1 PROVE t[a] < t[b + 1]
      OBVIOUS
    <2>1. b + 1 \in 2 .. Len(t) /\ (b + 1) - 1 = b /\ b \in 1 .. Len(t)
      OBVIOUS
    <2>2. t[b + 1] > t[b]
      BY <2>1 DEF Ascending
    <2>3. a = b \/ a < b
      OBVIOUS
    <2>4. t[a] <= t[b]
      <3>1. CASE a = b
        BY <3>1, <2>1
      <3>2. CASE a < b
        BY <3>2, <2>1, <1>2
      <3> QED BY <2>3, <3>1, <3>2
    <2>5. t[a] \in Nat /\ t[b] \in Nat /\ t[b + 1] \in Nat
      BY <2>1
    <2> QED BY <2>2, <2>4, <2>5
  <1> HIDE DEF T
  <1>3. \A b \in Nat : b \in T
    BY <1>1, <1>2, SetInduction
  <1> QED BY <1>3 DEF T

Within(t, u) == \A a \in 1 .. Len(t) : \E b \in 1 .. Len(u) : t[a] = u[b]

(* A set has one enumeration in ascending order.                           *)
LEMMA AscendingSame ==
    ASSUME NEW t \in Seq(Nat), NEW u \in Seq(Nat), Ascending(t), Ascending(u),
           Within(t, u), Within(u, t)
    PROVE  t = u
  <1> DEFINE n == Len(t)
             m == Len(u)
  <1>0. /\ n \in Nat /\ \A a \in 1 .. n : t[a] \in Nat
        /\ m \in Nat /\ \A a \in 1 .. m : u[a] \in Nat
        /\ \A a \in 1 .. n : \E b \in 1 .. m : t[a] = u[b]
        /\ \A a \in 1 .. m : \E b \in 1 .. n : u[a] = t[b]
    <2>1. /\ n \in Nat /\ \A a \in 1 .. n : t[a] \in Nat
          /\ m \in Nat /\ \A a \in 1 .. m : u[a] \in Nat
      OBVIOUS
    <2>2. /\ \A a \in 1 .. n : \E b \in 1 .. m : t[a] = u[b]
          /\ \A a \in 1 .. m : \E b \in 1 .. n : u[a] = t[b]
      BY Zenon DEF Within
    <2> QED BY <2>1, <2>2
  <1>1. \A a, b \in 1 .. n : a < b => t[a] < t[b]
    BY AscendingPairs
  <1>2. \A a, b \in 1 .. m : a < b => u[a] < u[b]
    BY AscendingPairs
  <1> HIDE DEF n, m
  <1> DEFINE Agree(i) == \A a \in 1 .. i : /\ a \in 1 .. n <=> a \in 1 .. m
                                           /\ a \in 1 .. n => t[a] = u[a]
             T == {i \in Nat : Agree(i)}
  <1>3. 0 \in T
    OBVIOUS
  <1>4. ASSUME NEW i \in Nat, i \in T PROVE i + 1 \in T
    <2> DEFINE k == i + 1
    <2>0. k \in Nat /\ k >= 1 /\ \A a \in 1 .. k : a = k \/ (a \in 1 .. i /\ a < k)
      OBVIOUS
    <2>1. \A a \in Nat : a >= 1 /\ a < k => a \in 1 .. i
      OBVIOUS
    <2>2. Agree(i)
      BY <1>4
    <2> HIDE DEF k
    <2>3. ASSUME k \in 1 .. n PROVE k \in 1 .. m
      <3>1. PICK b \in 1 .. m : t[k] = u[b]
        BY <2>3, <1>0
      <3>2. ~(b < k)
        <4> SUFFICES ASSUME b < k PROVE FALSE
          OBVIOUS
        <4>1. b \in 1 .. i /\ b \in 1 .. n
          BY <2>1, <2>2
        <4>2. t[b] = u[b] /\ t[b] < t[k]
          BY <4>1, <2>2, <1>1, <2>3
        <4>3. t[k] \in Nat
          BY <2>3, <1>0
        <4> QED BY <4>2, <4>3, <3>1
      <3> QED BY <3>2, <2>0, <1>0
    <2>4. ASSUME k \in 1 .. m PROVE k \in 1 .. n
      <3>1. PICK b \in 1 .. n : u[k] = t[b]
        BY <2>4, <1>0
      <3>2. ~(b < k)
        <4> SUFFICES ASSUME b < k PROVE FALSE
          OBVIOUS
        <4>1. b \in 1 .. i /\ b \in 1 .. m
          BY <2>1, <2>2
        <4>2. t[b] = u[b] /\ u[b] < u[k]
          BY <4>1, <2>2, <1>2, <2>4
        <4>3. u[k] \in Nat
          BY <2>4, <1>0
        <4> QED BY <4>2, <4>3, <3>1
      <3> QED BY <3>2, <2>0, <1>0
    <2>5. ASSUME k \in 1 .. n, k \in 1 .. m PROVE t[k] = u[k]
      <3>0. t[k] \in Nat /\ u[k] \in Nat
        BY <2>5, <1>0
      <3>1. PICK b \in 1 .. m : t[k] = u[b]
        BY <2>5, <1>0
      <3>2. PICK c \in 1 .. n : u[k] = t[c]
        BY <2>5, <1>0
      <3>3. ~(b < k)
        <4> SUFFICES ASSUME b < k PROVE FALSE
          OBVIOUS
        <4>1. b \in 1 .. i /\ b \in 1 .. n
          BY <2>1, <2>2
        <4>2. t[b] = u[b] /\ t[b] < t[k]
          BY <4>1, <2>2, <1>1, <2>5
        <4> QED BY <4>2, <3>0, <3>1
      <3>4. ~(c < k)
        <4> SUFFICES ASSUME c < k PROVE FALSE
          OBVIOUS
        <4>1. c \in 1 .. i /\ c \in 1 .. m
          BY <2>1, <2>2
        <4>2. t[c] = u[c] /\ u[c] < u[k]
          BY <4>1, <2>2, <1>2, <2>5
        <4> QED BY <4>2, <3>0, <3>2
      <3>5. b = k \/ u[k] < t[k]
        <4>1. CASE k < b
          BY <4>1, <3>1, <1>2, <2>5
        <4> QED BY <4>1, <3>3, <2>0
      <3>6. c = k \/ t[k] < u[k]
        <4>1. CASE k < c
          BY <4>1, <3>2, <1>1, <2>5
        <4> QED BY <4>1, <3>4, <2>0
      <3> QED BY <3>0, <3>1, <3>2, <3>5, <3>6
    <2>6. Agree(k)
      <3> SUFFICES ASSUME NEW a \in 1 .. k
                   PROVE  /\ a \in 1 .. n <=> a \in 1 .. m
                          /\ a \in 1 .. n => t[a] = u[a]
        OBVIOUS
      <3>1. CASE a = k
        BY <3>1, <2>3, <2>4, <2>5
      <3>2. CASE a \in 1 .. i
        BY <3>2, <2>2
      <3> QED BY <3>1, <3>2, <2>0
    <2>7. k \in T
      BY <2>0, <2>6
    <2> QED BY <2>7 DEF k
  <1>5. \A i \in Nat : i \in T
    <2> HIDE DEF T
    <2> QED BY <1>3, <1>4, SetInduction
  <1>7. Agree(n) /\ Agree(m)
    BY <1>5, <1>0
  <1>8. n = m
    <2>1. n >= 1 => n <= m
      <3>1. n >= 1 => n \in 1 .. n
        BY <1>0
      <3> QED BY <3>1, <1>7
    <2>2. m >= 1 => m <= n
      <3>1. m >= 1 => m \in 1 .. m
        BY <1>0
      <3> QED BY <3>1, <1>7
    <2> QED BY <2>1, <2>2, <1>0
  <1>9. \A a \in 1 .. n : t[a] = u[a]
    BY <1>7, <1>8
  <1> QED BY <1>8, <1>9, SeqEqual DEF n, m

(* The positions of a polynomial that are not zero, in ascending order.    *)
Lists(t, poly, n) ==
    /\ Ascending(t)
    /\ \A a \in 1 .. Len(t) : t[a] < n /\ poly[t[a]] # 0
    /\ \A j \in 0 .. n - 1 : poly[j] # 0 => \E a \in 1 .. Len(t) : t[a] = j

LEMMA OnesList ==
    ASSUME NEW poly, NEW n \in Nat
    PROVE  Ones(poly, n) \in Seq(Nat) /\ Lists(Ones(poly, n), poly, n)
  <1> DEFINE T == {i \in Nat : Lists(Ones(poly, i), poly, i)}
  <1>1. 0 \in T
    <2>1. Ones(poly, 0) = <<>>
      BY OnesUnfold
    <2>2. Lists(<<>>, poly, 0)
      BY DEF Lists, Ascending
    <2> QED BY <2>1, <2>2
  <1>2. ASSUME NEW i \in Nat, i \in T PROVE i + 1 \in T
    <2> DEFINE s == Ones(poly, i)
    <2>1. s \in Seq(Nat) /\ Lists(s, poly, i)
      BY <1>2, OnesUnfold
    <2>2. Ones(poly, i + 1) = IF poly[i] # 0 THEN Append(s, i) ELSE s
      BY OnesUnfold
    <2> HIDE DEF s
    <2>3. \A a \in 1 .. Len(s) : s[a] \in Nat
      BY <2>1
    <2>4. CASE poly[i] = 0
      <3>1. \A j \in 0 .. (i + 1) - 1 : poly[j] # 0 => j \in 0 .. i - 1
        BY <2>4
      <3>2. \A a \in 1 .. Len(s) : s[a] < i + 1
        BY <2>1, <2>3 DEF Lists
      <3>3. Lists(s, poly, i + 1)
        BY <2>1, <3>1, <3>2 DEF Lists
      <3> QED BY <3>3, <2>2, <2>4
    <2>5. CASE poly[i] # 0
      <3> DEFINE t == Append(s, i)
      <3>1. /\ Len(s) \in Nat /\ Len(t) = Len(s) + 1
            /\ \A a \in 1 .. Len(s) : t[a] = s[a]
            /\ t[Len(s) + 1] = i
        BY <2>1
      <3> DEFINE l == Len(s)
      <3>2. l \in Nat /\ Len(t) = l + 1 /\ t[l + 1] = i /\ \A a \in 1 .. l : t[a] = s[a]
        BY <3>1
      <3>3. /\ \A a \in 2 .. l : s[a] > s[a - 1]
            /\ \A a \in 1 .. l : s[a] < i /\ poly[s[a]] # 0 /\ s[a] \in Nat
            /\ \A j \in 0 .. i - 1 : poly[j] # 0 => \E a \in 1 .. l : s[a] = j
        BY <2>1, <2>3 DEF Lists, Ascending
      <3> HIDE DEF t, l
      <3>4. Ascending(t)
        <4> SUFFICES ASSUME NEW a \in 2 .. l + 1 PROVE t[a] > t[a - 1]
          BY <3>2 DEF Ascending
        <4>1. CASE a \in 2 .. l
          <5>1. a - 1 \in 1 .. l /\ a \in 1 .. l
            BY <4>1, <3>2
          <5> QED BY <5>1, <4>1, <3>2, <3>3
        <4>2. CASE a = l + 1
          <5>1. a - 1 = l /\ l \in 1 .. l
            BY <4>2, <3>2
          <5>2. t[l] < i
            BY <5>1, <3>2, <3>3
          <5>3. t[l] \in Nat
            BY <5>1, <3>2, <3>3
          <5> QED BY <5>1, <5>2, <5>3, <4>2, <3>2
        <4> QED BY <4>1, <4>2, <3>2
      <3>5. ASSUME NEW a \in 1 .. l + 1 PROVE t[a] < i + 1 /\ poly[t[a]] # 0
        <4>1. CASE a \in 1 .. l
          <5>1. t[a] = s[a] /\ s[a] < i /\ poly[s[a]] # 0 /\ s[a] \in Nat
            BY <4>1, <3>2, <3>3
          <5> QED BY <5>1
        <4>2. CASE a = l + 1
          BY <4>2, <3>2, <2>5
        <4> QED BY <4>1, <4>2, <3>2
      <3>6. ASSUME NEW j \in 0 .. (i + 1) - 1, poly[j] # 0
            PROVE  \E a \in 1 .. l + 1 : t[a] = j
        <4>1. CASE j = i
          <5>1. l + 1 \in 1 .. l + 1
            BY <3>2
          <5> QED BY <5>1, <4>1, <3>2
        <4>2. CASE j \in 0 .. i - 1
          <5>1. PICK a \in 1 .. l : s[a] = j
            BY <4>2, <3>3, <3>6
          <5>2. a \in 1 .. l + 1
            BY <3>2
          <5> QED BY <5>1, <5>2, <3>2
        <4> QED BY <4>1, <4>2
      <3>7. Lists(t, poly, i + 1)
        BY <3>2, <3>4, <3>5, <3>6 DEF Lists
      <3>8. Ones(poly, i + 1) = t /\ i + 1 \in Nat
        BY <2>2, <2>5 DEF t
      <3> QED BY <3>7, <3>8
    <2> QED BY <2>4, <2>5
  <1> HIDE DEF T
  <1>3. \A i \in Nat : i \in T
    BY <1>1, <1>2, SetInduction
  <1> QED BY <1>3, OnesUnfold DEF T

-----------------------------------------------------------------------------
(* An accepted hint.                                                       *)

LEMMA IndexNat == Index \subseteq Nat /\ N \in Nat /\ K \in Nat /\ OMEGA \in Nat
  BY ParamsAssumption DEF Index

LEMMA HintBytesSeq ==
    ASSUME NEW s \in HintBytes
    PROVE  /\ s \in Seq(Nat) /\ Len(s) = OMEGA + K
           /\ \A k \in 1 .. OMEGA + K : s[k] \in Index
           /\ \A i \in 0 .. K : Count(s, i) \in Nat
  <1>1. s \in [1 .. OMEGA + K -> Index] /\ OMEGA + K \in Nat
    BY IndexNat DEF HintBytes
  <1>2. \A k \in 1 .. OMEGA + K : s[k] \in Index
    BY <1>1
  <1>3. s \in [1 .. OMEGA + K -> Nat]
    BY <1>1, IndexNat
  <1>4. s \in Seq(Nat) /\ Len(s) = OMEGA + K
    BY <1>1, <1>3
  <1>5. ASSUME NEW i \in 0 .. K PROVE Count(s, i) \in Nat
    <2>1. i = 0 \/ OMEGA + i \in 1 .. OMEGA + K
      BY IndexNat
    <2> QED BY <2>1, <1>3 DEF Count
  <1> QED BY <1>2, <1>4, <1>5

(* Counts stay below OMEGA and do not fall.                                *)
LEMMA CountsBounded ==
    ASSUME NEW s \in HintBytes, CountsInOrder(s)
    PROVE  \A i \in 1 .. K : /\ Count(s, i - 1) \in Nat /\ Count(s, i) \in Nat
                             /\ Count(s, i - 1) <= Count(s, i)
                             /\ Count(s, i) <= OMEGA
                             /\ Count(s, i) <= Len(s)
  <1> SUFFICES ASSUME NEW i \in 1 .. K
               PROVE  /\ Count(s, i - 1) \in Nat /\ Count(s, i) \in Nat
                      /\ Count(s, i - 1) <= Count(s, i)
                      /\ Count(s, i) <= OMEGA
                      /\ Count(s, i) <= Len(s)
    OBVIOUS
  <1>1. i \in 0 .. K /\ i - 1 \in 0 .. K
    BY IndexNat
  <1>2. Count(s, i - 1) \in Nat /\ Count(s, i) \in Nat
    BY <1>1, HintBytesSeq
  <1>3. Count(s, i) >= Count(s, i - 1) /\ Count(s, i) <= OMEGA
    BY DEF CountsInOrder
  <1>4. Len(s) = OMEGA + K
    BY HintBytesSeq
  <1> QED BY <1>2, <1>3, <1>4, IndexNat

LEMMA OnesAccepted ==
    ASSUME NEW s \in HintBytes, CountsInOrder(s), PositionsAscend(s), NEW i \in 1 .. K
    PROVE  Ones(unpack_hint(s)[i], N) = SubSeq(s, Count(s, i - 1) + 1, Count(s, i))
  <1> DEFINE a == Count(s, i - 1)
             b == Count(s, i)
             poly == unpack_hint(s)[i]
             u == SubSeq(s, a + 1, b)
             t == Ones(poly, N)
  <1>1. a \in Nat /\ b \in Nat /\ a <= b /\ b <= OMEGA /\ b <= Len(s)
    BY CountsBounded
  <1>2. s \in Seq(Nat) /\ Len(s) = OMEGA + K /\ \A k \in 1 .. OMEGA + K : s[k] \in Index
    BY HintBytesSeq
  <1>3. \A j \in Index : poly[j] = IF \E k \in a + 1 .. b : s[k] = j THEN 1 ELSE 0
    BY DEF unpack_hint
  <1>4. \A j \in a + 2 .. b : s[j] > s[j - 1]
    BY DEF PositionsAscend
  <1> HIDE DEF a, b, poly
  <1>5. u \in Seq(Nat) /\ Len(u) = b - a /\ \A k \in 1 .. b - a : u[k] = s[a + k]
    BY <1>1, <1>2, Slice
  <1>6. Ascending(u)
    <2> SUFFICES ASSUME NEW k \in 2 .. Len(u) PROVE u[k] > u[k - 1]
      BY DEF Ascending
    <2>1. k \in 1 .. b - a /\ k - 1 \in 1 .. b - a /\ a + k \in a + 2 .. b
          /\ (a + k) - 1 = a + (k - 1)
      BY <1>1, <1>5
    <2>2. u[k] = s[a + k] /\ u[k - 1] = s[a + (k - 1)]
      BY <1>5, <2>1
    <2>3. s[a + k] > s[(a + k) - 1]
      BY <2>1, <1>4
    <2> HIDE DEF u
    <2> QED BY <2>1, <2>2, <2>3
  <1>7. t \in Seq(Nat) /\ Lists(t, poly, N)
    BY OnesList, IndexNat
  <1> HIDE DEF t, u
  <1>8. ASSUME NEW k \in 1 .. Len(u) PROVE \E m \in 1 .. Len(t) : u[k] = t[m]
    <2>1. k \in 1 .. b - a /\ a + k \in a + 1 .. b /\ a + k \in 1 .. OMEGA + K
      BY <1>1, <1>5, IndexNat
    <2>2. u[k] = s[a + k] /\ s[a + k] \in Index
      BY <2>1, <1>2, <1>5
    <2>3. poly[u[k]] # 0 /\ u[k] \in 0 .. N - 1
      <3>1. poly[s[a + k]] = 1
        BY <2>1, <2>2, <1>3
      <3> QED BY <3>1, <2>2 DEF Index
    <2>4. \E m \in 1 .. Len(t) : t[m] = u[k]
      BY <2>3, <1>7 DEF Lists
    <2> QED BY <2>4
  <1>9. ASSUME NEW m \in 1 .. Len(t) PROVE \E k \in 1 .. Len(u) : t[m] = u[k]
    <2>1. t[m] < N /\ poly[t[m]] # 0 /\ t[m] \in Nat
      BY <1>7 DEF Lists
    <2>2. t[m] \in Index
      BY <2>1, IndexNat DEF Index
    <2>3. PICK k \in a + 1 .. b : s[k] = t[m]
      BY <2>1, <2>2, <1>3
    <2>4. k - a \in 1 .. b - a /\ a + (k - a) = k
      BY <1>1
    <2>5. u[k - a] = t[m] /\ k - a \in 1 .. Len(u)
      <3>1. u[k - a] = s[a + (k - a)]
        BY <2>4, <1>5
      <3> QED BY <3>1, <2>3, <2>4, <1>5
    <2> QED BY <2>5
  <1>10. Within(t, u) /\ Within(u, t)
    BY <1>8, <1>9 DEF Within
  <1>11. t = u
    BY <1>5, <1>6, <1>7, <1>10, AscendingSame DEF Lists
  <1> QED BY <1>11 DEF t, u, a, b, poly

LEMMA PositionsAccepted ==
    ASSUME NEW s \in HintBytes, CountsInOrder(s), PositionsAscend(s)
    PROVE  \A i \in 0 .. K : Positions(unpack_hint(s), i) = SubSeq(s, 1, Count(s, i))
  <1> DEFINE h == unpack_hint(s)
             T == {i \in Nat : i <= K => Positions(h, i) = SubSeq(s, 1, Count(s, i))}
  <1>1. 0 \in T
    <2>1. Positions(h, 0) = <<>>
      BY PositionsUnfold
    <2>2. Count(s, 0) = 0 /\ SubSeq(s, 1, 0) = <<>>
      BY SubSeqEmpty DEF Count
    <2> QED BY <2>1, <2>2
  <1>2. ASSUME NEW i \in Nat, i \in T PROVE i + 1 \in T
    <2> SUFFICES ASSUME i + 1 <= K
                 PROVE  Positions(h, i + 1) = SubSeq(s, 1, Count(s, i + 1))
      OBVIOUS
    <2> DEFINE k == i + 1
               a == Count(s, i)
               b == Count(s, k)
    <2>1. k \in 1 .. K /\ k - 1 = i /\ i <= K
      BY IndexNat
    <2>2. a \in Nat /\ b \in Nat /\ a <= b /\ b <= Len(s)
      BY <2>1, CountsBounded
    <2>3. Positions(h, k) = Positions(h, i) \o Ones(h[k], N)
      BY PositionsUnfold
    <2>4. Positions(h, i) = SubSeq(s, 1, a)
      BY <1>2, <2>1
    <2>5. Ones(h[k], N) = SubSeq(s, a + 1, b)
      <3>1. Ones(h[k], N) = SubSeq(s, Count(s, k - 1) + 1, Count(s, k))
        <4> HIDE DEF k
        <4> QED BY <2>1, OnesAccepted
      <3> QED BY <3>1, <2>1
    <2>6. SubSeq(s, 1, a) \o SubSeq(s, a + 1, b) = SubSeq(s, 1, b)
      <3>1. /\ s \in Seq(Nat) /\ 1 \in 1 .. Len(s) + 1
            /\ a \in 1 - 1 .. Len(s) /\ b \in a .. Len(s)
        <4> HIDE DEF a, b
        <4> QED BY <2>2, HintBytesSeq
      <3> HIDE DEF a, b
      <3> QED BY <3>1, ConcatAdjacentSubSeq
    <2> QED BY <2>3, <2>4, <2>5, <2>6
  <1> HIDE DEF T
  <1>3. \A i \in Nat : i \in T
    BY <1>1, <1>2, SetInduction
  <1> QED BY <1>3 DEF T

(***************************************************************************)
(* A hint that unpack_sig accepts has at most OMEGA ones, and pack_hint    *)
(* makes the same bytes again (packing.c): it has no other accepted        *)
(* encoding.                                                               *)
(***************************************************************************)
THEOREM HintIsCanonical ==
    ASSUME NEW s \in HintBytes, HintAccepted(s)
    PROVE  /\ Len(Positions(unpack_hint(s), K)) <= OMEGA
           /\ pack_hint(unpack_hint(s)) = s
  <1> DEFINE h == unpack_hint(s)
             last == Count(s, K)
  <1>1. CountsInOrder(s) /\ PositionsAscend(s) /\ PaddedWithZeros(s)
    BY DEF HintAccepted
  <1>2. \A i \in 0 .. K : Positions(h, i) = SubSeq(s, 1, Count(s, i))
    BY <1>1, PositionsAccepted
  <1>3. \A i \in 1 .. K : Count(s, i) \in Nat /\ Count(s, i) <= OMEGA /\ Count(s, i) <= Len(s)
    BY <1>1, CountsBounded
  <1>4. K \in 1 .. K /\ OMEGA \in Nat /\ K \in Nat
    BY ParamsAssumption
  <1>5. s \in Seq(Nat) /\ Len(s) = OMEGA + K /\ s \in [1 .. OMEGA + K -> Index]
    BY HintBytesSeq DEF HintBytes
  <1>6. last \in Nat /\ last <= OMEGA /\ last <= Len(s)
    BY <1>3, <1>4
  <1> HIDE DEF h, last
  <1>7. ASSUME NEW c \in Nat, c <= Len(s)
        PROVE  Len(SubSeq(s, 1, c)) = c /\ \A j \in 1 .. c : SubSeq(s, 1, c)[j] = s[j]
    <2>1. 0 + 1 = 1 /\ 0 \in Nat /\ 0 <= c /\ c - 0 = c /\ \A j \in Int : 0 + j = j
      BY <1>7
    <2>2. /\ Len(SubSeq(s, 0 + 1, c)) = c - 0
          /\ \A j \in 1 .. c - 0 : SubSeq(s, 0 + 1, c)[j] = s[0 + j]
      BY <2>1, <1>5, <1>7, Slice
    <2> QED BY <2>1, <2>2
  <1>8. ASSUME NEW j \in 1 .. OMEGA + K PROVE pack_hint(h)[j] = s[j]
    <2>1. pack_hint(h)[j] =
            IF j > OMEGA THEN Len(Positions(h, j - OMEGA))
            ELSE IF j <= Len(Positions(h, K)) THEN Positions(h, K)[j] ELSE 0
      BY DEF pack_hint
    <2>2. CASE j > OMEGA
      <3> DEFINE i == j - OMEGA
      <3>1. i \in 1 .. K /\ i \in 0 .. K /\ i # 0 /\ OMEGA + i = j
        BY <2>2, <1>4
      <3>2. Count(s, i) = s[j]
        BY <3>1 DEF Count
      <3> HIDE DEF i
      <3>3. Positions(h, i) = SubSeq(s, 1, Count(s, i))
        BY <3>1, <1>2
      <3>4. Len(Positions(h, i)) = Count(s, i)
        BY <3>1, <3>3, <1>3, <1>7
      <3> QED BY <2>1, <2>2, <3>2, <3>4 DEF i
    <2>3. CASE j <= OMEGA
      <3>1. K \in 0 .. K
        BY <1>4
      <3>2. Positions(h, K) = SubSeq(s, 1, last)
        BY <3>1, <1>2 DEF last
      <3>3. Len(Positions(h, K)) = last /\ \A k \in 1 .. last : Positions(h, K)[k] = s[k]
        BY <3>2, <1>6, <1>7
      <3>4. CASE j <= last
        <4>1. j \in 1 .. last /\ ~(j > OMEGA)
          BY <2>3, <3>4, <1>6, <1>4
        <4> QED BY <4>1, <3>3, <3>4, <2>1
      <3>5. CASE last < j
        <4>1. j \in last + 1 .. OMEGA /\ ~(j > OMEGA) /\ ~(j <= last)
          BY <2>3, <3>5, <1>6, <1>4
        <4>2. s[j] = 0
          BY <4>1, <1>1 DEF PaddedWithZeros, last
        <4> QED BY <4>1, <4>2, <3>3, <2>1
      <3>6. j <= last \/ last < j
        BY <1>6
      <3> QED BY <3>4, <3>5, <3>6
    <2>4. j > OMEGA \/ j <= OMEGA
      BY <1>4
    <2> QED BY <2>2, <2>3, <2>4
  <1>9. pack_hint(h) = [j \in 1 .. OMEGA + K |-> pack_hint(h)[j]]
    BY DEF pack_hint
  <1>10. s = [j \in 1 .. OMEGA + K |-> s[j]]
    BY <1>5
  <1>11. pack_hint(h) = s
    BY <1>8, <1>9, <1>10
  <1>12. Len(Positions(h, K)) <= OMEGA
    <2>1. Positions(h, K) = SubSeq(s, 1, last)
      BY <1>2, <1>4 DEF last
    <2> QED BY <2>1, <1>6, <1>7
  <1> QED BY <1>11, <1>12 DEF h

-----------------------------------------------------------------------------
(* The positions of a hint, polynomial after polynomial.                   *)

Size(h, i) == Len(Positions(h, i))

LEMMA PositionsGrow ==
    ASSUME NEW h, NEW i \in Nat
    PROVE  /\ Size(h, i) \in Nat /\ Size(h, i + 1) \in Nat
           /\ Size(h, i + 1) = Size(h, i) + Len(Ones(h[i + 1], N))
           /\ \A k \in 1 .. Size(h, i) : Positions(h, i + 1)[k] = Positions(h, i)[k]
           /\ \A k \in 1 .. Len(Ones(h[i + 1], N)) :
                  Positions(h, i + 1)[Size(h, i) + k] = Ones(h[i + 1], N)[k]
  <1> DEFINE s == Positions(h, i)
             o == Ones(h[i + 1], N)
             t == Positions(h, i + 1)
  <1>1. s \in Seq(Nat) /\ o \in Seq(Nat) /\ t = s \o o
    BY PositionsUnfold, OnesUnfold, IndexNat
  <1> HIDE DEF s, o, t
  <1>2. /\ Len(s) \in Nat /\ Len(o) \in Nat /\ Len(t) = Len(s) + Len(o)
        /\ \A k \in 1 .. Len(s) + Len(o) : t[k] = IF k <= Len(s) THEN s[k] ELSE o[k - Len(s)]
    BY <1>1, ConcatProperties, LenProperties
  <1>3. \A k \in 1 .. Len(s) : t[k] = s[k]
    BY <1>2
  <1>4. ASSUME NEW k \in 1 .. Len(o) PROVE t[Len(s) + k] = o[k]
    <2>1. /\ Len(s) + k \in 1 .. Len(s) + Len(o) /\ ~(Len(s) + k <= Len(s))
          /\ (Len(s) + k) - Len(s) = k
      BY <1>2
    <2> QED BY <2>1, <1>2
  <1>5. Len(t) \in Nat
    BY <1>2
  <1> QED BY <1>2, <1>3, <1>4, <1>5 DEF Size, s, o, t

PrefixOf(h, i, n) ==
    /\ Size(h, i) <= Size(h, n)
    /\ \A k \in 1 .. Size(h, i) : Positions(h, n)[k] = Positions(h, i)[k]

LEMMA SizeNat == \A h : \A i \in Nat : Size(h, i) \in Nat
  BY PositionsGrow

LEMMA PositionsPrefix ==
    ASSUME NEW h, NEW i \in Nat
    PROVE  \A n \in Nat : i <= n => PrefixOf(h, i, n)
  <1> DEFINE T == {n \in Nat : i <= n => PrefixOf(h, i, n)}
  <1>0. PrefixOf(h, i, i)
    BY SizeNat DEF PrefixOf
  <1>1. 0 \in T
    <2>1. i <= 0 => i = 0
      OBVIOUS
    <2> QED BY <1>0, <2>1
  <1>2. ASSUME NEW n \in Nat, n \in T PROVE n + 1 \in T
    <2> SUFFICES ASSUME i <= n + 1 PROVE PrefixOf(h, i, n + 1)
      OBVIOUS
    <2>1. CASE i = n + 1
      BY <2>1, <1>0
    <2>2. CASE i <= n
      <3>1. /\ Size(h, i) <= Size(h, n)
            /\ \A k \in 1 .. Size(h, i) : Positions(h, n)[k] = Positions(h, i)[k]
        BY <2>2, <1>2 DEF PrefixOf
      <3>2. Size(h, i) \in Nat /\ Size(h, n) \in Nat /\ Size(h, n + 1) \in Nat
        BY PositionsGrow
      <3>3. Size(h, n) <= Size(h, n + 1)
        <4>1. Len(Ones(h[n + 1], N)) \in Nat
          BY OnesUnfold, IndexNat
        <4>2. Size(h, n + 1) = Size(h, n) + Len(Ones(h[n + 1], N))
          BY PositionsGrow
        <4> QED BY <4>1, <4>2, <3>2
      <3>4. \A k \in 1 .. Size(h, n) : Positions(h, n + 1)[k] = Positions(h, n)[k]
        BY PositionsGrow
      <3>5. \A k \in 1 .. Size(h, i) : k \in 1 .. Size(h, n)
        BY <3>1, <3>2
      <3>6. \A k \in 1 .. Size(h, i) : Positions(h, n + 1)[k] = Positions(h, i)[k]
        BY <3>1, <3>4, <3>5
      <3>7. Size(h, i) <= Size(h, n + 1)
        BY <3>1, <3>2, <3>3
      <3> QED BY <3>6, <3>7 DEF PrefixOf
    <2> QED BY <2>1, <2>2
  <1> HIDE DEF T
  <1>3. \A n \in Nat : n \in T
    BY <1>1, <1>2, SetInduction
  <1> QED BY <1>3 DEF T

LEMMA Segments ==
    ASSUME NEW h
    PROVE  \A n \in Nat : \A k \in 1 .. Size(h, n) :
               \E i \in 1 .. n : Size(h, i - 1) < k /\ k <= Size(h, i)
  <1> DEFINE T == {n \in Nat : \A k \in 1 .. Size(h, n) :
                       \E i \in 1 .. n : Size(h, i - 1) < k /\ k <= Size(h, i)}
  <1>1. 0 \in T
    <2>1. Size(h, 0) = 0
      BY PositionsUnfold DEF Size
    <2> QED BY <2>1
  <1>2. ASSUME NEW n \in Nat, n \in T PROVE n + 1 \in T
    <2> SUFFICES ASSUME NEW k \in 1 .. Size(h, n + 1)
                 PROVE  \E i \in 1 .. n + 1 : Size(h, i - 1) < k /\ k <= Size(h, i)
      OBVIOUS
    <2>1. Size(h, n) \in Nat /\ Size(h, n + 1) \in Nat
      BY PositionsGrow
    <2>2. CASE k <= Size(h, n)
      <3>1. k \in 1 .. Size(h, n)
        BY <2>1, <2>2
      <3>2. PICK i \in 1 .. n : Size(h, i - 1) < k /\ k <= Size(h, i)
        BY <3>1, <1>2
      <3>3. i \in 1 .. n + 1
        OBVIOUS
      <3> QED BY <3>2, <3>3
    <2>3. CASE Size(h, n) < k
      <3>1. n + 1 \in 1 .. n + 1 /\ (n + 1) - 1 = n
        OBVIOUS
      <3>2. Size(h, (n + 1) - 1) < k /\ k <= Size(h, n + 1)
        BY <2>1, <2>3, <3>1
      <3> QED BY <3>1, <3>2
    <2> QED BY <2>1, <2>2, <2>3
  <1> HIDE DEF T
  <1>3. \A n \in Nat : n \in T
    BY <1>1, <1>2, SetInduction
  <1> QED BY <1>3 DEF T

(* The positions that polynomial i gave.                                   *)
LEMMA Segment ==
    ASSUME NEW h, NEW i \in 1 .. K
    PROVE  /\ Size(h, i - 1) \in Nat /\ Size(h, i) \in Nat /\ Size(h, K) \in Nat
           /\ Size(h, i) <= Size(h, K)
           /\ Ones(h[i], N) \in Seq(Nat)
           /\ Lists(Ones(h[i], N), h[i], N)
           /\ Size(h, i) = Size(h, i - 1) + Len(Ones(h[i], N))
           /\ \A m \in 1 .. Len(Ones(h[i], N)) :
                  Positions(h, K)[Size(h, i - 1) + m] = Ones(h[i], N)[m]
  <1> DEFINE n == i - 1
             o == Ones(h[i], N)
             a == Size(h, i - 1)
             b == Size(h, i)
  <1>1. n \in Nat /\ n + 1 = i /\ i \in Nat /\ i <= K /\ K \in Nat
    BY IndexNat
  <1>2. o \in Seq(Nat) /\ Lists(o, h[i], N)
    BY OnesList, IndexNat
  <1>3. a \in Nat /\ b \in Nat /\ Size(h, K) \in Nat
    <2>1. a = Size(h, n)
      OBVIOUS
    <2> HIDE DEF n
    <2> QED BY <1>1, <2>1, SizeNat
  <1>4. /\ b = a + Len(o)
        /\ \A m \in 1 .. Len(o) : Positions(h, i)[a + m] = o[m]
    <2>1. /\ Size(h, n + 1) = Size(h, n) + Len(Ones(h[n + 1], N))
          /\ \A m \in 1 .. Len(Ones(h[n + 1], N)) :
                 Positions(h, n + 1)[Size(h, n) + m] = Ones(h[n + 1], N)[m]
      <3> HIDE DEF n
      <3> QED BY <1>1, PositionsGrow
    <2>2. n + 1 = i
      BY <1>1
    <2> HIDE DEF n
    <2> QED BY <2>1, <2>2 DEF n
  <1>5. /\ b <= Size(h, K)
        /\ \A k \in 1 .. b : Positions(h, K)[k] = Positions(h, i)[k]
    <2>1. PrefixOf(h, i, K)
      BY <1>1, PositionsPrefix
    <2> QED BY <2>1 DEF PrefixOf
  <1>6. Len(o) \in Nat
    BY <1>2
  <1> HIDE DEF o, a, b
  <1>7. ASSUME NEW m \in 1 .. Len(o) PROVE Positions(h, K)[a + m] = o[m]
    <2>1. a + m \in 1 .. b
      BY <1>3, <1>4, <1>6
    <2> QED BY <2>1, <1>4, <1>5
  <1> QED BY <1>2, <1>3, <1>4, <1>5, <1>7 DEF o, a, b

(* Each position is below N.                                               *)
LEMMA PositionsIndex ==
    ASSUME NEW h, NEW k \in 1 .. Size(h, K)
    PROVE  Positions(h, K)[k] \in Index
  <1>1. PICK i \in 1 .. K : Size(h, i - 1) < k /\ k <= Size(h, i)
    BY Segments, IndexNat
  <1> DEFINE a == Size(h, i - 1)
             o == Ones(h[i], N)
             m == k - a
  <1>2. /\ a \in Nat /\ Size(h, i) \in Nat /\ Size(h, K) \in Nat
        /\ o \in Seq(Nat) /\ Lists(o, h[i], N) /\ Size(h, i) = a + Len(o)
        /\ \A j \in 1 .. Len(o) : Positions(h, K)[a + j] = o[j]
    BY Segment
  <1>3. a < k /\ k <= a + Len(o)
    BY <1>1, <1>2
  <1> HIDE DEF a, o
  <1>4. m \in 1 .. Len(o) /\ a + m = k
    <2>1. Len(o) \in Nat /\ k \in Nat
      BY <1>2
    <2> QED BY <1>2, <1>3, <2>1
  <1> HIDE DEF m
  <1>5. Positions(h, K)[k] = o[m]
    BY <1>2, <1>4
  <1>6. o[m] < N /\ o[m] \in Nat
    BY <1>2, <1>4 DEF Lists
  <1> QED BY <1>5, <1>6, IndexNat DEF Index

(***************************************************************************)
(* Of a hint with at most OMEGA ones, pack_hint makes OMEGA + K bytes      *)
(* below N that unpack_sig accepts and reads as the same hint (packing.c). *)
(***************************************************************************)
THEOREM HintReadsBack ==
    ASSUME NEW h \in [1 .. K -> [Index -> {0, 1}]], Size(h, K) <= OMEGA
    PROVE  /\ pack_hint(h) \in HintBytes
           /\ HintAccepted(pack_hint(h))
           /\ unpack_hint(pack_hint(h)) = h
  <1> DEFINE s == pack_hint(h)
             last == Size(h, K)
             P == Positions(h, K)
  <1>0. last \in Nat /\ last <= OMEGA /\ OMEGA \in Nat /\ K \in Nat /\ OMEGA < N /\ N \in Nat
    BY SizeNat, IndexNat, ParamsAssumption
  <1>1. \A j \in 1 .. OMEGA + K : s[j] =
            IF j > OMEGA THEN Size(h, j - OMEGA) ELSE IF j <= last THEN P[j] ELSE 0
    BY DEF pack_hint, Size
  <1>2. \A i \in 1 .. K : Size(h, i) \in Nat /\ Size(h, i) <= last
    BY Segment
  <1>3. \A k \in 1 .. last : P[k] \in Index
    BY PositionsIndex
  <1>4. ASSUME NEW j \in 1 .. OMEGA + K PROVE s[j] \in Index
    <2>1. CASE j > OMEGA
      <3>1. j - OMEGA \in 1 .. K
        BY <2>1, <1>0
      <3>2. Size(h, j - OMEGA) \in Nat /\ Size(h, j - OMEGA) <= last
        BY <3>1, <1>2
      <3>3. s[j] = Size(h, j - OMEGA)
        BY <2>1, <1>1
      <3> HIDE DEF s
      <3> QED BY <3>2, <3>3, <1>0 DEF Index
    <2>2. CASE ~(j > OMEGA)
      <3>1. CASE j <= last
        <4>1. j \in 1 .. last
          BY <3>1, <1>0
        <4>2. s[j] = P[j]
          BY <2>2, <3>1, <1>1
        <4> HIDE DEF s, P
        <4> QED BY <4>1, <4>2, <1>3
      <3>2. CASE ~(j <= last)
        <4>1. s[j] = 0
          BY <2>2, <3>2, <1>1
        <4> HIDE DEF s, P
        <4> QED BY <4>1, <1>0 DEF Index
      <3> QED BY <3>1, <3>2
    <2> QED BY <2>1, <2>2
  <1>5. s \in HintBytes
    BY <1>4 DEF HintBytes, pack_hint
  <1>6. \A i \in 0 .. K : Count(s, i) = Size(h, i)
    <2> SUFFICES ASSUME NEW i \in 0 .. K PROVE Count(s, i) = Size(h, i)
      OBVIOUS
    <2>1. CASE i = 0
      BY <2>1, PositionsUnfold DEF Count, Size
    <2>2. CASE i # 0
      <3>1. OMEGA + i \in 1 .. OMEGA + K /\ OMEGA + i > OMEGA /\ (OMEGA + i) - OMEGA = i
        BY <2>2, <1>0
      <3>2. s[OMEGA + i] = Size(h, i)
        BY <3>1, <1>1
      <3> HIDE DEF s
      <3> QED BY <2>2, <3>2 DEF Count
    <2> QED BY <2>1, <2>2
  <1>7. \A k \in 1 .. last : s[k] = P[k]
    <2> SUFFICES ASSUME NEW k \in 1 .. last PROVE s[k] = P[k]
      OBVIOUS
    <2>1. k \in 1 .. OMEGA + K /\ ~(k > OMEGA) /\ k <= last
      BY <1>0
    <2> HIDE DEF s, last, P
    <2> QED BY <2>1, <1>1
  <1>8. \A j \in last + 1 .. OMEGA : s[j] = 0
    <2> SUFFICES ASSUME NEW j \in last + 1 .. OMEGA PROVE s[j] = 0
      OBVIOUS
    <2>1. j \in 1 .. OMEGA + K /\ ~(j > OMEGA) /\ ~(j <= last)
      BY <1>0
    <2> HIDE DEF s, last, P
    <2> QED BY <2>1, <1>1
  <1> HIDE DEF s
  (* The bytes of polynomial i.                                            *)
  <1>9. ASSUME NEW i \in 1 .. K
        PROVE  LET a == Size(h, i - 1)
                   o == Ones(h[i], N)
               IN  /\ Count(s, i - 1) = a /\ Count(s, i) = a + Len(o)
                   /\ a \in Nat /\ Len(o) \in Nat /\ a + Len(o) <= last
                   /\ \A m \in 1 .. Len(o) : s[a + m] = o[m]
                   /\ o \in Seq(Nat) /\ Lists(o, h[i], N)
    <2> DEFINE a == Size(h, i - 1)
               o == Ones(h[i], N)
    <2>1. i - 1 \in 0 .. K /\ i \in 0 .. K
      BY <1>0
    <2>2. /\ a \in Nat /\ Size(h, i) <= last /\ o \in Seq(Nat) /\ Lists(o, h[i], N)
          /\ Size(h, i) = a + Len(o)
          /\ \A m \in 1 .. Len(o) : P[a + m] = o[m]
      BY Segment
    <2>3. Count(s, i - 1) = a /\ Count(s, i) = a + Len(o)
      BY <2>1, <2>2, <1>6
    <2>4. a + Len(o) <= last /\ Len(o) \in Nat
      BY <2>2
    <2> HIDE DEF a, o, last, P
    <2>5. \A m \in 1 .. Len(o) : s[a + m] = o[m]
      <3> SUFFICES ASSUME NEW m \in 1 .. Len(o) PROVE s[a + m] = o[m]
        OBVIOUS
      <3>1. a + m \in 1 .. last
        BY <2>2, <2>4, <1>0
      <3> QED BY <3>1, <2>2, <1>7
    <2> QED BY <2>2, <2>3, <2>4, <2>5 DEF a, o
  <1>10. CountsInOrder(s)
    <2> SUFFICES ASSUME NEW i \in 1 .. K
                 PROVE  Count(s, i) >= Count(s, i - 1) /\ Count(s, i) <= OMEGA
      BY DEF CountsInOrder
    <2> DEFINE a == Size(h, i - 1)
               b == Len(Ones(h[i], N))
    <2>1. /\ Count(s, i - 1) = a /\ Count(s, i) = a + b
          /\ a \in Nat /\ b \in Nat /\ a + b <= last
      BY <1>9
    <2> HIDE DEF a, b, last
    <2> QED BY <2>1, <1>0
  <1>11. PositionsAscend(s)
    <2> SUFFICES ASSUME NEW i \in 1 .. K,
                        NEW j \in Count(s, i - 1) + 2 .. Count(s, i)
                 PROVE  s[j] > s[j - 1]
      BY DEF PositionsAscend
    <2> DEFINE a == Size(h, i - 1)
               o == Ones(h[i], N)
               m == j - a
    <2>1. /\ Count(s, i - 1) = a /\ Count(s, i) = a + Len(o)
          /\ a \in Nat /\ Len(o) \in Nat
          /\ \A k \in 1 .. Len(o) : s[a + k] = o[k]
          /\ Lists(o, h[i], N)
      BY <1>9
    <2> HIDE DEF a, o
    <2>2. j \in a + 2 .. a + Len(o)
      BY <2>1
    <2>3. /\ m \in 2 .. Len(o) /\ m \in 1 .. Len(o) /\ m - 1 \in 1 .. Len(o)
          /\ a + m = j /\ a + (m - 1) = j - 1
      BY <2>1, <2>2
    <2> HIDE DEF m
    <2>4. s[j] = o[m] /\ s[j - 1] = o[m - 1]
      <3>1. s[a + m] = o[m] /\ s[a + (m - 1)] = o[m - 1]
        BY <2>1, <2>3
      <3> QED BY <3>1, <2>3
    <2>5. o[m] > o[m - 1]
      BY <2>1, <2>3 DEF Lists, Ascending
    <2> QED BY <2>4, <2>5
  <1>12. PaddedWithZeros(s)
    <2>1. Count(s, K) = last
      BY <1>6, <1>0
    <2> QED BY <2>1, <1>8 DEF PaddedWithZeros
  <1>13. \A i \in 1 .. K : unpack_hint(s)[i] = h[i]
    <2> SUFFICES ASSUME NEW i \in 1 .. K PROVE unpack_hint(s)[i] = h[i]
      OBVIOUS
    <2> DEFINE a == Size(h, i - 1)
               o == Ones(h[i], N)
    <2>1. /\ Count(s, i - 1) = a /\ Count(s, i) = a + Len(o)
          /\ a \in Nat /\ Len(o) \in Nat
          /\ \A k \in 1 .. Len(o) : s[a + k] = o[k]
          /\ Lists(o, h[i], N)
      BY <1>9
    <2>2. h[i] \in [Index -> {0, 1}]
      OBVIOUS
    <2>3. unpack_hint(s)[i] = [j \in Index |->
            IF \E k \in Count(s, i - 1) + 1 .. Count(s, i) : s[k] = j THEN 1 ELSE 0]
      BY DEF unpack_hint
    <2> HIDE DEF a, o
    <2>4. ASSUME NEW j \in Index
          PROVE  (IF \E k \in a + 1 .. a + Len(o) : s[k] = j THEN 1 ELSE 0) = h[i][j]
      <3>1. CASE h[i][j] = 1
        <4>1. PICK m \in 1 .. Len(o) : o[m] = j
          <5>1. j \in 0 .. N - 1 /\ h[i][j] # 0
            BY <3>1 DEF Index
          <5> QED BY <5>1, <2>1 DEF Lists
        <4>2. a + m \in a + 1 .. a + Len(o) /\ s[a + m] = j
          BY <4>1, <2>1
        <4> QED BY <4>2, <3>1
      <3>2. CASE h[i][j] = 0
        <4>1. ASSUME NEW k \in a + 1 .. a + Len(o), s[k] = j PROVE FALSE
          <5>1. k - a \in 1 .. Len(o) /\ a + (k - a) = k
            BY <2>1
          <5>2. s[a + (k - a)] = o[k - a]
            BY <5>1, <2>1
          <5>3. o[k - a] = j
            BY <5>1, <5>2, <4>1
          <5>4. h[i][o[k - a]] # 0
            BY <5>1, <2>1 DEF Lists
          <5> QED BY <5>3, <5>4, <3>2
        <4> QED BY <4>1, <3>2
      <3> QED BY <3>1, <3>2, <2>2
    <2>5. unpack_hint(s)[i] = [j \in Index |-> h[i][j]]
      BY <2>1, <2>3, <2>4
    <2> QED BY <2>2, <2>5
  <1>14. unpack_hint(s) = h
    <2>1. unpack_hint(s) = [i \in 1 .. K |-> unpack_hint(s)[i]]
      BY DEF unpack_hint
    <2>2. h = [i \in 1 .. K |-> h[i]]
      OBVIOUS
    <2> QED BY <2>1, <2>2, <1>13
  <1>15. HintAccepted(s)
    BY <1>10, <1>11, <1>12 DEF HintAccepted
  <1> QED BY <1>5, <1>14, <1>15 DEF s

(* As many positions as the hint has ones, at most.                        *)
LEMMA SizeIsWeight ==
    ASSUME NEW h \in [1 .. K -> [Index -> {0, 1}]]
    PROVE  Size(h, K) <= HintWeight(h)
  <1> DEFINE W == {x \in (1 .. K) \X Index : h[x[1]][x[2]] = 1}
             Of(k, i) == i \in 1 .. K /\ Size(h, i - 1) < k /\ k <= Size(h, i)
             seg(k) == CHOOSE i : Of(k, i)
             P == Positions(h, K)
             f == [k \in 1 .. Size(h, K) |-> <<seg(k), P[k]>>]
  <1>0. Size(h, K) \in Nat
    BY SizeNat, IndexNat
  <1>1. \A k \in 1 .. Size(h, K) : Of(k, seg(k))
    <2> SUFFICES ASSUME NEW k \in 1 .. Size(h, K) PROVE \E i : Of(k, i)
      OBVIOUS
    <2> QED BY Segments, IndexNat
  <1> HIDE DEF seg
  (* Position k is that of a one of polynomial i.                          *)
  <1>2. ASSUME NEW k \in 1 .. Size(h, K), NEW i, Of(k, i)
        PROVE  /\ i \in 1 .. K /\ Size(h, i - 1) \in Nat
               /\ k - Size(h, i - 1) \in 1 .. Len(Ones(h[i], N))
               /\ P[k] = Ones(h[i], N)[k - Size(h, i - 1)]
               /\ Ones(h[i], N) \in Seq(Nat) /\ Lists(Ones(h[i], N), h[i], N)
    <2> DEFINE a == Size(h, i - 1)
               o == Ones(h[i], N)
    <2>0. i \in 1 .. K
      BY <1>2
    <2>1. /\ a \in Nat /\ Size(h, i) \in Nat /\ o \in Seq(Nat) /\ Lists(o, h[i], N)
          /\ Size(h, i) = a + Len(o)
          /\ \A m \in 1 .. Len(o) : P[a + m] = o[m]
      BY <2>0, Segment
    <2>2. a < k /\ k <= a + Len(o) /\ Len(o) \in Nat
      BY <1>2, <2>1
    <2> HIDE DEF a, o, P
    <2>3. k - a \in 1 .. Len(o) /\ a + (k - a) = k
      BY <2>1, <2>2
    <2>4. P[a + (k - a)] = o[k - a]
      BY <2>1, <2>3
    <2> QED BY <2>0, <2>1, <2>3, <2>4 DEF a, o
  <1> HIDE DEF Of, P
  <1>3. ASSUME NEW k \in 1 .. Size(h, K) PROVE <<seg(k), P[k]>> \in W
    <2> DEFINE i == seg(k)
               m == k - Size(h, i - 1)
               o == Ones(h[i], N)
    <2>0. Of(k, i)
      BY <1>1
    <2> HIDE DEF i
    <2>1. /\ i \in 1 .. K /\ m \in 1 .. Len(o) /\ P[k] = o[m] /\ Lists(o, h[i], N)
      BY <2>0, <1>2
    <2>2. P[k] \in Index
      BY PositionsIndex DEF P
    <2> HIDE DEF m, o
    <2>3. h[i][P[k]] # 0
      BY <2>1 DEF Lists
    <2>4. h[i][P[k]] \in {0, 1}
      BY <2>1, <2>2
    <2> QED BY <2>1, <2>2, <2>3, <2>4 DEF i
  <1>4. f \in [1 .. Size(h, K) -> W]
    <2> HIDE DEF W
    <2> QED BY <1>3
  <1>5. ASSUME NEW k \in 1 .. Size(h, K), NEW l \in 1 .. Size(h, K), f[k] = f[l]
        PROVE  k = l
    <2> DEFINE i == seg(k)
               a == Size(h, i - 1)
               o == Ones(h[i], N)
    <2>1. seg(l) = i /\ P[k] = P[l]
      BY <1>5
    <2>2. Of(k, i) /\ Of(l, i)
      BY <1>1, <2>1
    <2> HIDE DEF i
    <2>3. /\ a \in Nat /\ k - a \in 1 .. Len(o) /\ P[k] = o[k - a]
          /\ o \in Seq(Nat) /\ Lists(o, h[i], N)
      BY <2>2, <1>2
    <2>4. l - a \in 1 .. Len(o) /\ P[l] = o[l - a]
      BY <2>2, <1>2
    <2> HIDE DEF a, o
    <2> DEFINE c == k - a
               d == l - a
    <2>5. c \in 1 .. Len(o) /\ d \in 1 .. Len(o) /\ o[c] = o[d]
      BY <2>1, <2>3, <2>4
    <2>6. \A x, y \in 1 .. Len(o) : x < y => o[x] < o[y]
      <3>1. Ascending(o)
        BY <2>3 DEF Lists
      <3> QED BY <2>3, <3>1, AscendingPairs
    <2>7. o[c] \in Nat
      BY <2>3, <2>5
    <2>8. c = d
      <3> HIDE DEF c, d
      <3> QED BY <2>5, <2>6, <2>7
    <2> QED BY <2>8, <2>3
  <1>6. f \in Injection(1 .. Size(h, K), W)
    <2> HIDE DEF f, W
    <2>1. \A k, l \in 1 .. Size(h, K) : f[k] = f[l] => k = l
      BY <1>5
    <2>2. DOMAIN f = 1 .. Size(h, K)
      BY <1>4
    <2> QED BY <1>4, <2>1, <2>2 DEF Injection, IsInjective
  <1>7. IsFiniteSet(W)
    <2>1. IsFiniteSet(1 .. K) /\ IsFiniteSet(Index)
      BY FS_Interval, IndexNat DEF Index
    <2>2. IsFiniteSet((1 .. K) \X Index)
      BY <2>1, FS_Product
    <2>3. W \in SUBSET ((1 .. K) \X Index)
      OBVIOUS
    <2> HIDE DEF W
    <2> QED BY <2>2, <2>3, FS_Subset
  <1>8. Cardinality(1 .. Size(h, K)) <= Cardinality(W)
    <2> HIDE DEF f, W
    <2> QED BY <1>6, <1>7, FS_Injection
  <1>9. Cardinality(1 .. Size(h, K)) = Size(h, K)
    <2> DEFINE n == Size(h, K)
    <2>1. 1 \in Int /\ n \in Int /\ n >= 0
      BY <1>0
    <2> HIDE DEF n
    <2>2. Cardinality(1 .. n) = IF 1 > n THEN 0 ELSE n - 1 + 1
      BY <2>1, FS_Interval
    <2>3. Cardinality(1 .. n) = n
      BY <2>1, <2>2
    <2> QED BY <2>3 DEF n
  <1> QED BY <1>8, <1>9 DEF HintWeight

-----------------------------------------------------------------------------
(* Fields of a byte string.                                                *)

LEMMA FieldIs ==
    ASSUME NEW B, NEW s \in Seq(B), NEW x \in Nat, NEW n \in Nat, x + n <= Len(s)
    PROVE  /\ Field(s, x, n) \in Seq(B) /\ Len(Field(s, x, n)) = n
           /\ \A i \in 1 .. n : Field(s, x, n)[i] = s[x + i]
  <1> DEFINE y == x + n
  <1>1. y \in Nat /\ x <= y /\ y <= Len(s) /\ y - x = n
    OBVIOUS
  <1> HIDE DEF y
  <1>2. /\ SubSeq(s, x + 1, y) \in Seq(B)
        /\ Len(SubSeq(s, x + 1, y)) = y - x
        /\ \A i \in 1 .. y - x : SubSeq(s, x + 1, y)[i] = s[x + i]
    BY <1>1, Slice
  <1> QED BY <1>1, <1>2 DEF Field, y

(* u stands in s from byte x on.                                           *)
Stands(s, x, u) ==
    x + Len(u) <= Len(s) /\ \A i \in 1 .. Len(u) : s[x + i] = u[i]

LEMMA FieldReads ==
    ASSUME NEW B, NEW s \in Seq(B), NEW u \in Seq(B), NEW x \in Nat, NEW n \in Nat,
           Stands(s, x, u), n = Len(u)
    PROVE  Field(s, x, n) = u
  <1>0. x + n <= Len(s)
    BY DEF Stands
  <1>1. \A i \in 1 .. n : s[x + i] = u[i]
    BY DEF Stands
  <1> DEFINE f == Field(s, x, n)
  <1>2. /\ Field(s, x, n) \in Seq(B) /\ Len(Field(s, x, n)) = n
        /\ \A i \in 1 .. n : Field(s, x, n)[i] = s[x + i]
    BY ONLY <1>0, FieldIs, s \in Seq(B), x \in Nat, n \in Nat
  <1> HIDE DEF f
  <1>3. \A i \in 1 .. Len(f) : f[i] = u[i]
    BY <1>1, <1>2 DEF f
  <1>4. f = u
    BY <1>2, <1>3, SeqEqual DEF f
  <1> QED BY <1>4 DEF f

LEMMA StandsFirst ==
    ASSUME NEW B, NEW s \in Seq(B)
    PROVE  Stands(s, 0, s)
  <1>1. Len(s) \in Nat /\ 0 + Len(s) <= Len(s)
    OBVIOUS
  <1>2. \A i \in 1 .. Len(s) : 0 + i = i
    OBVIOUS
  <1> QED BY <1>1, <1>2 DEF Stands

LEMMA StandsLonger ==
    ASSUME NEW B, NEW s \in Seq(B), NEW t \in Seq(B), NEW u \in Seq(B), NEW x \in Nat,
           Stands(s, x, u)
    PROVE  Stands(s \o t, x, u)
  <1> DEFINE w == s \o t
  <1>1. /\ Len(s) \in Nat /\ Len(t) \in Nat /\ Len(u) \in Nat
        /\ Len(w) = Len(s) + Len(t)
        /\ \A i \in 1 .. Len(s) : w[i] = s[i]
    BY ConcatProperties
  <1>2. x + Len(u) <= Len(s) /\ \A i \in 1 .. Len(u) : s[x + i] = u[i]
    BY DEF Stands
  <1> HIDE DEF w
  <1>3. \A i \in 1 .. Len(u) : w[x + i] = u[i]
    <2> SUFFICES ASSUME NEW i \in 1 .. Len(u) PROVE w[x + i] = u[i]
      OBVIOUS
    <2>1. x + i \in 1 .. Len(s)
      BY <1>1, <1>2
    <2> QED BY <2>1, <1>1, <1>2
  <1>4. x + Len(u) <= Len(w)
    BY <1>1, <1>2
  <1> QED BY <1>3, <1>4 DEF Stands, w

LEMMA StandsAfter ==
    ASSUME NEW B, NEW s \in Seq(B), NEW t \in Seq(B), NEW u \in Seq(B), NEW x \in Nat,
           Stands(t, x, u)
    PROVE  Stands(s \o t, Len(s) + x, u)
  <1> DEFINE w == s \o t
  <1>1. /\ Len(s) \in Nat /\ Len(t) \in Nat /\ Len(u) \in Nat
        /\ Len(w) = Len(s) + Len(t)
        /\ \A i \in 1 .. Len(s) + Len(t) : w[i] = IF i <= Len(s) THEN s[i] ELSE t[i - Len(s)]
    BY ConcatProperties
  <1>2. x + Len(u) <= Len(t) /\ \A i \in 1 .. Len(u) : t[x + i] = u[i]
    BY DEF Stands
  <1> HIDE DEF w
  <1>3. \A i \in 1 .. Len(u) : w[Len(s) + x + i] = u[i]
    <2> SUFFICES ASSUME NEW i \in 1 .. Len(u) PROVE w[Len(s) + x + i] = u[i]
      OBVIOUS
    <2> DEFINE k == Len(s) + x + i
    <2>1. k \in 1 .. Len(s) + Len(t) /\ ~(k <= Len(s)) /\ k - Len(s) = x + i
      BY <1>1, <1>2
    <2> HIDE DEF k
    <2>2. w[k] = t[x + i]
      BY <2>1, <1>1
    <2> QED BY <2>2, <1>2 DEF k
  <1>4. Len(s) + x + Len(u) <= Len(w)
    BY <1>1, <1>2
  <1> QED BY <1>3, <1>4 DEF Stands, w

LEMMA StandsLast ==
    ASSUME NEW B, NEW s \in Seq(B), NEW t \in Seq(B)
    PROVE  Stands(s \o t, Len(s), t)
  <1>1. Stands(t, 0, t)
    BY StandsFirst
  <1>2. Stands(s \o t, Len(s) + 0, t)
    BY <1>1, StandsAfter
  <1>3. Len(s) + 0 = Len(s)
    OBVIOUS
  <1> QED BY <1>2, <1>3

Times(i, len) == i * len

LEMMA TimesIs ==
    ASSUME NEW len \in Nat
    PROVE  /\ Times(0, len) = 0
           /\ \A i \in Nat : Times(i, len) \in Nat /\ Times(i + 1, len) = Times(i, len) + len
  BY DEF Times

LEMMA TimesNat == \A i, len \in Nat : Times(i, len) \in Nat
  BY TimesIs

(* The packed polynomials t stand in s from byte x on.                     *)
PolysStand(s, x, t, n, len) == \A i \in 1 .. n : Stands(s, x + Times(i - 1, len), t[i])

LEMMA FlattenStands ==
    ASSUME NEW B, NEW n \in Nat, n # 0, NEW len \in Nat, NEW t \in [1 .. n -> [1 .. len -> B]]
    PROVE  /\ FlattenSeq(t) \in Seq(B) /\ Len(FlattenSeq(t)) = Times(n, len)
           /\ PolysStand(FlattenSeq(t), 0, t, n, len)
  <1>1. \A i \in 1 .. n : t[i] \in Seq(B) /\ Len(t[i]) = len
    OBVIOUS
  <1>2. t \in Seq(Seq(B)) /\ Len(t) = n
    BY <1>1
  <1>3. PICK f \in [Nat -> Seq(B)] : IsJoin(f, t)
    BY <1>2, FlattenUnfold
  <1>4. /\ FlattenSeq(t) = f[n] /\ f[0] = <<>>
        /\ \A i \in 0 .. n - 1 : f[i + 1] = f[i] \o t[i + 1]
    BY <1>2, <1>3 DEF IsJoin
  <1> DEFINE Good(m) == /\ Len(f[m]) = Times(m, len)
                        /\ \A i \in 1 .. m : Stands(f[m], Times(i - 1, len), t[i])
             T == {m \in Nat : m <= n => Good(m)}
  <1>5. 0 \in T
    <2>1. Len(f[0]) = Times(0, len)
      BY <1>4, TimesIs
    <2> QED BY <2>1
  <1>6. ASSUME NEW m \in Nat, m \in T PROVE m + 1 \in T
    <2>0. CASE ~(m + 1 <= n)
      BY <2>0
    <2> SUFFICES ASSUME m + 1 <= n PROVE m + 1 \in T
      BY <2>0
    <2> DEFINE k == m + 1
               g == f[m]
               u == t[m + 1]
    <2>1. m \in 0 .. n - 1 /\ m <= n /\ k \in Nat /\ k \in 1 .. n /\ k - 1 = m
      OBVIOUS
    <2>2. f[k] = g \o u
      BY <2>1, <1>4
    <2>3. g \in Seq(B) /\ Len(g) = Times(m, len)
      BY <2>1, <1>6
    <2>4. u \in Seq(B) /\ Len(u) = len
      BY <2>1, <1>1
    <2>5. \A i \in 1 .. m : Stands(g, Times(i - 1, len), t[i])
      BY <2>1, <1>6
    <2> HIDE DEF g, u
    <2>6. Len(f[k]) = Times(k, len)
      <3>1. Len(g \o u) = Len(g) + Len(u)
        BY <2>3, <2>4, ConcatProperties
      <3>2. Times(m + 1, len) = Times(m, len) + len
        BY TimesIs
      <3> QED BY <2>2, <2>3, <2>4, <3>1, <3>2
    <2>7. ASSUME NEW i \in 1 .. k PROVE Stands(f[k], Times(i - 1, len), t[i])
      <3>1. CASE i = k
        <4>1. Stands(g \o u, Len(g), u)
          BY <2>3, <2>4, StandsLast
        <4>2. i - 1 = m /\ t[i] = u
          BY <3>1 DEF u
        <4> QED BY <4>1, <4>2, <2>2, <2>3
      <3>2. CASE i \in 1 .. m
        <4>1. i - 1 \in Nat /\ i \in 1 .. n
          BY <2>1
        <4> DEFINE x == Times(i - 1, len)
        <4>2. x \in Nat /\ t[i] \in Seq(B) /\ Stands(g, x, t[i])
          BY <4>1, <3>2, <1>1, <2>5, TimesIs
        <4> HIDE DEF x
        <4>3. Stands(g \o u, x, t[i])
          BY <4>2, <2>3, <2>4, StandsLonger
        <4> QED BY <4>3, <2>2 DEF x
      <3> QED BY <3>1, <3>2
    <2>8. Good(m + 1)
      BY <2>6, <2>7
    <2>9. m + 1 \in Nat
      OBVIOUS
    <2> HIDE DEF Good, k
    <2> QED BY <2>8, <2>9
  <1> HIDE DEF T
  <1>7. \A m \in Nat : m \in T
    BY <1>5, <1>6, SetInduction
  <1>8. Good(n)
    BY <1>7 DEF T
  <1>9. \A i \in 1 .. n : 0 + Times(i - 1, len) = Times(i - 1, len)
    <2> SUFFICES ASSUME NEW i \in 1 .. n PROVE 0 + Times(i - 1, len) = Times(i - 1, len)
      OBVIOUS
    <2>1. i - 1 \in Nat
      OBVIOUS
    <2>2. Times(i - 1, len) \in Nat
      BY <2>1, TimesIs
    <2> QED BY <2>2
  <1>10. PolysStand(FlattenSeq(t), 0, t, n, len)
    BY <1>4, <1>8, <1>9 DEF PolysStand
  <1> QED BY <1>4, <1>8, <1>10

LEMMA PolysLonger ==
    ASSUME NEW B, NEW s \in Seq(B), NEW u \in Seq(B), NEW x \in Nat, NEW n \in Nat,
           NEW len \in Nat, NEW t \in [1 .. n -> [1 .. len -> B]],
           PolysStand(s, x, t, n, len)
    PROVE  PolysStand(s \o u, x, t, n, len)
  <1> SUFFICES ASSUME NEW i \in 1 .. n
               PROVE  Stands(s \o u, x + Times(i - 1, len), t[i])
    BY DEF PolysStand
  <1> DEFINE y == x + Times(i - 1, len)
  <1>1. i - 1 \in Nat
    OBVIOUS
  <1>2. y \in Nat
    <2>1. Times(i - 1, len) \in Nat
      BY <1>1, TimesNat
    <2> QED BY <2>1
  <1>3. Stands(s, y, t[i])
    BY DEF PolysStand
  <1>4. t[i] \in Seq(B)
    OBVIOUS
  <1> HIDE DEF y
  <1>5. Stands(s \o u, y, t[i])
    BY <1>2, <1>3, <1>4, StandsLonger
  <1> QED BY <1>5 DEF y

LEMMA PolysLast ==
    ASSUME NEW B, NEW s \in Seq(B), NEW n \in Nat, n # 0, NEW len \in Nat,
           NEW t \in [1 .. n -> [1 .. len -> B]]
    PROVE  PolysStand(s \o FlattenSeq(t), Len(s), t, n, len)
  <1> DEFINE u == FlattenSeq(t)
  <1>1. u \in Seq(B) /\ PolysStand(u, 0, t, n, len)
    BY FlattenStands
  <1> HIDE DEF u
  <1>2. ASSUME NEW i \in 1 .. n PROVE Stands(s \o u, Len(s) + Times(i - 1, len), t[i])
    <2> DEFINE y == Times(i - 1, len)
    <2>1. i - 1 \in Nat
      OBVIOUS
    <2>2. y \in Nat /\ 0 + y = y
      <3>1. y \in Nat
        BY <2>1, TimesNat
      <3> HIDE DEF y
      <3> QED BY <3>1
    <2>3. Stands(u, y, t[i])
      <3>1. Stands(u, 0 + y, t[i])
        BY <1>1 DEF PolysStand
      <3> QED BY <3>1, <2>2
    <2>4. t[i] \in Seq(B)
      OBVIOUS
    <2> HIDE DEF y
    <2>5. Stands(s \o u, Len(s) + y, t[i])
      BY <1>1, <2>2, <2>3, <2>4, StandsAfter
    <2> QED BY <2>5 DEF y
  <1> QED BY <1>2 DEF PolysStand, u

LEMMA PolysRead ==
    ASSUME NEW B, NEW s \in Seq(B), NEW x \in Nat, NEW n \in Nat,
           NEW len \in Nat, NEW t \in [1 .. n -> [1 .. len -> B]],
           PolysStand(s, x, t, n, len)
    PROVE  PolyFields(s, x, n, len) = t
  <1>1. ASSUME NEW i \in 1 .. n PROVE Field(s, x + (i - 1) * len, len) = t[i]
    <2> DEFINE y == x + Times(i - 1, len)
    <2>1. i - 1 \in Nat
      OBVIOUS
    <2>2. y \in Nat
      <3>1. Times(i - 1, len) \in Nat
        BY <2>1, TimesNat
      <3> QED BY <3>1
    <2>3. Stands(s, y, t[i])
      BY DEF PolysStand
    <2>4. t[i] \in Seq(B) /\ Len(t[i]) = len
      OBVIOUS
    <2> HIDE DEF y
    <2>5. Field(s, y, len) = t[i]
      BY <2>2, <2>3, <2>4, FieldReads
    <2> QED BY <2>5 DEF y, Times
  <1>2. PolyFields(s, x, n, len) = [i \in 1 .. n |-> t[i]]
    BY <1>1 DEF PolyFields
  <1> QED BY <1>2

LEMMA Sizes ==
    /\ SEEDBYTES \in Nat /\ TRBYTES \in Nat /\ CTILDEBYTES \in Nat /\ POLYETA \in Nat
    /\ POLYT0 \in Nat /\ POLYT1 \in Nat /\ POLYZ \in Nat
    /\ K \in Nat /\ K # 0 /\ L \in Nat /\ L # 0
  BY ParamsAssumption, PackingAssumption

LEMMA BytesSeq ==
    ASSUME NEW n \in Nat, NEW s \in Bytes(n)
    PROVE  s \in Seq(Byte) /\ Len(s) = n
  BY DEF Bytes

LEMMA PublicKeyReadsBack ==
    ASSUME NEW rho \in Bytes(SEEDBYTES), NEW t1 \in Packed(K, POLYT1)
    PROVE  unpack_pk(pack_pk(rho, t1)) = [rho |-> rho, t1 |-> t1]
  <1> DEFINE f == FlattenSeq(t1)
             pk == rho \o f
  <1>1. rho \in Seq(Byte) /\ Len(rho) = SEEDBYTES
    BY BytesSeq, Sizes
  <1>2. t1 \in [1 .. K -> [1 .. POLYT1 -> Byte]]
    BY DEF Packed, Bytes
  <1>3. f \in Seq(Byte)
    BY <1>2, FlattenStands, Sizes
  <1>4. PolysStand(pk, SEEDBYTES, t1, K, POLYT1)
    BY <1>1, <1>2, PolysLast, Sizes
  <1> HIDE DEF f
  <1>5. Stands(pk, 0, rho) /\ pk \in Seq(Byte)
    BY <1>1, <1>3, StandsFirst, StandsLonger, ConcatProperties
  <1> HIDE DEF pk
  <1>6. Field(pk, 0, SEEDBYTES) = rho
    BY <1>1, <1>5, FieldReads, Sizes
  <1>7. PolyFields(pk, SEEDBYTES, K, POLYT1) = t1
    BY <1>2, <1>4, <1>5, PolysRead, Sizes
  <1>8. unpack_pk(pk) = [rho |-> rho, t1 |-> t1]
    BY <1>6, <1>7 DEF unpack_pk
  <1> QED BY <1>8 DEF pk, f, pack_pk

LEMMA SecretKeyReadsBack ==
    ASSUME NEW rho \in Bytes(SEEDBYTES), NEW key \in Bytes(SEEDBYTES),
           NEW tr \in Bytes(TRBYTES), NEW s1 \in Packed(L, POLYETA),
           NEW s2 \in Packed(K, POLYETA), NEW t0 \in Packed(K, POLYT0)
    PROVE  unpack_sk(pack_sk(rho, tr, key, t0, s1, s2))
             = [rho |-> rho, key |-> key, tr |-> tr, s1 |-> s1, s2 |-> s2, t0 |-> t0]
  <1> DEFINE f1 == FlattenSeq(s1)
             f2 == FlattenSeq(s2)
             f0 == FlattenSeq(t0)
             a == rho \o key
             b == a \o tr
             c == b \o f1
             d == c \o f2
             sk == d \o f0
             s1At == 2 * SEEDBYTES + TRBYTES
             s2At == s1At + Times(L, POLYETA)
             t0At == s2At + Times(K, POLYETA)
  <1>1. /\ rho \in Seq(Byte) /\ Len(rho) = SEEDBYTES
        /\ key \in Seq(Byte) /\ Len(key) = SEEDBYTES
        /\ tr \in Seq(Byte) /\ Len(tr) = TRBYTES
    BY BytesSeq, Sizes
  <1>2. /\ s1 \in [1 .. L -> [1 .. POLYETA -> Byte]]
        /\ s2 \in [1 .. K -> [1 .. POLYETA -> Byte]]
        /\ t0 \in [1 .. K -> [1 .. POLYT0 -> Byte]]
    BY DEF Packed, Bytes
  <1>3. /\ f1 \in Seq(Byte) /\ Len(f1) = Times(L, POLYETA)
        /\ f2 \in Seq(Byte) /\ Len(f2) = Times(K, POLYETA)
        /\ f0 \in Seq(Byte)
    <2>1. f1 \in Seq(Byte) /\ Len(f1) = Times(L, POLYETA)
      BY <1>2, FlattenStands, Sizes, ZenonT(30)
    <2>2. f2 \in Seq(Byte) /\ Len(f2) = Times(K, POLYETA)
      BY <1>2, FlattenStands, Sizes, ZenonT(30)
    <2>3. f0 \in Seq(Byte)
      BY <1>2, FlattenStands, Sizes, ZenonT(30)
    <2> QED BY <2>1, <2>2, <2>3
  <1>4. Times(L, POLYETA) \in Nat /\ Times(K, POLYETA) \in Nat
    BY TimesIs, Sizes
  <1>5. a \in Seq(Byte) /\ Len(a) = 2 * SEEDBYTES
    <2>1. a \in Seq(Byte) /\ Len(a) = Len(rho) + Len(key)
      BY <1>1, ConcatProperties
    <2> HIDE DEF a
    <2> QED BY <2>1, <1>1, Sizes
  <1>6. b \in Seq(Byte) /\ Len(b) = s1At
    <2> HIDE DEF a
    <2>1. b \in Seq(Byte) /\ Len(b) = Len(a) + Len(tr)
      BY <1>1, <1>5, ConcatProperties
    <2> HIDE DEF b
    <2> QED BY <2>1, <1>1, <1>5, Sizes
  <1>7. c \in Seq(Byte) /\ Len(c) = s2At
    <2> HIDE DEF b, f1
    <2>1. c \in Seq(Byte) /\ Len(c) = Len(b) + Len(f1)
      BY <1>3, <1>6, ConcatProperties
    <2> HIDE DEF c
    <2> QED BY <2>1, <1>3, <1>6, <1>4, Sizes
  <1>8. d \in Seq(Byte) /\ Len(d) = t0At
    <2> HIDE DEF c, f2
    <2>1. d \in Seq(Byte) /\ Len(d) = Len(c) + Len(f2)
      BY <1>3, <1>7, ConcatProperties
    <2> HIDE DEF d
    <2> QED BY <2>1, <1>3, <1>7, <1>4, Sizes
  <1>9. s1At \in Nat /\ s2At \in Nat /\ t0At \in Nat
    BY <1>4, Sizes
  <1>10. PolysStand(c, s1At, s1, L, POLYETA)
    <2> HIDE DEF b, f1
    <2>1. PolysStand(b \o FlattenSeq(s1), Len(b), s1, L, POLYETA)
      BY <1>2, <1>6, PolysLast, Sizes
    <2> QED BY <2>1, <1>6 DEF f1
  <1>11. PolysStand(d, s2At, s2, K, POLYETA)
    <2> HIDE DEF c, f2
    <2>1. PolysStand(c \o FlattenSeq(s2), Len(c), s2, K, POLYETA)
      BY <1>2, <1>7, PolysLast, Sizes
    <2> QED BY <2>1, <1>7 DEF f2
  <1>12. PolysStand(sk, t0At, t0, K, POLYT0)
    <2> HIDE DEF d, f0
    <2>1. PolysStand(d \o FlattenSeq(t0), Len(d), t0, K, POLYT0)
      BY <1>2, <1>8, PolysLast, Sizes
    <2> QED BY <2>1, <1>8 DEF f0
  <1> HIDE DEF f1, f2, f0, s1At, s2At, t0At
  <1>13. Stands(a, 0, rho) /\ Stands(a, SEEDBYTES, key)
    <2>1. Stands(a, 0, rho)
      BY <1>1, StandsFirst, StandsLonger, Sizes
    <2>2. Stands(a, Len(rho), key)
      BY <1>1, StandsLast
    <2> QED BY <2>1, <2>2, <1>1
  <1> HIDE DEF a
  <1>14. Stands(b, 0, rho) /\ Stands(b, SEEDBYTES, key) /\ Stands(b, 2 * SEEDBYTES, tr)
    <2>1. Stands(b, 0, rho) /\ Stands(b, SEEDBYTES, key)
      BY <1>1, <1>5, <1>13, StandsLonger, Sizes
    <2>2. Stands(b, Len(a), tr)
      BY <1>1, <1>5, StandsLast
    <2> QED BY <2>1, <2>2, <1>5
  <1> HIDE DEF b
  <1> DEFINE x2 == 2 * SEEDBYTES
  <1>15. x2 \in Nat /\ Stands(b, x2, tr)
    BY <1>14, Sizes
  <1> HIDE DEF x2
  <1>16. Stands(c, 0, rho) /\ Stands(c, SEEDBYTES, key) /\ Stands(c, x2, tr)
    BY <1>1, <1>3, <1>6, <1>14, <1>15, StandsLonger, Sizes
  <1> HIDE DEF c
  <1>17. Stands(d, 0, rho) /\ Stands(d, SEEDBYTES, key) /\ Stands(d, x2, tr)
    BY <1>1, <1>3, <1>7, <1>15, <1>16, StandsLonger, Sizes
  <1>18. PolysStand(d, s1At, s1, L, POLYETA)
    BY <1>2, <1>3, <1>7, <1>9, <1>10, PolysLonger, Sizes
  <1> HIDE DEF d
  <1>19. Stands(sk, 0, rho) /\ Stands(sk, SEEDBYTES, key) /\ Stands(sk, x2, tr)
    BY <1>1, <1>3, <1>8, <1>15, <1>17, StandsLonger, Sizes
  <1>20. PolysStand(sk, s1At, s1, L, POLYETA)
    BY <1>2, <1>3, <1>8, <1>9, <1>18, PolysLonger, Sizes
  <1>21. PolysStand(sk, s2At, s2, K, POLYETA)
    BY <1>2, <1>3, <1>8, <1>9, <1>11, PolysLonger, Sizes
  <1>22. sk \in Seq(Byte)
    BY <1>3, <1>8, ConcatProperties
  <1>23. sk = pack_sk(rho, tr, key, t0, s1, s2)
    BY DEF pack_sk, f1, f2, f0, a, b, c, d
  <1> HIDE DEF sk
  <1>24. /\ Field(sk, 0, SEEDBYTES) = rho
         /\ Field(sk, SEEDBYTES, SEEDBYTES) = key
         /\ Field(sk, x2, TRBYTES) = tr
    <2>1. Field(sk, 0, SEEDBYTES) = rho
      BY <1>1, <1>19, <1>22, FieldReads, Sizes
    <2>2. Field(sk, SEEDBYTES, SEEDBYTES) = key
      BY <1>1, <1>19, <1>22, FieldReads, Sizes
    <2>3. Field(sk, x2, TRBYTES) = tr
      BY <1>1, <1>15, <1>19, <1>22, FieldReads, Sizes
    <2> QED BY <2>1, <2>2, <2>3
  <1>25. PolyFields(sk, s1At, L, POLYETA) = s1
    BY <1>2, <1>9, <1>20, <1>22, PolysRead, Sizes
  <1>26. PolyFields(sk, s2At, K, POLYETA) = s2
    BY <1>2, <1>9, <1>21, <1>22, PolysRead, Sizes
  <1>27. PolyFields(sk, t0At, K, POLYT0) = t0
    BY <1>2, <1>9, <1>12, <1>22, PolysRead, Sizes
  <1>28. unpack_sk(sk) =
            [rho |-> Field(sk, 0, SEEDBYTES),
             key |-> Field(sk, SEEDBYTES, SEEDBYTES),
             tr  |-> Field(sk, x2, TRBYTES),
             s1  |-> PolyFields(sk, s1At, L, POLYETA),
             s2  |-> PolyFields(sk, s2At, K, POLYETA),
             t0  |-> PolyFields(sk, t0At, K, POLYT0)]
    BY DEF unpack_sk, x2, s1At, s2At, t0At, Times
  <1> QED BY <1>23, <1>24, <1>25, <1>26, <1>27, <1>28

LEMMA SignatureReadsBack ==
    ASSUME NEW c \in Bytes(CTILDEBYTES), NEW z \in Packed(L, POLYZ), NEW h \in Hints
    PROVE  unpack_sig(pack_sig(c, z, h)) = [ok |-> TRUE, c |-> c, z |-> z, h |-> h]
  <1> DEFINE B == Byte \union Nat
             f == FlattenSeq(z)
             a == c \o f
             p == pack_hint(h)
             sig == a \o p
             hintAt == CTILDEBYTES + Times(L, POLYZ)
  <1>1. p \in HintBytes /\ HintAccepted(p) /\ unpack_hint(p) = h
    <2>1. h \in [1 .. K -> [Index -> {0, 1}]] /\ HintWeight(h) <= OMEGA
      BY DEF Hints
    <2>2. Size(h, K) <= HintWeight(h)
      BY <2>1, SizeIsWeight
    <2>3. Size(h, K) \in Nat /\ OMEGA \in Nat
      BY SizeNat, IndexNat
    <2>4. HintWeight(h) \in Nat
      <3> DEFINE A == (1 .. K) \X Index
                 W == {x \in A : h[x[1]][x[2]] = 1}
      <3>1. IsFiniteSet(1 .. K) /\ IsFiniteSet(Index)
        BY FS_Interval, IndexNat DEF Index
      <3>2. IsFiniteSet(A)
        BY <3>1, FS_Product
      <3>3. W \in SUBSET A
        OBVIOUS
      <3>4. HintWeight(h) = Cardinality(W)
        BY DEF HintWeight
      <3> HIDE DEF A, W
      <3> QED BY <3>2, <3>3, <3>4, FS_Subset, FS_CardinalityType
    <2>5. Size(h, K) <= OMEGA
      BY <2>1, <2>2, <2>3, <2>4
    <2> QED BY <2>1, <2>5, HintReadsBack
  <1>2. p \in Seq(B) /\ Len(p) = OMEGA + K
    <2>1. p \in Seq(Nat) /\ Len(p) = OMEGA + K
      BY <1>1, HintBytesSeq
    <2> HIDE DEF p
    <2> QED BY <2>1, SeqMonotonic
  <1>3. c \in Seq(B) /\ Len(c) = CTILDEBYTES
    <2>1. c \in Seq(Byte) /\ Len(c) = CTILDEBYTES
      BY BytesSeq, Sizes
    <2> QED BY <2>1, SeqMonotonic
  <1>4. z \in [1 .. L -> [1 .. POLYZ -> B]]
    BY DEF Packed, Bytes
  <1> HIDE DEF B
  <1>5. f \in Seq(B) /\ Len(f) = Times(L, POLYZ)
    <2>1. L \in Nat /\ L # 0 /\ POLYZ \in Nat
      BY Sizes
    <2>2. FlattenSeq(z) \in Seq(B)
      BY ONLY <2>1, <1>4, FlattenStands
    <2>3. Len(FlattenSeq(z)) = Times(L, POLYZ)
      BY ONLY <2>1, <1>4, FlattenStands
    <2> QED BY <2>2, <2>3
  <1>6. PolysStand(a, CTILDEBYTES, z, L, POLYZ)
    BY <1>3, <1>4, PolysLast, Sizes
  <1> HIDE DEF f, p
  <1>7. Stands(a, 0, c)
    BY <1>3, <1>5, StandsFirst, StandsLonger
  <1>8. a \in Seq(B) /\ Len(a) = hintAt /\ hintAt \in Nat
    <2>1. a \in Seq(B) /\ Len(a) = Len(c) + Len(f)
      BY <1>3, <1>5, ConcatProperties
    <2>2. Times(L, POLYZ) \in Nat
      BY TimesIs, Sizes
    <2> HIDE DEF a
    <2> QED BY <2>1, <2>2, <1>3, <1>5, Sizes
  <1> HIDE DEF a, hintAt
  <1>9. Stands(sig, 0, c)
    BY <1>2, <1>3, <1>7, <1>8, StandsLonger
  <1>10. PolysStand(sig, CTILDEBYTES, z, L, POLYZ)
    BY <1>2, <1>4, <1>6, <1>8, PolysLonger, Sizes
  <1>11. Stands(sig, hintAt, p)
    BY <1>2, <1>8, StandsLast
  <1>12. sig \in Seq(B)
    BY <1>2, <1>8, ConcatProperties
  <1>13. sig = pack_sig(c, z, h)
    BY DEF pack_sig, a, f, p
  <1> HIDE DEF sig
  <1>14. Field(sig, 0, CTILDEBYTES) = c
    BY <1>3, <1>9, <1>12, FieldReads, Sizes
  <1>15. PolyFields(sig, CTILDEBYTES, L, POLYZ) = z
    BY <1>4, <1>10, <1>12, PolysRead, Sizes
  <1>16. Field(sig, hintAt, OMEGA + K) = p
    <2>1. OMEGA + K \in Nat
      BY IndexNat
    <2> QED BY <2>1, <1>2, <1>8, <1>11, <1>12, FieldReads
  <1>17. unpack_sig(sig) =
            LET hint == Field(sig, hintAt, OMEGA + K)
            IN  [ok |-> HintAccepted(hint),
                 c  |-> Field(sig, 0, CTILDEBYTES),
                 z  |-> PolyFields(sig, CTILDEBYTES, L, POLYZ),
                 h  |-> IF HintAccepted(hint) THEN unpack_hint(hint) ELSE <<>>]
    BY DEF unpack_sig, hintAt, Times
  <1>18. HintAccepted(p) = TRUE
    BY <1>1 DEF HintAccepted, CountsInOrder
  <1> QED BY <1>1, <1>13, <1>14, <1>15, <1>16, <1>17, <1>18

(***************************************************************************)
(* For every call of packing.c, keys and signatures read back field by     *)
(* field, and an accepted hint has no second encoding.                     *)
(***************************************************************************)
THEOREM SpecEncodingIsUnique == EncodingSpec => []EncodingIsUnique
  <1> DEFINE Inv == coded \in {NotCoding} \union UnpackCalls \union SignatureCalls
                                \union KeyCalls
  <1>1. EncodingInit => Inv
    BY DEF EncodingInit
  <1>2. Inv /\ [EncodingNext]_coded => Inv'
    BY DEF EncodingNext, BeginCoding, EndCoding, NotCoding, UnpackCalls, SignatureCalls,
           KeyCalls, HintBytes, Hints, HintWeight, Index, Bytes, Packed
  <1>3. Inv => EncodingIsUnique
    <2> SUFFICES ASSUME Inv PROVE EncodingIsUnique
      OBVIOUS
    <2>1. CASE coded = NotCoding
      BY <2>1 DEF EncodingIsUnique, NotCoding
    <2>2. CASE coded \in UnpackCalls
      <3>1. coded.op = "unpack" /\ coded.bytes \in HintBytes
        BY <2>2 DEF UnpackCalls
      <3>2. HintAccepted(coded.bytes) =>
              /\ Len(Positions(unpack_hint(coded.bytes), K)) <= OMEGA
              /\ pack_hint(unpack_hint(coded.bytes)) = coded.bytes
        BY <3>1, HintIsCanonical
      <3> QED BY <3>1, <3>2 DEF EncodingIsUnique
    <2>3. CASE coded \in SignatureCalls
      <3>1. /\ coded.op = "signature" /\ coded.c \in Bytes(CTILDEBYTES)
            /\ coded.z \in Packed(L, POLYZ) /\ coded.h \in Hints
        BY <2>3 DEF SignatureCalls
      <3>2. unpack_sig(pack_sig(coded.c, coded.z, coded.h))
              = [ok |-> TRUE, c |-> coded.c, z |-> coded.z, h |-> coded.h]
        BY <3>1, SignatureReadsBack
      <3> QED BY <3>1, <3>2 DEF EncodingIsUnique
    <2>4. CASE coded \in KeyCalls
      <3>1. /\ coded.op = "keys" /\ coded.rho \in Bytes(SEEDBYTES)
            /\ coded.tr \in Bytes(TRBYTES) /\ coded.key \in Bytes(SEEDBYTES)
            /\ coded.t1 \in Packed(K, POLYT1) /\ coded.t0 \in Packed(K, POLYT0)
            /\ coded.s1 \in Packed(L, POLYETA) /\ coded.s2 \in Packed(K, POLYETA)
        BY <2>4 DEF KeyCalls
      <3>2. unpack_pk(pack_pk(coded.rho, coded.t1)) = [rho |-> coded.rho, t1 |-> coded.t1]
        BY <3>1, PublicKeyReadsBack
      <3>3. unpack_sk(pack_sk(coded.rho, coded.tr, coded.key, coded.t0, coded.s1, coded.s2))
              = [rho |-> coded.rho, key |-> coded.key, tr |-> coded.tr,
                 s1 |-> coded.s1, s2 |-> coded.s2, t0 |-> coded.t0]
        BY <3>1, SecretKeyReadsBack
      <3> QED BY <3>1, <3>2, <3>3 DEF EncodingIsUnique
    <2> QED BY <2>1, <2>2, <2>3, <2>4
  <1> QED BY <1>1, <1>2, <1>3, PTL DEF EncodingSpec

-----------------------------------------------------------------------------
(* Products and remainders modulo Q.                                       *)

Mul(x, y)  == x * y
Cong(x, y) == x % Q = y % Q

LEMMA MulFacts ==
    /\ \A x, y \in Int : Mul(x, y) \in Int /\ Mul(x, y) = Mul(y, x) /\ Mul(x, -y) = -Mul(x, y)
    /\ \A x, y, z \in Int : /\ Mul(x, y + z) = Mul(x, y) + Mul(x, z)
                            /\ Mul(x, Mul(y, z)) = Mul(y, Mul(x, z))
    /\ \A x \in Int : Mul(x, 0) = 0
  BY DEF Mul

LEMMA CongIs ==
    \A x, y \in Int : Cong(x, y) <=> \E t \in Int : x = y + t * 8380417
  <1> SUFFICES ASSUME NEW x \in Int, NEW y \in Int
               PROVE  Cong(x, y) <=> \E t \in Int : x = y + t * 8380417
    BY SMT
  <1>1. /\ (x % 8380417) \in Int /\ (x \div 8380417) \in Int
        /\ x = 8380417 * (x \div 8380417) + (x % 8380417)
        /\ 0 <= (x % 8380417) /\ (x % 8380417) < 8380417
    BY SMT
  <1>2. /\ (y % 8380417) \in Int /\ (y \div 8380417) \in Int
        /\ y = 8380417 * (y \div 8380417) + (y % 8380417)
        /\ 0 <= (y % 8380417) /\ (y % 8380417) < 8380417
    BY SMT
  <1>3. ASSUME Cong(x, y) PROVE \E t \in Int : x = y + t * 8380417
    <2> DEFINE t == (x \div 8380417) - (y \div 8380417)
    <2>1. t \in Int /\ x = y + t * 8380417
      BY SMT, <1>1, <1>2, <1>3 DEF Cong, Q
    <2> HIDE DEF t
    <2> QED BY SMT, <2>1
  <1>4. ASSUME NEW t \in Int, x = y + t * 8380417 PROVE Cong(x, y)
    BY SMT, <1>1, <1>2, <1>4 DEF Cong, Q
  <1> QED BY SMT, <1>3, <1>4

LEMMA CongAdd ==
    \A x, y, u, v \in Int : Cong(x, u) /\ Cong(y, v) => Cong(x + y, u + v)
  <1> SUFFICES ASSUME NEW x \in Int, NEW y \in Int, NEW u \in Int, NEW v \in Int,
                      Cong(x, u), Cong(y, v)
               PROVE  Cong(x + y, u + v)
    BY SMT
  <1>1. PICK s \in Int : x = u + s * 8380417
    BY SMT, CongIs
  <1>2. PICK t \in Int : y = v + t * 8380417
    BY SMT, CongIs
  <1> DEFINE a == x + y
             b == u + v
             c == s + t
  <1>3. a \in Int /\ b \in Int /\ c \in Int /\ a = b + c * 8380417
    BY SMT, <1>1, <1>2
  <1> HIDE DEF a, b, c
  <1>4. Cong(a, b)
    BY SMT, <1>3, CongIs
  <1> QED BY SMT, <1>4 DEF a, b

LEMMA CongSub ==
    \A x, y, u, v \in Int : Cong(x, u) /\ Cong(y, v) => Cong(x - y, u - v)
  <1> SUFFICES ASSUME NEW x \in Int, NEW y \in Int, NEW u \in Int, NEW v \in Int,
                      Cong(x, u), Cong(y, v)
               PROVE  Cong(x - y, u - v)
    BY SMT
  <1>1. PICK s \in Int : x = u + s * 8380417
    BY SMT, CongIs
  <1>2. PICK t \in Int : y = v + t * 8380417
    BY SMT, CongIs
  <1> DEFINE a == x - y
             b == u - v
             c == s - t
  <1>3. a \in Int /\ b \in Int /\ c \in Int /\ a = b + c * 8380417
    BY SMT, <1>1, <1>2
  <1> HIDE DEF a, b, c
  <1>4. Cong(a, b)
    BY SMT, <1>3, CongIs
  <1> QED BY SMT, <1>4 DEF a, b

LEMMA CongMul ==
    \A x, y, u, v \in Int : Cong(x, u) /\ Cong(y, v) => Cong(Mul(x, y), Mul(u, v))
  <1>1. ASSUME NEW x \in Int, NEW y \in Int, NEW u \in Int, Cong(x, u)
        PROVE  Cong(Mul(y, x), Mul(y, u))
    <2>1. PICK s \in Int : x = u + s * 8380417
      BY SMT, <1>1, CongIs
    <2>2. Mul(y, x) = Mul(y, u) + Mul(y, s) * 8380417
      <3>1. Mul(y, x) = y * (u + s * 8380417)
        BY SMT, <2>1 DEF Mul
      <3>2. y * (u + s * 8380417) = y * u + (y * s) * 8380417
        BY SMT
      <3> QED BY SMT, <3>1, <3>2 DEF Mul
    <2>3. Mul(y, x) \in Int /\ Mul(y, u) \in Int /\ Mul(y, s) \in Int
      BY SMT, MulFacts
    <2> QED BY SMT, <2>2, <2>3, CongIs
  <1>2. ASSUME NEW x \in Int, NEW y \in Int, NEW u \in Int, NEW v \in Int,
               Cong(x, u), Cong(y, v)
        PROVE  Cong(Mul(x, y), Mul(u, v))
    <2>1. Cong(Mul(x, y), Mul(x, v))
      BY SMT, <1>1, <1>2
    <2>2. Cong(Mul(v, x), Mul(v, u))
      BY SMT, <1>1, <1>2
    <2>3. Mul(v, x) = Mul(x, v) /\ Mul(v, u) = Mul(u, v)
      BY SMT, MulFacts
    <2> QED BY SMT, <2>1, <2>2, <2>3 DEF Cong
  <1> QED BY SMT, <1>2

LEMMA CongBasics ==
    /\ \A x : Cong(x, x)
    /\ \A x, y : Cong(x, y) => Cong(y, x)
    /\ \A x, y, z : Cong(x, y) /\ Cong(y, z) => Cong(x, z)
  BY SMT DEF Cong

LEMMA Remainder ==
    \A x \in Int : /\ (x % Q) \in Int /\ 0 <= (x % Q) /\ (x % Q) <= 8380416
                   /\ Cong(x % Q, x) /\ Cong(x + 8380417, x) /\ Cong(x - 8380417, x)
  <1> SUFFICES ASSUME NEW x \in Int
               PROVE /\ (x % Q) \in Int /\ 0 <= (x % Q) /\ (x % Q) <= 8380416
                     /\ Cong(x % Q, x) /\ Cong(x + 8380417, x) /\ Cong(x - 8380417, x)
    BY SMT
  <1>1. (x % 8380417) \in Int /\ 0 <= (x % 8380417) /\ (x % 8380417) <= 8380416
    BY SMT
  <1>2. (x % 8380417) % 8380417 = x % 8380417
    BY <1>1, SMT
  <1>3. x + 8380417 = x + 1 * 8380417 /\ x - 8380417 = x + (-1) * 8380417
    BY SMT
  <1>4. Cong(x + 8380417, x) /\ Cong(x - 8380417, x)
    BY SMT, <1>3, CongIs
  <1>5. Cong(x % 8380417, x)
    BY SMT, <1>2 DEF Q, Cong
  <1>6. (x % Q) \in Int /\ 0 <= (x % Q) /\ (x % Q) <= 8380416
    BY SMT, <1>1 DEF Q
  <1>7. Cong(x % Q, x)
    BY SMT, <1>5 DEF Q
  <1> QED BY SMT, <1>4, <1>6, <1>7

-----------------------------------------------------------------------------
(* Sums.                                                                   *)

(* f adds up, number by number, as far as n.                               *)
Adds(f, n) ==
    /\ SumOf(f, 0) = 0
    /\ \A i \in 0 .. n : SumOf(f, i) \in Int
    /\ \A i \in 0 .. n - 1 : SumOf(f, i + 1) = SumOf(f, i) + f[i]

IsInt(f, n) == \A i \in 0 .. n - 1 : f[i] \in Int

LEMMA SumUnfold ==
    ASSUME NEW f, NEW n \in Nat, IsInt(f, n)
    PROVE  Adds(f, n)
  <1> DEFINE step == [p \in Nat \X Int |-> IF p[1] < n THEN p[2] + f[p[1]] ELSE p[2]]
  <1>1. step \in [Nat \X Int -> Int] /\ 0 \in Int
    BY DEF IsInt
  <1>2. PICK s \in [Nat -> Int] : s[0] = 0 /\ \A i \in Nat : s[i + 1] = step[<<i, s[i]>>]
    <2> HIDE DEF step
    <2>1. \E s \in [Nat -> Int] : Recursive(s, 0, step)
      BY <1>1, Recursion
    <2> QED BY <2>1 DEF Recursive
  <1>3. \A i \in 0 .. n - 1 : s[i + 1] = s[i] + f[i]
    <2> SUFFICES ASSUME NEW i \in 0 .. n - 1 PROVE s[i + 1] = s[i] + f[i]
      OBVIOUS
    <2>1. i \in Nat /\ i < n /\ s[i] \in Int
      OBVIOUS
    <2>2. step[<<i, s[i]>>] = s[i] + f[i]
      BY <2>1
    <2> QED BY <2>1, <2>2, <1>2
  <1> HIDE DEF step
  <1>4. ASSUME NEW m \in 0 .. n PROVE SumOf(f, m) = s[m]
    <2> DEFINE Is(o) == o = [i \in 0 .. m |-> IF i = 0 THEN 0 ELSE o[i - 1] + f[i - 1]]
    <2> DEFINE g == [i \in 0 .. m |-> s[i]]
    <2>1. \A i \in 0 .. m : g[i] = IF i = 0 THEN 0 ELSE g[i - 1] + f[i - 1]
      <3> SUFFICES ASSUME NEW i \in 0 .. m
                   PROVE  g[i] = IF i = 0 THEN 0 ELSE g[i - 1] + f[i - 1]
        OBVIOUS
      <3>0. CASE i = 0
        BY <3>0, <1>2
      <3> SUFFICES ASSUME i # 0 PROVE g[i] = g[i - 1] + f[i - 1]
        BY <3>0
      <3>1. i - 1 \in 0 .. n - 1 /\ i - 1 \in 0 .. m /\ (i - 1) + 1 = i
        OBVIOUS
      <3>2. g[i] = s[i] /\ g[i - 1] = s[i - 1]
        BY <3>1
      <3>3. s[i] = s[i - 1] + f[i - 1]
        BY <1>3, <3>1
      <3> QED BY <3>2, <3>3
    <2>2. Is(g)
      BY <2>1
    <2> DEFINE o == CHOOSE o : Is(o)
    <2>3. SumOf(f, m) = o[m]
      BY DEF SumOf
    <2>4. Is(o)
      <3> HIDE DEF Is, g
      <3> QED BY <2>2
    <2>5. \A i \in 0 .. m : o[i] = IF i = 0 THEN 0 ELSE o[i - 1] + f[i - 1]
      <3> HIDE DEF o
      <3> QED BY <2>4
    <2> HIDE DEF o, Is, g
    <2> DEFINE T == {i \in Nat : i <= m => o[i] = s[i]}
    <2>6. 0 \in T
      BY <2>5, <1>2
    <2>7. ASSUME NEW i \in Nat, i \in T PROVE i + 1 \in T
      <3>1. CASE i + 1 <= m
        <4>1. i + 1 \in 0 .. m /\ i + 1 # 0 /\ (i + 1) - 1 = i /\ i <= m /\ i \in 0 .. n - 1
          BY <3>1
        <4>2. o[i + 1] = o[i] + f[i]
          BY <4>1, <2>5
        <4>3. o[i] = s[i]
          BY <4>1, <2>7
        <4>4. o[i + 1] = s[i + 1]
          BY <4>1, <4>2, <4>3, <1>3
        <4> QED BY <4>4
      <3> QED BY <3>1
    <2> HIDE DEF T
    <2>8. m \in T
      BY <2>6, <2>7, SetInduction
    <2> QED BY <2>3, <2>8 DEF T
  <1>5. SumOf(f, 0) = 0
    BY <1>2, <1>4
  <1>6. \A i \in 0 .. n : SumOf(f, i) \in Int
    BY <1>2, <1>4
  <1>7. ASSUME NEW i \in 0 .. n - 1 PROVE SumOf(f, i + 1) = SumOf(f, i) + f[i]
    <2>1. i \in 0 .. n /\ i + 1 \in 0 .. n
      OBVIOUS
    <2>2. SumOf(f, i) = s[i] /\ SumOf(f, i + 1) = s[i + 1]
      BY <2>1, <1>4
    <2> QED BY <2>2, <1>3
  <1> QED BY <1>5, <1>6, <1>7 DEF Adds

LEMMA SumInt ==
    ASSUME NEW f, NEW n \in Nat, IsInt(f, n)
    PROVE  SumOf(f, n) \in Int
  BY SumUnfold DEF Adds

(* What holds of 0 and 0, and is kept by adding the next numbers.          *)
LEMMA SumAdd ==
    ASSUME NEW n \in Nat, NEW f, NEW g, NEW h, IsInt(f, n), IsInt(g, n), IsInt(h, n),
           \A i \in 0 .. n - 1 : h[i] = f[i] + g[i]
    PROVE  SumOf(h, n) = SumOf(f, n) + SumOf(g, n)
  <1> DEFINE T == {m \in Nat : m <= n => SumOf(h, m) = SumOf(f, m) + SumOf(g, m)}
  <1>1. Adds(f, n) /\ Adds(g, n) /\ Adds(h, n)
    BY SumUnfold
  <1>2. 0 \in T
    BY <1>1 DEF Adds
  <1>3. ASSUME NEW m \in Nat, m \in T PROVE m + 1 \in T
    <2>1. CASE m + 1 <= n
      <3>1. m \in 0 .. n - 1 /\ m \in 0 .. n /\ m <= n
        BY <2>1
      <3>2. /\ SumOf(h, m + 1) = SumOf(h, m) + h[m]
            /\ SumOf(f, m + 1) = SumOf(f, m) + f[m] /\ f[m] \in Int
            /\ SumOf(g, m + 1) = SumOf(g, m) + g[m] /\ g[m] \in Int
            /\ SumOf(f, m) \in Int /\ SumOf(g, m) \in Int
        BY <3>1, <1>1 DEF Adds, IsInt
      <3>3. SumOf(h, m) = SumOf(f, m) + SumOf(g, m) /\ h[m] = f[m] + g[m]
        BY <3>1, <1>3
      <3> QED BY <3>2, <3>3
    <2> QED BY <2>1
  <1> HIDE DEF T
  <1>4. n \in T
    BY <1>2, <1>3, SetInduction
  <1> QED BY <1>4 DEF T

LEMMA SumScale ==
    ASSUME NEW n \in Nat, NEW x \in Int, NEW f, NEW h, IsInt(f, n), IsInt(h, n),
           \A i \in 0 .. n - 1 : h[i] = Mul(x, f[i])
    PROVE  SumOf(h, n) = Mul(x, SumOf(f, n))
  <1> DEFINE T == {m \in Nat : m <= n => SumOf(h, m) = Mul(x, SumOf(f, m))}
  <1>1. Adds(f, n) /\ Adds(h, n)
    BY SumUnfold
  <1>2. 0 \in T
    BY <1>1, MulFacts DEF Adds
  <1>3. ASSUME NEW m \in Nat, m \in T PROVE m + 1 \in T
    <2>1. CASE m + 1 <= n
      <3>1. m \in 0 .. n - 1 /\ m \in 0 .. n /\ m <= n
        BY <2>1
      <3>2. /\ SumOf(h, m + 1) = SumOf(h, m) + h[m]
            /\ SumOf(f, m + 1) = SumOf(f, m) + f[m] /\ f[m] \in Int
            /\ SumOf(f, m) \in Int
        BY <3>1, <1>1 DEF Adds, IsInt
      <3>3. SumOf(h, m) = Mul(x, SumOf(f, m)) /\ h[m] = Mul(x, f[m])
        BY <3>1, <1>3
      <3>4. Mul(x, SumOf(f, m) + f[m]) = Mul(x, SumOf(f, m)) + Mul(x, f[m])
        <4> DEFINE a == SumOf(f, m)
                   b == f[m]
        <4>1. a \in Int /\ b \in Int
          BY <3>2
        <4> HIDE DEF a, b
        <4>2. Mul(x, a + b) = Mul(x, a) + Mul(x, b)
          BY <4>1, MulFacts
        <4> QED BY <4>2 DEF a, b
      <3> QED BY <3>2, <3>3, <3>4
    <2> QED BY <2>1
  <1> HIDE DEF T
  <1>4. n \in T
    BY <1>2, <1>3, SetInduction
  <1> QED BY <1>4 DEF T

LEMMA SumCong ==
    ASSUME NEW n \in Nat, NEW f, NEW h, IsInt(f, n), IsInt(h, n),
           \A i \in 0 .. n - 1 : Cong(h[i], f[i])
    PROVE  Cong(SumOf(h, n), SumOf(f, n))
  <1> DEFINE T == {m \in Nat : m <= n => Cong(SumOf(h, m), SumOf(f, m))}
  <1>1. Adds(f, n) /\ Adds(h, n)
    BY SumUnfold
  <1>2. 0 \in T
    BY <1>1, CongBasics DEF Adds
  <1>3. ASSUME NEW m \in Nat, m \in T PROVE m + 1 \in T
    <2>1. CASE m + 1 <= n
      <3>1. m \in 0 .. n - 1 /\ m \in 0 .. n /\ m <= n
        BY <2>1
      <3>2. /\ SumOf(h, m + 1) = SumOf(h, m) + h[m] /\ h[m] \in Int /\ SumOf(h, m) \in Int
            /\ SumOf(f, m + 1) = SumOf(f, m) + f[m] /\ f[m] \in Int /\ SumOf(f, m) \in Int
        BY <3>1, <1>1 DEF Adds, IsInt
      <3>3. Cong(SumOf(h, m), SumOf(f, m)) /\ Cong(h[m], f[m])
        BY <3>1, <1>3
      <3>4. Cong(SumOf(h, m) + h[m], SumOf(f, m) + f[m])
        BY <3>2, <3>3, CongAdd
      <3> QED BY <3>2, <3>4
    <2> QED BY <2>1
  <1> HIDE DEF T
  <1>4. n \in T
    BY <1>2, <1>3, SetInduction
  <1> QED BY <1>4 DEF T

LEMMA SumZero ==
    ASSUME NEW n \in Nat, NEW f, \A i \in 0 .. n - 1 : f[i] = 0
    PROVE  SumOf(f, n) = 0
  <1>1. IsInt(f, n) /\ 0 \in Int
    BY DEF IsInt
  <1>2. \A i \in 0 .. n - 1 : f[i] = Mul(0, f[i])
    <2>1. Mul(0, 0) = 0
      BY DEF Mul
    <2> QED BY <2>1
  <1>3. SumOf(f, n) = Mul(0, SumOf(f, n)) /\ SumOf(f, n) \in Int
    BY <1>1, <1>2, SumScale, SumInt
  <1> DEFINE a == SumOf(f, n)
  <1> HIDE DEF a
  <1>4. a = Mul(0, a) /\ a \in Int
    BY <1>3 DEF a
  <1>5. Mul(0, a) = 0
    BY <1>4 DEF Mul
  <1> QED BY <1>4, <1>5 DEF a

(* Rows and columns add up to the same.                                    *)
Rows(F, n, m)    == [i \in 0 .. n - 1 |-> SumOf(F[i], m)]
Column(F, k, n)  == [i \in 0 .. n - 1 |-> F[i][k]]
Columns(F, n, m) == [k \in 0 .. m - 1 |-> SumOf(Column(F, k, n), n)]

LEMMA SumSwap ==
    ASSUME NEW n \in Nat, NEW m \in Nat, NEW F \in [0 .. n - 1 -> [0 .. m - 1 -> Int]]
    PROVE  SumOf(Rows(F, n, m), n) = SumOf(Columns(F, n, m), m)
  <1> DEFINE rows == Rows(F, n, m)
             part(p) == [k \in 0 .. m - 1 |-> SumOf(Column(F, k, n), p)]
             T == {p \in Nat : p <= n => SumOf(rows, p) = SumOf(part(p), m)}
  <1>1. \A k \in 0 .. m - 1 : Adds(Column(F, k, n), n)
    <2> SUFFICES ASSUME NEW k \in 0 .. m - 1 PROVE Adds(Column(F, k, n), n)
      OBVIOUS
    <2>1. IsInt(Column(F, k, n), n)
      BY DEF IsInt, Column
    <2> QED BY <2>1, SumUnfold
  <1>2. \A i \in 0 .. n - 1 : IsInt(F[i], m) /\ SumOf(F[i], m) \in Int
    <2>1. \A i \in 0 .. n - 1 : IsInt(F[i], m)
      BY DEF IsInt
    <2> QED BY <2>1, SumInt
  <1>3. Adds(rows, n) /\ \A i \in 0 .. n - 1 : rows[i] = SumOf(F[i], m)
    <2>1. \A i \in 0 .. n - 1 : rows[i] = SumOf(F[i], m)
      BY DEF Rows
    <2>2. IsInt(rows, n)
      BY <1>2, <2>1 DEF IsInt
    <2> HIDE DEF rows
    <2> QED BY <2>1, <2>2, SumUnfold
  <1>4. \A p \in 0 .. n : IsInt(part(p), m)
    BY <1>1 DEF Adds, IsInt
  <1> HIDE DEF rows
  <1>5. 0 \in T
    <2>1. \A k \in 0 .. m - 1 : part(0)[k] = 0
      BY <1>1 DEF Adds
    <2> HIDE DEF part
    <2>2. SumOf(part(0), m) = 0
      BY <2>1, SumZero
    <2> QED BY <2>2, <1>3 DEF Adds
  <1>6. ASSUME NEW p \in Nat, p \in T PROVE p + 1 \in T
    <2>1. CASE p + 1 <= n
      <3> DEFINE p2 == p + 1
      <3>1. p \in 0 .. n - 1 /\ p \in 0 .. n /\ p2 \in 0 .. n /\ p <= n
        BY <2>1
      <3>2. \A k \in 0 .. m - 1 : part(p2)[k] = part(p)[k] + F[p][k]
        BY <3>1, <1>1 DEF Adds, Column
      <3>3. IsInt(part(p2), m) /\ IsInt(part(p), m) /\ IsInt(F[p], m)
        BY <3>1, <1>2, <1>4
      <3> HIDE DEF part, p2
      <3>4. SumOf(part(p2), m) = SumOf(part(p), m) + SumOf(F[p], m)
        BY <3>2, <3>3, SumAdd
      <3>5. SumOf(rows, p2) = SumOf(rows, p) + SumOf(F[p], m)
        BY <3>1, <1>3 DEF Adds, p2
      <3>6. SumOf(rows, p) = SumOf(part(p), m)
        BY <3>1, <1>6
      <3>7. SumOf(rows, p2) = SumOf(part(p2), m)
        BY <3>4, <3>5, <3>6
      <3> QED BY <3>7 DEF p2
    <2> QED BY <2>1
  <1> HIDE DEF T
  <1>7. n \in T
    BY <1>5, <1>6, SetInduction
  <1>8. part(n) = Columns(F, n, m)
    BY DEF Columns
  <1> HIDE DEF part
  <1> QED BY <1>7, <1>8 DEF T, rows

-----------------------------------------------------------------------------
(* The product of integer polynomials modulo X^N + 1.                      *)

Poly == [Index -> Int]

(* Coefficient j of X^i b.                                                 *)
Turned(b, i, j) == IF i <= j THEN b[j - i] ELSE -b[N + j - i]

Term(a, b, j) == [i \in Index |-> Mul(a[i], Turned(b, i, j))]
Prod(a, b)    == [j \in Index |-> SumOf(Term(a, b, j), N)]

PolyCong(a, b) == \A j \in Index : Cong(a[j], b[j])

LEMMA Indices == Index = 0 .. N - 1 /\ N \in Nat /\ 0 \in Index
  BY ParamsAssumption DEF Index

LEMMA TurnedInt ==
    ASSUME NEW b \in Poly, NEW i \in Index, NEW j \in Index
    PROVE  Turned(b, i, j) \in Int
  <1>1. i <= j => j - i \in Index
    BY Indices
  <1>2. ~(i <= j) => N + j - i \in Index
    BY Indices
  <1> QED BY <1>1, <1>2 DEF Turned, Poly

LEMMA TermInt ==
    ASSUME NEW a \in Poly, NEW b \in Poly, NEW j \in Index
    PROVE  /\ IsInt(Term(a, b, j), N) /\ SumOf(Term(a, b, j), N) \in Int
           /\ \A i \in 0 .. N - 1 : Term(a, b, j)[i] = Mul(a[i], Turned(b, i, j))
           /\ Term(a, b, j) \in [0 .. N - 1 -> Int]
  <1>1. \A i \in 0 .. N - 1 : /\ Term(a, b, j)[i] = Mul(a[i], Turned(b, i, j))
                              /\ a[i] \in Int /\ Turned(b, i, j) \in Int
    BY Indices, TurnedInt DEF Term, Poly
  <1>2. ASSUME NEW i \in 0 .. N - 1 PROVE Term(a, b, j)[i] \in Int
    <2> DEFINE x == a[i]
               y == Turned(b, i, j)
    <2>1. x \in Int /\ y \in Int /\ Term(a, b, j)[i] = Mul(x, y)
      BY <1>1
    <2> HIDE DEF x, y
    <2>2. Mul(x, y) \in Int
      BY <2>1, MulFacts
    <2> QED BY <2>1, <2>2
  <1>3. IsInt(Term(a, b, j), N)
    BY <1>2 DEF IsInt
  <1>4. Term(a, b, j) \in [0 .. N - 1 -> Int]
    BY <1>2, Indices DEF Term
  <1> QED BY <1>1, <1>3, <1>4, SumInt, Indices

LEMMA ProdPoly ==
    ASSUME NEW a \in Poly, NEW b \in Poly
    PROVE  Prod(a, b) \in Poly
  BY TermInt DEF Prod, Poly

LEMMA ProdAdd ==
    ASSUME NEW a \in Poly, NEW b \in Poly, NEW c \in Poly
    PROVE  Prod(a, poly_add(b, c)) = poly_add(Prod(a, b), Prod(a, c))
  <1> DEFINE d == poly_add(b, c)
  <1>1. d \in Poly /\ \A j \in Index : d[j] = b[j] + c[j]
    BY DEF poly_add, Poly
  <1> HIDE DEF d
  <1>2. ASSUME NEW j \in Index PROVE Prod(a, d)[j] = Prod(a, b)[j] + Prod(a, c)[j]
    <2>1. ASSUME NEW i \in 0 .. N - 1
          PROVE  Term(a, d, j)[i] = Term(a, b, j)[i] + Term(a, c, j)[i]
      <3>1. i \in Index /\ a[i] \in Int
        BY Indices DEF Poly
      <3>2. Turned(d, i, j) = Turned(b, i, j) + Turned(c, i, j)
        <4>1. CASE i <= j
          <5>1. j - i \in Index
            BY <4>1, Indices
          <5> QED BY <4>1, <5>1, <1>1 DEF Turned
        <4>2. CASE ~(i <= j)
          <5>1. N + j - i \in Index
            BY <4>2, Indices
          <5>2. d[N + j - i] = b[N + j - i] + c[N + j - i] /\ b[N + j - i] \in Int
                /\ c[N + j - i] \in Int
            BY <5>1, <1>1 DEF Poly
          <5> QED BY <4>2, <5>2 DEF Turned
        <4> QED BY <4>1, <4>2
      <3> DEFINE u == Turned(b, i, j)
                 v == Turned(c, i, j)
                 x == a[i]
      <3>3. u \in Int /\ v \in Int /\ x \in Int
        BY <3>1, TurnedInt
      <3>4. Mul(x, u + v) = Mul(x, u) + Mul(x, v)
        <4> HIDE DEF u, v, x
        <4> QED BY <3>3, MulFacts
      <3> QED BY <3>2, <3>4, <1>1, TermInt
    <2>2. /\ IsInt(Term(a, b, j), N) /\ IsInt(Term(a, c, j), N) /\ IsInt(Term(a, d, j), N)
          /\ N \in Nat
      BY <1>1, TermInt, Indices
    <2>3. SumOf(Term(a, d, j), N) = SumOf(Term(a, b, j), N) + SumOf(Term(a, c, j), N)
      BY <2>1, <2>2, SumAdd
    <2> QED BY <2>3 DEF Prod
  <1>3. Prod(a, d) = [j \in Index |-> Prod(a, d)[j]]
    BY DEF Prod
  <1> QED BY <1>2, <1>3 DEF poly_add, d

LEMMA ProdCong ==
    ASSUME NEW a \in Poly, NEW b \in Poly, NEW c \in Poly, PolyCong(b, c)
    PROVE  PolyCong(Prod(a, b), Prod(a, c))
  <1> SUFFICES ASSUME NEW j \in Index PROVE Cong(Prod(a, b)[j], Prod(a, c)[j])
    BY DEF PolyCong
  <1>1. ASSUME NEW i \in 0 .. N - 1 PROVE Cong(Term(a, b, j)[i], Term(a, c, j)[i])
    <2>1. i \in Index /\ a[i] \in Int
      BY Indices DEF Poly
    <2>2. Cong(Turned(b, i, j), Turned(c, i, j))
      <3>1. CASE i <= j
        <4>1. j - i \in Index
          BY <3>1, Indices
        <4> QED BY <3>1, <4>1 DEF Turned, PolyCong
      <3>2. CASE ~(i <= j)
        <4> DEFINE k == N + j - i
        <4>1. k \in Index
          BY <3>2, Indices
        <4> HIDE DEF k
        <4>2. Cong(b[k], c[k]) /\ b[k] \in Int /\ c[k] \in Int
          BY <4>1 DEF PolyCong, Poly
        <4>3. Cong(0 - b[k], 0 - c[k])
          BY <4>2, CongSub, CongBasics
        <4>4. 0 - b[k] = -b[k] /\ 0 - c[k] = -c[k]
          BY <4>2
        <4> QED BY <3>2, <4>3, <4>4 DEF Turned, k
      <3> QED BY <3>1, <3>2
    <2>3. Turned(b, i, j) \in Int /\ Turned(c, i, j) \in Int
      BY <2>1, TurnedInt
    <2>4. Cong(Mul(a[i], Turned(b, i, j)), Mul(a[i], Turned(c, i, j)))
      BY <2>1, <2>2, <2>3, CongMul, CongBasics
    <2> QED BY <2>4, TermInt
  <1>2. IsInt(Term(a, b, j), N) /\ IsInt(Term(a, c, j), N) /\ N \in Nat
    BY TermInt, Indices
  <1>3. Cong(SumOf(Term(a, b, j), N), SumOf(Term(a, c, j), N))
    BY <1>1, <1>2, SumCong
  <1> QED BY <1>3 DEF Prod

(* Coefficient e of s, for e from -2 N on: X^N is -1.                      *)
Wrapped(s, e) ==
    IF e >= 0 THEN s[e] ELSE IF e >= -N THEN -s[N + e] ELSE s[2 * N + e]

LEMMA WrappedInt ==
    ASSUME NEW s \in Poly, NEW i \in Index, NEW k \in Index, NEW j \in Index
    PROVE  Wrapped(s, j - i - k) \in Int
  <1> DEFINE e == j - i - k
  <1>1. e \in Int /\ e < N /\ -2 * N <= e
    BY Indices
  <1> HIDE DEF e
  <1>2. CASE e >= 0
    <2>1. e \in Index
      BY <1>1, <1>2, Indices
    <2>2. Wrapped(s, e) = s[e]
      BY <1>2 DEF Wrapped
    <2> QED BY <2>1, <2>2 DEF Poly, e
  <1>3. CASE ~(e >= 0) /\ e >= -N
    <2>1. N + e \in Index
      BY <1>1, <1>3, Indices
    <2>2. Wrapped(s, e) = -s[N + e] /\ s[N + e] \in Int
      BY <2>1, <1>3 DEF Wrapped, Poly
    <2>3. Wrapped(s, e) \in Int
      BY <2>2
    <2> QED BY <2>3 DEF e
  <1>4. CASE ~(e >= 0) /\ ~(e >= -N)
    <2>1. 2 * N + e \in Index
      BY <1>1, <1>4, Indices
    <2>2. Wrapped(s, e) = s[2 * N + e]
      BY <1>4 DEF Wrapped
    <2> QED BY <2>1, <2>2 DEF Poly, e
  <1> QED BY <1>2, <1>3, <1>4

(* X^i times a product, term by term.                                      *)
LEMMA TurnedProd ==
    ASSUME NEW c \in Poly, NEW s \in Poly, NEW i \in Index, NEW j \in Index
    PROVE  Turned(Prod(c, s), i, j) =
             SumOf([k \in Index |-> Mul(c[k], Wrapped(s, j - i - k))], N)
  <1> DEFINE f == [k \in Index |-> Mul(c[k], Wrapped(s, j - i - k))]
  <1>1. CASE i <= j
    <2> DEFINE e == j - i
    <2>1. e \in Index
      BY <1>1, Indices
    <2>2. ASSUME NEW k \in Index PROVE Turned(s, k, e) = Wrapped(s, j - i - k)
      <3> DEFINE d == j - i - k
      <3>1. d \in Int /\ d = e - k /\ N + e - k = N + d /\ d >= -N /\ (k <= e <=> d >= 0)
        BY <2>1, Indices
      <3> HIDE DEF d, e
      <3>2. Turned(s, k, e) = IF d >= 0 THEN s[d] ELSE -s[N + d]
        BY <3>1 DEF Turned
      <3>3. Turned(s, k, e) = Wrapped(s, d)
        BY <3>1, <3>2 DEF Wrapped
      <3> QED BY <3>3 DEF d
    <2>3. Term(c, s, e) = f
      BY <2>2 DEF Term
    <2>4. Turned(Prod(c, s), i, j) = Prod(c, s)[e]
      BY <1>1 DEF Turned
    <2> HIDE DEF f, e
    <2>5. Prod(c, s)[e] = SumOf(Term(c, s, e), N)
      BY <2>1 DEF Prod
    <2> QED BY <2>3, <2>4, <2>5 DEF f
  <1>2. CASE ~(i <= j)
    <2> DEFINE e == N + j - i
               t == Term(c, s, e)
    <2>1. e \in Index
      BY <1>2, Indices
    <2>2. ASSUME NEW k \in Index PROVE Turned(s, k, e) = -Wrapped(s, j - i - k)
      <3> DEFINE d == j - i - k
      <3>1. d \in Int /\ N + d = e - k /\ 2 * N + d = N + e - k /\ d < 0
            /\ (k <= e <=> d >= -N)
        BY <1>2, <2>1, Indices
      <3>2. Wrapped(s, d) \in Int
        BY WrappedInt
      <3> HIDE DEF d, e
      <3>3. Turned(s, k, e) = IF d >= -N THEN s[N + d] ELSE -s[2 * N + d]
        BY <3>1 DEF Turned
      <3>4. CASE d >= -N
        <4>1. Turned(s, k, e) = s[N + d] /\ Wrapped(s, d) = -s[N + d]
          BY <3>1, <3>3, <3>4 DEF Wrapped
        <4>2. N + d \in Index
          BY <3>1, <3>4, Indices
        <4>3. s[N + d] \in Int
          BY <4>2 DEF Poly
        <4>4. Turned(s, k, e) = -Wrapped(s, d)
          BY <4>1, <4>3
        <4> QED BY <4>4 DEF d
      <3>5. CASE ~(d >= -N)
        <4>1. Turned(s, k, e) = -s[2 * N + d] /\ Wrapped(s, d) = s[2 * N + d]
          BY <3>1, <3>3, <3>5 DEF Wrapped
        <4> QED BY <4>1 DEF d
      <3> QED BY <3>4, <3>5
    <2>3. ASSUME NEW k \in Index PROVE f[k] = Mul(-1, t[k]) /\ f[k] \in Int
      <3> DEFINE x == c[k]
                 w == Wrapped(s, j - i - k)
      <3>1. x \in Int /\ w \in Int
        BY WrappedInt DEF Poly
      <3>2. t[k] = Mul(x, -w)
        BY <2>2 DEF Term
      <3>3. f[k] = Mul(x, w)
        OBVIOUS
      <3> HIDE DEF x, w, f, t
      <3>4. Mul(x, -w) = -Mul(x, w) /\ Mul(x, w) \in Int
        BY <3>1, MulFacts
      <3> DEFINE m == Mul(x, w)
      <3>5. Mul(-1, -m) = m
        BY <3>4 DEF Mul
      <3> QED BY <3>2, <3>3, <3>4, <3>5
    <2> HIDE DEF e, t, f
    <2>4. IsInt(f, N) /\ IsInt(t, N)
      BY <2>1, <2>3, TermInt, Indices DEF IsInt, t
    <2>5. SumOf(f, N) = Mul(-1, SumOf(t, N)) /\ SumOf(t, N) \in Int
      BY <2>3, <2>4, SumScale, SumInt, Indices
    <2>6. Turned(Prod(c, s), i, j) = -Prod(c, s)[e]
      BY <1>2 DEF Turned, e
    <2>7. Prod(c, s)[e] = SumOf(t, N)
      BY <2>1 DEF Prod, t
    <2> DEFINE p2 == SumOf(t, N)
    <2>8. Mul(-1, p2) = -p2
      BY <2>5 DEF Mul
    <2> QED BY <2>5, <2>6, <2>7, <2>8 DEF f
  <1> QED BY <1>1, <1>2

LEMMA ProdSwap ==
    ASSUME NEW a \in Poly, NEW c \in Poly, NEW s \in Poly
    PROVE  Prod(a, Prod(c, s)) = Prod(c, Prod(a, s))
  <1> SUFFICES ASSUME NEW j \in Index PROVE Prod(a, Prod(c, s))[j] = Prod(c, Prod(a, s))[j]
    BY DEF Prod
  <1> DEFINE F(x, y) == [i \in Index |-> [k \in Index |->
                           Mul(x[i], Mul(y[k], Wrapped(s, j - i - k)))]]
  <1>1. ASSUME NEW x \in Poly, NEW y \in Poly
        PROVE  /\ F(x, y) \in [0 .. N - 1 -> [0 .. N - 1 -> Int]]
               /\ Term(x, Prod(y, s), j) = Rows(F(x, y), N, N)
    <2>1. ASSUME NEW i \in Index, NEW k \in Index
          PROVE  /\ Mul(x[i], Mul(y[k], Wrapped(s, j - i - k))) \in Int
                 /\ Mul(y[k], Wrapped(s, j - i - k)) \in Int
      <3> DEFINE w == Wrapped(s, j - i - k)
                 u == x[i]
                 v == y[k]
      <3>1. w \in Int /\ u \in Int /\ v \in Int
        BY WrappedInt DEF Poly
      <3> HIDE DEF w, u, v
      <3>2. Mul(v, w) \in Int
        BY <3>1, MulFacts
      <3>3. Mul(u, Mul(v, w)) \in Int
        BY <3>1, <3>2, MulFacts
      <3> QED BY <3>2, <3>3 DEF u, v, w
    <2>2. F(x, y) \in [0 .. N - 1 -> [0 .. N - 1 -> Int]]
      BY <2>1, Indices
    <2>3. ASSUME NEW i \in Index
          PROVE  Term(x, Prod(y, s), j)[i] = SumOf(F(x, y)[i], N)
      <3> DEFINE f == [k \in Index |-> Mul(y[k], Wrapped(s, j - i - k))]
                 g == F(x, y)[i]
                 u == x[i]
      <3>1. /\ \A k \in 0 .. N - 1 : g[k] = Mul(u, f[k])
            /\ IsInt(f, N) /\ IsInt(g, N) /\ u \in Int
        BY <2>1, Indices DEF IsInt, Poly
      <3>2. Term(x, Prod(y, s), j)[i] = Mul(u, Turned(Prod(y, s), i, j))
        BY DEF Term
      <3>3. Turned(Prod(y, s), i, j) = SumOf(f, N)
        BY TurnedProd
      <3> HIDE DEF f, g, u
      <3>4. SumOf(g, N) = Mul(u, SumOf(f, N))
        BY <3>1, SumScale, Indices
      <3> QED BY <3>2, <3>3, <3>4 DEF g
    <2>4. Rows(F(x, y), N, N) = [i \in Index |-> SumOf(F(x, y)[i], N)]
      BY Indices DEF Rows
    <2> HIDE DEF F
    <2>5. Term(x, Prod(y, s), j) = [i \in Index |-> Term(x, Prod(y, s), j)[i]]
      BY DEF Term
    <2> QED BY <2>2, <2>3, <2>4, <2>5
  <1>2. Columns(F(a, c), N, N) = Rows(F(c, a), N, N)
    <2>1. ASSUME NEW k \in Index PROVE Column(F(a, c), k, N) = F(c, a)[k]
      <3>1. ASSUME NEW i \in Index
            PROVE  Mul(a[i], Mul(c[k], Wrapped(s, j - i - k)))
                     = Mul(c[k], Mul(a[i], Wrapped(s, j - k - i)))
        <4> DEFINE w == Wrapped(s, j - i - k)
                   u == a[i]
                   v == c[k]
        <4>1. w \in Int /\ u \in Int /\ v \in Int
          BY WrappedInt DEF Poly
        <4>2. j - k - i = j - i - k
          BY Indices
        <4> HIDE DEF w, u, v
        <4>3. Mul(u, Mul(v, w)) = Mul(v, Mul(u, w))
          BY <4>1, MulFacts
        <4> QED BY <4>2, <4>3 DEF u, v, w
      <3>2. Column(F(a, c), k, N) =
              [i \in Index |-> Mul(a[i], Mul(c[k], Wrapped(s, j - i - k)))]
        BY Indices DEF Column
      <3>3. F(c, a)[k] = [i \in Index |-> Mul(c[k], Mul(a[i], Wrapped(s, j - k - i)))]
        OBVIOUS
      <3> HIDE DEF F
      <3> QED BY <3>1, <3>2, <3>3
    <2> HIDE DEF F
    <2> QED BY <2>1, Indices DEF Columns, Rows
  <1>3. /\ Prod(a, Prod(c, s))[j] = SumOf(Term(a, Prod(c, s), j), N)
        /\ Prod(c, Prod(a, s))[j] = SumOf(Term(c, Prod(a, s), j), N)
    BY DEF Prod
  <1> HIDE DEF F
  <1>4. SumOf(Rows(F(a, c), N, N), N) = SumOf(Columns(F(a, c), N, N), N)
    BY <1>1, SumSwap, Indices
  <1> QED BY <1>1, <1>2, <1>3, <1>4

-----------------------------------------------------------------------------
(* A row of a matrix times a vector of integer polynomials.                *)

Polys(n) == [1 .. n -> Poly]

Entries(a, v, j) == [l \in 0 .. L - 1 |-> Prod(a[l + 1], v[l + 1])[j]]
Acc(a, v, n)     == [j \in Index |-> SumOf(Entries(a, v, j), n)]

LEMMA AccUnfold ==
    ASSUME NEW a \in Polys(L), NEW v \in Polys(L)
    PROVE  /\ \A j \in Index : /\ IsInt(Entries(a, v, j), L)
                               /\ \A l \in 0 .. L - 1 :
                                    Entries(a, v, j)[l] = Prod(a[l + 1], v[l + 1])[j]
           /\ \A n \in 0 .. L : Acc(a, v, n) \in Poly
           /\ Acc(a, v, 0) = [j \in Index |-> 0]
           /\ \A n \in 0 .. L - 1 :
                Acc(a, v, n + 1) = poly_add(Acc(a, v, n), Prod(a[n + 1], v[n + 1]))
  <1>0. L \in Nat
    BY ParamsAssumption
  <1>1. ASSUME NEW j \in Index, NEW l \in 0 .. L - 1
        PROVE  /\ Entries(a, v, j)[l] = Prod(a[l + 1], v[l + 1])[j]
               /\ Entries(a, v, j)[l] \in Int
    <2>1. l + 1 \in 1 .. L
      BY <1>0
    <2>2. a[l + 1] \in Poly /\ v[l + 1] \in Poly
      BY <2>1 DEF Polys
    <2>3. Prod(a[l + 1], v[l + 1]) \in Poly
      BY <2>2, ProdPoly
    <2> QED BY <2>3 DEF Entries, Poly
  <1>2. ASSUME NEW j \in Index PROVE Adds(Entries(a, v, j), L) /\ IsInt(Entries(a, v, j), L)
    <2>1. IsInt(Entries(a, v, j), L)
      BY <1>1 DEF IsInt
    <2> QED BY <2>1, <1>0, SumUnfold
  <1>3. \A n \in 0 .. L : Acc(a, v, n) \in Poly
    BY <1>2 DEF Acc, Poly, Adds
  <1>4. Acc(a, v, 0) = [j \in Index |-> 0]
    BY <1>2 DEF Acc, Adds
  <1>5. ASSUME NEW n \in 0 .. L - 1
        PROVE  Acc(a, v, n + 1) = poly_add(Acc(a, v, n), Prod(a[n + 1], v[n + 1]))
    <2>1. ASSUME NEW j \in Index
          PROVE  SumOf(Entries(a, v, j), n + 1)
                   = SumOf(Entries(a, v, j), n) + Prod(a[n + 1], v[n + 1])[j]
      BY <1>1, <1>2 DEF Adds
    <2>2. \A j \in Index : Acc(a, v, n)[j] = SumOf(Entries(a, v, j), n)
      BY DEF Acc
    <2>3. Acc(a, v, n + 1) = [j \in Index |-> SumOf(Entries(a, v, j), n + 1)]
      BY DEF Acc
    <2>4. poly_add(Acc(a, v, n), Prod(a[n + 1], v[n + 1]))
            = [j \in Index |-> Acc(a, v, n)[j] + Prod(a[n + 1], v[n + 1])[j]]
      BY DEF poly_add
    <2> QED BY <2>1, <2>2, <2>3, <2>4
  <1> QED BY <1>1, <1>2, <1>3, <1>4, <1>5

LEMMA AccAdd ==
    ASSUME NEW a \in Polys(L), NEW u \in Polys(L), NEW v \in Polys(L), NEW w \in Polys(L),
           \A l \in 1 .. L : w[l] = poly_add(u[l], v[l])
    PROVE  Acc(a, w, L) = poly_add(Acc(a, u, L), Acc(a, v, L))
  <1>0. L \in Nat
    BY ParamsAssumption
  <1>1. ASSUME NEW j \in Index PROVE Acc(a, w, L)[j] = Acc(a, u, L)[j] + Acc(a, v, L)[j]
    <2>1. ASSUME NEW l \in 0 .. L - 1
          PROVE  Entries(a, w, j)[l] = Entries(a, u, j)[l] + Entries(a, v, j)[l]
      <3> DEFINE k == l + 1
      <3>1. k \in 1 .. L
        BY <1>0
      <3> HIDE DEF k
      <3>2. a[k] \in Poly /\ u[k] \in Poly /\ v[k] \in Poly /\ w[k] = poly_add(u[k], v[k])
        BY <3>1 DEF Polys
      <3>3. Prod(a[k], w[k]) = poly_add(Prod(a[k], u[k]), Prod(a[k], v[k]))
        BY <3>2, ProdAdd
      <3>4. Prod(a[k], w[k])[j] = Prod(a[k], u[k])[j] + Prod(a[k], v[k])[j]
        BY <3>3 DEF poly_add
      <3>5. /\ Entries(a, w, j)[l] = Prod(a[k], w[k])[j]
            /\ Entries(a, u, j)[l] = Prod(a[k], u[k])[j]
            /\ Entries(a, v, j)[l] = Prod(a[k], v[k])[j]
        BY AccUnfold DEF k
      <3> QED BY <3>4, <3>5
    <2>2. SumOf(Entries(a, w, j), L) = SumOf(Entries(a, u, j), L) + SumOf(Entries(a, v, j), L)
      BY <1>0, <2>1, AccUnfold, SumAdd
    <2> QED BY <2>2 DEF Acc
  <1>2. Acc(a, w, L) = [j \in Index |-> Acc(a, w, L)[j]]
    BY DEF Acc
  <1> QED BY <1>1, <1>2 DEF poly_add

LEMMA AccCong ==
    ASSUME NEW a \in Polys(L), NEW u \in Polys(L), NEW v \in Polys(L),
           \A l \in 1 .. L : PolyCong(u[l], v[l])
    PROVE  PolyCong(Acc(a, u, L), Acc(a, v, L))
  <1>0. L \in Nat
    BY ParamsAssumption
  <1> SUFFICES ASSUME NEW j \in Index PROVE Cong(Acc(a, u, L)[j], Acc(a, v, L)[j])
    BY DEF PolyCong
  <1>1. ASSUME NEW l \in 0 .. L - 1
        PROVE  Cong(Entries(a, u, j)[l], Entries(a, v, j)[l])
    <2> DEFINE k == l + 1
    <2>1. k \in 1 .. L
      BY <1>0
    <2> HIDE DEF k
    <2>2. a[k] \in Poly /\ u[k] \in Poly /\ v[k] \in Poly /\ PolyCong(u[k], v[k])
      BY <2>1 DEF Polys
    <2>3. PolyCong(Prod(a[k], u[k]), Prod(a[k], v[k]))
      BY <2>2, ProdCong
    <2>4. /\ Entries(a, u, j)[l] = Prod(a[k], u[k])[j]
          /\ Entries(a, v, j)[l] = Prod(a[k], v[k])[j]
      BY AccUnfold DEF k
    <2> QED BY <2>3, <2>4 DEF PolyCong
  <1>2. Cong(SumOf(Entries(a, u, j), L), SumOf(Entries(a, v, j), L))
    BY <1>0, <1>1, AccUnfold, SumCong
  <1> QED BY <1>2 DEF Acc

LEMMA ProdZero ==
    ASSUME NEW a \in Poly
    PROVE  Prod(a, [j \in Index |-> 0]) = [j \in Index |-> 0]
  <1> DEFINE z == [j \in Index |-> 0]
  <1>1. z \in Poly /\ \A j \in Index : z[j] = 0
    BY DEF Poly
  <1> HIDE DEF z
  <1>2. ASSUME NEW j \in Index PROVE Prod(a, z)[j] = 0
    <2>1. ASSUME NEW i \in 0 .. N - 1 PROVE Term(a, z, j)[i] = 0
      <3>1. i \in Index /\ a[i] \in Int
        BY Indices DEF Poly
      <3>2. Turned(z, i, j) = 0
        <4>1. i <= j => j - i \in Index
          BY <3>1, Indices
        <4>2. ~(i <= j) => N + j - i \in Index
          BY <3>1, Indices
        <4> QED BY <4>1, <4>2, <1>1 DEF Turned
      <3>3. Mul(a[i], 0) = 0
        BY <3>1, MulFacts
      <3> QED BY <3>2, <3>3, <1>1, TermInt
    <2>2. SumOf(Term(a, z, j), N) = 0
      BY <2>1, SumZero, Indices
    <2> QED BY <2>2 DEF Prod
  <1>3. Prod(a, z) = [j \in Index |-> Prod(a, z)[j]]
    BY DEF Prod
  <1>4. Prod(a, z) = z
    BY <1>2, <1>3 DEF z
  <1> QED BY <1>4 DEF z

LEMMA AccSwap ==
    ASSUME NEW a \in Polys(L), NEW v \in Polys(L), NEW c \in Poly, NEW w \in Polys(L),
           \A l \in 1 .. L : w[l] = Prod(c, v[l])
    PROVE  Acc(a, w, L) = Prod(c, Acc(a, v, L))
  <1> DEFINE T == {n \in Nat : n <= L => Acc(a, w, n) = Prod(c, Acc(a, v, n))}
  <1>0. L \in Nat
    BY ParamsAssumption
  <1>1. 0 \in T
    BY AccUnfold, ProdZero
  <1>2. ASSUME NEW n \in Nat, n \in T PROVE n + 1 \in T
    <2>1. CASE n + 1 <= L
      <3> DEFINE k == n + 1
                 x == Acc(a, v, n)
                 y == Prod(a[k], v[k])
      <3>1. n \in 0 .. L - 1 /\ n \in 0 .. L /\ k \in 1 .. L /\ n <= L
        BY <2>1, <1>0
      <3>2. /\ Acc(a, w, k) = poly_add(Acc(a, w, n), Prod(a[k], w[k]))
            /\ Acc(a, v, k) = poly_add(x, y) /\ x \in Poly
        BY <3>1, AccUnfold
      <3>3. Acc(a, w, n) = Prod(c, x)
        BY <1>2, <3>1
      <3> HIDE DEF k, x
      <3>4. a[k] \in Poly /\ v[k] \in Poly /\ w[k] = Prod(c, v[k])
        BY <3>1 DEF Polys
      <3>5. y \in Poly
        BY <3>4, ProdPoly
      <3>8. Prod(a[k], w[k]) = Prod(c, y)
        BY <3>4, ProdSwap
      <3> HIDE DEF y
      <3>6. Prod(c, poly_add(x, y)) = poly_add(Prod(c, x), Prod(c, y))
        BY <3>2, <3>5, ProdAdd
      <3>7. Acc(a, w, k) = Prod(c, Acc(a, v, k))
        BY <3>2, <3>3, <3>6, <3>8
      <3> QED BY <3>7 DEF k
    <2> QED BY <2>1
  <1> HIDE DEF T
  <1>3. L \in T
    BY <1>0, <1>1, <1>2, SetInduction
  <1> QED BY <1>0, <1>3 DEF T

-----------------------------------------------------------------------------
(* The products of the program against those of integer polynomials.       *)

(* Eight more bits.                                                        *)
Limb(acc, v) == acc * 256 + v

LEMMA LimbInt == \A acc, v \in Int : Limb(acc, v) \in Int
  BY DEF Limb

LEMMA LimbCong ==
    ASSUME NEW i \in Int, NEW j \in Int, NEW k \in Int, Cong(i, j)
    PROVE  Cong(Limb(i, k), Limb(j, k))
  <1>1. PICK t \in Int : i = j + t * 8380417
    BY SMT, CongIs
  <1> DEFINE m == Limb(i, k)
             n == Limb(j, k)
             w == t * 256
  <1>2. m \in Int /\ n \in Int /\ w \in Int /\ m = n + w * 8380417
    BY SMT, <1>1 DEF Limb
  <1> HIDE DEF m, n, w
  <1>3. Cong(m, n)
    BY SMT, <1>2, CongIs
  <1> QED BY SMT, <1>2, <1>3 DEF m, n

Limbs(x, acc, limb) == (((acc * 256) % Q) + ((x * limb) % Q)) % Q

LEMMA LimbsIs ==
    ASSUME NEW x \in Int, NEW acc \in Int, NEW limb \in Int
    PROVE  /\ Limbs(x, acc, limb) \in Int
           /\ Cong(Limbs(x, acc, limb), Limb(acc, Mul(x, limb)))
  <1> DEFINE u == acc * 256
             v == Mul(x, limb)
             s == (u % Q) + (v % Q)
  <1>1. u \in Int /\ v \in Int
    BY MulFacts
  <1>2. Limbs(x, acc, limb) = s % Q /\ Limb(acc, Mul(x, limb)) = u + v
    BY DEF Mul, Limb, Limbs
  <1> HIDE DEF u, v
  <1>3. (u % Q) \in Int /\ (v % Q) \in Int /\ Cong(u % Q, u) /\ Cong(v % Q, v)
    BY SMT, <1>1, Remainder
  <1>4. Cong(s, u + v)
    BY SMT, <1>1, <1>3, CongAdd
  <1>5. s \in Int
    BY <1>3
  <1> HIDE DEF s
  <1>6. (s % Q) \in Int /\ Cong(s % Q, s)
    BY SMT, <1>5, Remainder
  <1>7. Cong(s % Q, u + v)
    BY <1>4, <1>6, CongBasics
  <1> QED BY <1>2, <1>6, <1>7

LEMMA MulModIs ==
    ASSUME NEW x \in Int, NEW y \in Int
    PROVE  MulMod(x, y) \in Int /\ Cong(MulMod(x, y), Mul(x, y))
  <1> DEFINE a == y \div 65536
             b == (y \div 256) % 256
             c == y % 256
             p == Mul(x, a)
             p2 == Mul(x, b)
             r == Mul(x, c)
             first == (x * a) % Q
             second == Limbs(x, first, b)
             third == Limbs(x, second, c)
  <1>1. MulMod(x, y) = third
    BY DEF MulMod, Limbs
  <1>2. a \in Int /\ b \in Int /\ c \in Int /\ y = (a * 256 + b) * 256 + c
    BY SMT
  <1> HIDE DEF a, b, c
  <1>3. p \in Int /\ p2 \in Int /\ r \in Int
    BY SMT, <1>2, MulFacts
  <1>4. first = p % Q
    BY DEF Mul
  <1>5. Mul(x, y) = Limb(Limb(p, p2), r)
    <2>1. x * ((a * 256 + b) * 256 + c) = ((x * a) * 256 + x * b) * 256 + x * c
      BY SMT, <1>2
    <2>2. Mul(x, y) = x * ((a * 256 + b) * 256 + c)
      BY SMT, <1>2 DEF Mul
    <2> QED BY SMT, <2>1, <2>2 DEF Limb, Mul
  <1> HIDE DEF p, p2, r, first
  <1>6. first \in Int /\ Cong(first, p)
    BY SMT, <1>3, <1>4, Remainder
  <1>7. second \in Int /\ Cong(second, Limb(first, p2))
    <2>1. b \in Int /\ first \in Int
      BY <1>2, <1>6
    <2>2. Limbs(x, first, b) \in Int /\ Cong(Limbs(x, first, b), Limb(first, Mul(x, b)))
      BY ONLY <2>1, LimbsIs, x \in Int
    <2> QED BY ONLY <2>2 DEF p2
  <1> HIDE DEF second
  <1>8. third \in Int /\ Cong(third, Limb(second, r))
    <2>1. c \in Int /\ second \in Int
      BY <1>2, <1>7
    <2>2. Limbs(x, second, c) \in Int /\ Cong(Limbs(x, second, c), Limb(second, Mul(x, c)))
      BY ONLY <2>1, LimbsIs, x \in Int
    <2> QED BY ONLY <2>2 DEF r
  <1> HIDE DEF third
  <1>9. Cong(Limb(first, p2), Limb(p, p2)) /\ Limb(p, p2) \in Int
    <2>1. Limb(p, p2) \in Int
      BY <1>3, LimbInt
    <2>2. Cong(Limb(first, p2), Limb(p, p2))
      BY <1>3, <1>6, LimbCong
    <2> QED BY <2>1, <2>2
  <1>10. Cong(second, Limb(p, p2))
    BY <1>7, <1>9, CongBasics
  <1>11. Cong(Limb(second, r), Limb(Limb(p, p2), r))
    BY SMT, <1>3, <1>7, <1>9, <1>10, LimbCong
  <1>12. Cong(third, Limb(Limb(p, p2), r))
    BY <1>8, <1>11, CongBasics
  <1> QED BY <1>1, <1>5, <1>8, <1>12

LEMMA CentredIs ==
    ASSUME NEW v \in Int
    PROVE  /\ Centred(v) \in Int /\ Cong(Centred(v), v)
           /\ -4190208 <= Centred(v) /\ Centred(v) <= 4190208
  <1> DEFINE r == v % Q
  <1>1. r \in Int /\ 0 <= r /\ r <= 8380416 /\ Cong(r, v)
    BY SMT, Remainder
  <1>2. Q \div 2 = 4190208
    BY SMT DEF Q
  <1>3. Centred(v) = IF r > Q \div 2 THEN r - Q ELSE r
    BY SMT DEF Centred
  <1> HIDE DEF r
  <1>4. Centred(v) = IF r > 4190208 THEN r - 8380417 ELSE r
    BY SMT, <1>2, <1>3 DEF Q
  <1>5. Cong(r - 8380417, r)
    BY SMT, <1>1, Remainder
  <1>6. Cong(r - 8380417, v)
    BY SMT, <1>1, <1>5, CongBasics
  <1>7. Cong(Centred(v), v)
    BY SMT, <1>1, <1>4, <1>6
  <1> QED BY SMT, <1>1, <1>4, <1>7

LEMMA MulModCong ==
    ASSUME NEW x \in Int, NEW y \in Int
    PROVE  MulMod(x % Q, y % Q) \in Int /\ Cong(MulMod(x % Q, y % Q), Mul(x, y))
  <1> DEFINE u == x % Q
             v == y % Q
  <1>1. u \in Int /\ v \in Int /\ Cong(u, x) /\ Cong(v, y)
    BY SMT, Remainder
  <1> HIDE DEF u, v
  <1>2. MulMod(u, v) \in Int /\ Cong(MulMod(u, v), Mul(u, v))
    BY <1>1, MulModIs
  <1>3. Cong(Mul(u, v), Mul(x, y))
    BY <1>1, CongMul
  <1>4. Cong(MulMod(u, v), Mul(x, y))
    BY <1>2, <1>3, CongBasics
  <1> QED BY <1>2, <1>4 DEF u, v

LEMMA CongOpposite ==
    ASSUME NEW m \in Int, NEW n \in Int, Cong(m, n)
    PROVE  Q - m \in Int /\ Cong(Q - m, -n)
  <1>1. PICK t \in Int : m = n + t * 8380417
    BY SMT, CongIs
  <1> DEFINE x == Q - m
             y == -n
             w == 1 - t
  <1>2. x \in Int /\ y \in Int /\ w \in Int /\ x = y + w * 8380417
    BY SMT, <1>1 DEF Q
  <1> HIDE DEF x, y, w
  <1>3. Cong(x, y)
    BY SMT, <1>2, CongIs
  <1> QED BY SMT, <1>2, <1>3 DEF x, y

(* The sum of which poly_product takes coefficient j.                      *)
ProductTerm(a, b, j) ==
    [i \in Index |->
        IF i <= j THEN MulMod(a[i] % Q, b[j - i] % Q)
        ELSE Q - MulMod(a[i] % Q, b[N + j - i] % Q)]

LEMMA ProductTermIs ==
    ASSUME NEW a \in Poly, NEW b \in Poly, NEW j \in Index
    PROVE  /\ IsInt(ProductTerm(a, b, j), N)
           /\ \A i \in 0 .. N - 1 : Cong(ProductTerm(a, b, j)[i], Term(a, b, j)[i])
  <1>1. ASSUME NEW i \in 0 .. N - 1
        PROVE  /\ ProductTerm(a, b, j)[i] \in Int
               /\ Cong(ProductTerm(a, b, j)[i], Term(a, b, j)[i])
    <2> DEFINE x == a[i]
    <2>1. i \in Index /\ x \in Int
      BY Indices DEF Poly
    <2>2. Term(a, b, j)[i] = Mul(x, Turned(b, i, j))
      BY TermInt
    <2>3. CASE i <= j
      <3> DEFINE y == b[j - i]
      <3>1. y \in Int
        BY <2>3, Indices DEF Poly
      <3>2. ProductTerm(a, b, j)[i] = MulMod(x % Q, y % Q)
        BY <2>1, <2>3 DEF ProductTerm
      <3>3. Turned(b, i, j) = y
        BY <2>3 DEF Turned
      <3> HIDE DEF x, y
      <3>4. MulMod(x % Q, y % Q) \in Int /\ Cong(MulMod(x % Q, y % Q), Mul(x, y))
        BY <2>1, <3>1, MulModCong
      <3> QED BY <2>2, <3>2, <3>3, <3>4
    <2>4. CASE ~(i <= j)
      <3> DEFINE y == b[N + j - i]
                 m == MulMod(x % Q, y % Q)
                 n == Mul(x, y)
      <3>1. y \in Int
        BY <2>4, Indices DEF Poly
      <3>2. ProductTerm(a, b, j)[i] = Q - m
        BY <2>1, <2>4 DEF ProductTerm
      <3>3. Turned(b, i, j) = -y
        BY <2>4 DEF Turned
      <3> HIDE DEF x, y
      <3>4. m \in Int /\ Cong(m, n)
        BY <2>1, <3>1, MulModCong
      <3>5. n \in Int /\ Mul(x, -y) = -n
        BY <2>1, <3>1, MulFacts
      <3> HIDE DEF m, n
      <3>6. Q - m \in Int /\ Cong(Q - m, -n)
        BY <3>4, <3>5, CongOpposite
      <3> QED BY <2>2, <3>2, <3>3, <3>5, <3>6
    <2> QED BY <2>3, <2>4
  <1> QED BY <1>1 DEF IsInt

(* Small(v): what Centred leaves.                                          *)
Small(v) == v \in Int /\ -4190208 <= v /\ v <= 4190208

LEMMA PolyProductIs ==
    ASSUME NEW a \in Poly, NEW b \in Poly
    PROVE  /\ poly_product(a, b) \in Poly
           /\ PolyCong(poly_product(a, b), Prod(a, b))
           /\ \A j \in Index : Small(poly_product(a, b)[j])
  <1>1. ASSUME NEW j \in Index
        PROVE  /\ Cong(poly_product(a, b)[j], Prod(a, b)[j])
               /\ Small(poly_product(a, b)[j])
    <2> DEFINE v == SumOf(ProductTerm(a, b, j), N)
    <2>1. poly_product(a, b)[j] = Centred(v)
      BY DEF poly_product, ProductTerm
    <2>2. v \in Int /\ Cong(v, SumOf(Term(a, b, j), N))
      BY ProductTermIs, TermInt, SumCong, SumInt, Indices
    <2> HIDE DEF v
    <2>3. Centred(v) \in Int /\ Cong(Centred(v), v) /\ Small(Centred(v))
      BY SMT, <2>2, CentredIs DEF Small
    <2>4. Prod(a, b)[j] = SumOf(Term(a, b, j), N)
      BY DEF Prod
    <2> QED BY <2>1, <2>2, <2>3, <2>4, CongBasics
  <1>2. poly_product(a, b) \in Poly
    <2>1. \A j \in Index : poly_product(a, b)[j] \in Int
      BY <1>1 DEF Small
    <2>2. poly_product(a, b) = [j \in Index |-> poly_product(a, b)[j]]
      BY DEF poly_product
    <2> QED BY <2>1, <2>2 DEF Poly
  <1> QED BY <1>1, <1>2 DEF PolyCong

LEMMA AccProductIs ==
    ASSUME NEW a \in Polys(L), NEW v \in Polys(L)
    PROVE  /\ polyvecl_product_acc(a, v) \in Poly
           /\ PolyCong(polyvecl_product_acc(a, v), Acc(a, v, L))
           /\ \A j \in Index : Small(polyvecl_product_acc(a, v)[j])
  <1>0. L \in Nat
    BY ParamsAssumption
  <1>1. ASSUME NEW j \in Index
        PROVE  /\ Cong(polyvecl_product_acc(a, v)[j], Acc(a, v, L)[j])
               /\ Small(polyvecl_product_acc(a, v)[j])
    <2> DEFINE f == [l \in 0 .. L - 1 |-> poly_product(a[l + 1], v[l + 1])[j] % Q]
               g == Entries(a, v, j)
    <2>1. polyvecl_product_acc(a, v)[j] = Centred(SumOf(f, L))
      BY DEF polyvecl_product_acc
    <2>2. ASSUME NEW l \in 0 .. L - 1 PROVE f[l] \in Int /\ Cong(f[l], g[l])
      <3> DEFINE k == l + 1
                 x == poly_product(a[k], v[k])[j]
      <3>1. k \in 1 .. L
        BY <1>0
      <3>2. f[l] = x % Q
        OBVIOUS
      <3>3. g[l] = Prod(a[k], v[k])[j]
        BY AccUnfold
      <3> HIDE DEF k, x, f, g
      <3>4. a[k] \in Poly /\ v[k] \in Poly
        BY <3>1 DEF Polys
      <3>5. x \in Int /\ Cong(x, g[l])
        BY <3>3, <3>4, PolyProductIs DEF PolyCong, Poly, x
      <3>6. (x % Q) \in Int /\ Cong(x % Q, x)
        BY SMT, <3>5, Remainder
      <3> QED BY <3>2, <3>5, <3>6, CongBasics
    <2> HIDE DEF f
    <2>3. IsInt(f, L) /\ IsInt(g, L)
      BY <2>2, AccUnfold DEF IsInt
    <2> HIDE DEF g
    <2> DEFINE s == SumOf(f, L)
    <2>4. s \in Int /\ Cong(s, SumOf(g, L))
      BY <1>0, <2>2, <2>3, SumInt, SumCong
    <2> HIDE DEF s
    <2>5. Centred(s) \in Int /\ Cong(Centred(s), s) /\ Small(Centred(s))
      BY SMT, <2>4, CentredIs DEF Small
    <2>6. Acc(a, v, L)[j] = SumOf(g, L)
      BY DEF Acc, g
    <2> QED BY <2>1, <2>4, <2>5, <2>6, CongBasics DEF s
  <1>2. polyvecl_product_acc(a, v) \in Poly
    <2>1. \A j \in Index : polyvecl_product_acc(a, v)[j] \in Int
      BY <1>1 DEF Small
    <2>2. polyvecl_product_acc(a, v) = [j \in Index |-> polyvecl_product_acc(a, v)[j]]
      BY DEF polyvecl_product_acc
    <2> QED BY <2>1, <2>2 DEF Poly
  <1> QED BY <1>1, <1>2 DEF PolyCong

LEMMA ReduceIs ==
    ASSUME NEW v \in Int, -2143289343 <= v, v <= 2143289343
    PROVE  /\ reduce32(v) \in Int /\ Cong(reduce32(v), v)
           /\ -6283008 <= reduce32(v) /\ reduce32(v) <= 6283008
  <1>1. PICK t \in Int : reduce32(v) = v - t * Q
    BY SMT, ReduceRange
  <1> DEFINE x == reduce32(v)
             w == -t
  <1>2. -6283008 <= x /\ x <= 6283008
    BY SMT, ReduceRange
  <1>3. x \in Int /\ w \in Int /\ x = v + w * 8380417
    BY SMT, <1>1 DEF Q
  <1> HIDE DEF x, w
  <1>4. Cong(x, v)
    BY SMT, <1>3, CongIs
  <1> QED BY SMT, <1>2, <1>3, <1>4 DEF x

LEMMA CaddqIs ==
    ASSUME NEW v \in Int, -8380417 <= v, v <= 8380416
    PROVE  /\ caddq(v) \in Int /\ Cong(caddq(v), v)
           /\ 0 <= caddq(v) /\ caddq(v) <= 8380416
  <1>1. caddq(v) = IF v < 0 THEN v + 8380417 ELSE v
    BY SMT DEF caddq, Q
  <1>2. Cong(v + 8380417, v) /\ Cong(v, v)
    BY SMT, Remainder, CongBasics
  <1>3. Cong(caddq(v), v)
    BY SMT, <1>1, <1>2
  <1> QED BY SMT, <1>1, <1>3

-----------------------------------------------------------------------------
(* What the verifier computes, A z - c t1 2^13, is A y - c s2 + c t0.      *)

LEMMA PolyAddIs ==
    ASSUME NEW a \in Poly, NEW b \in Poly
    PROVE  poly_add(a, b) \in Poly /\ \A j \in Index : poly_add(a, b)[j] = a[j] + b[j]
  BY DEF poly_add, Poly

LEMMA Residue ==
    ASSUME NEW a \in Polys(L), NEW s1 \in Polys(L), NEW y \in Polys(L), NEW z \in Polys(L),
           NEW c \in Poly, NEW s2 \in Poly, NEW t \in Poly, NEW t0 \in Poly, NEW t1 \in Poly,
           \A l \in 1 .. L : PolyCong(z[l], poly_add(Prod(c, s1[l]), y[l])),
           PolyCong(t, poly_add(Acc(a, s1, L), s2)),
           t = poly_add(t1, t0),
           NEW j \in Index
    PROVE  Cong(Acc(a, z, L)[j] - Prod(c, t1)[j],
                Acc(a, y, L)[j] - Prod(c, s2)[j] + Prod(c, t0)[j])
  <1>0. L \in Nat /\ L \in 0 .. L
    BY ParamsAssumption
  <1> DEFINE cs == [l \in 1 .. L |-> Prod(c, s1[l])]
             zz == [l \in 1 .. L |-> poly_add(cs[l], y[l])]
  <1>1. cs \in Polys(L) /\ \A l \in 1 .. L : cs[l] = Prod(c, s1[l])
    BY ProdPoly DEF Polys
  <1>2. zz \in Polys(L) /\ \A l \in 1 .. L : zz[l] = poly_add(cs[l], y[l])
    <2> HIDE DEF cs
    <2> QED BY <1>1, PolyAddIs DEF Polys
  <1>3. \A l \in 1 .. L : PolyCong(z[l], zz[l])
    BY <1>1, <1>2
  <1> HIDE DEF cs, zz
  <1> DEFINE x == Acc(a, s1, L)
  <1>4. x \in Poly /\ Acc(a, y, L) \in Poly /\ Acc(a, z, L) \in Poly
    BY <1>0, AccUnfold
  <1>5. Acc(a, cs, L) = Prod(c, x)
    BY <1>1, AccSwap
  <1>6. Acc(a, zz, L) = poly_add(Prod(c, x), Acc(a, y, L))
    BY <1>1, <1>2, <1>5, AccAdd
  <1>7. PolyCong(Acc(a, z, L), poly_add(Prod(c, x), Acc(a, y, L)))
    BY <1>2, <1>3, <1>6, AccCong
  <1> HIDE DEF x
  <1>8. PolyCong(t, poly_add(x, s2)) /\ poly_add(x, s2) \in Poly
    BY <1>4, PolyAddIs DEF x
  <1>9. PolyCong(Prod(c, t), poly_add(Prod(c, x), Prod(c, s2)))
    BY <1>4, <1>8, ProdCong, ProdAdd
  <1>10. Prod(c, t) = poly_add(Prod(c, t1), Prod(c, t0))
    BY ProdAdd
  <1>11. /\ Prod(c, x) \in Poly /\ Prod(c, s2) \in Poly
         /\ Prod(c, t1) \in Poly /\ Prod(c, t0) \in Poly
    BY <1>4, ProdPoly
  <1> DEFINE Z == Acc(a, z, L)[j]
             Y == Acc(a, y, L)[j]
             C == Prod(c, x)[j]
             S == Prod(c, s2)[j]
             U == Prod(c, t1)[j]
             V == Prod(c, t0)[j]
  <1>12. Z \in Int /\ Y \in Int /\ C \in Int /\ S \in Int /\ U \in Int /\ V \in Int
    BY <1>4, <1>11 DEF Poly
  <1>13. Cong(Z, C + Y)
    BY <1>4, <1>7, <1>11, PolyAddIs DEF PolyCong
  <1>14. Cong(U + V, C + S)
    BY <1>9, <1>10, <1>11, PolyAddIs DEF PolyCong
  <1> HIDE DEF Z, Y, C, S, U, V
  <1>15. PICK k \in Int : Z = (C + Y) + k * 8380417
    <2> DEFINE e == C + Y
    <2>1. e \in Int /\ Cong(Z, e)
      BY <1>12, <1>13
    <2> HIDE DEF e
    <2>2. \E k \in Int : Z = e + k * 8380417
      BY SMT, <1>12, <2>1, CongIs
    <2> QED BY SMT, <2>2 DEF e
  <1>16. PICK m \in Int : U + V = (C + S) + m * 8380417
    <2> DEFINE e == C + S
               f == U + V
    <2>1. e \in Int /\ f \in Int /\ Cong(f, e)
      BY SMT, <1>12, <1>14
    <2> HIDE DEF e, f
    <2>2. \E m \in Int : f = e + m * 8380417
      BY SMT, <2>1, CongIs
    <2> QED BY SMT, <2>2 DEF e, f
  <1> DEFINE p == Z - U
             p2 == Y - S + V
             w == k - m
  <1>17. p \in Int /\ p2 \in Int /\ w \in Int /\ p = p2 + w * 8380417
    BY SMT, <1>12, <1>15, <1>16
  <1> HIDE DEF p, p2, w
  <1>18. Cong(p, p2)
    BY SMT, <1>17, CongIs
  <1> QED BY SMT, <1>18 DEF p, p2, Z, Y, S, U, V

(* One coefficient: the verifier restores the signer's high bits.          *)
LEMMA HighBits ==
    ASSUME NEW y \in Int, NEW s \in Int, NEW t \in Int,
           NEW wy \in Int, 0 <= wy, wy <= 8380416, Cong(wy, y),
           NEW w0 \in Int, Cong(w0, decompose(wy).lo - s), -261888 < w0, w0 < 261888,
           NEW ct0 \in Int, Cong(ct0, t), -261888 < ct0, ct0 < 261888,
           NEW w \in Int, 0 <= w, w <= 8380416, Cong(w, y - s + t)
    PROVE  use_hint(w, make_hint(w0 + ct0, decompose(wy).hi)) = decompose(wy).hi
  <1> DEFINE hi == decompose(wy).hi
             lo == decompose(wy).lo
             u == w0 + ct0
  <1>0. GAMMA2 = 261888
    BY SMT DEF GAMMA2, Q
  <1>1. /\ hi \in 0 .. 15 /\ lo \in Int
        /\ wy = hi * 523776 + lo \/ wy = hi * 523776 + lo + 8380417
    <2>1. wy < Q
      BY SMT DEF Q
    <2>2. /\ hi \in 0 .. 15
          /\ \/ /\ wy = hi * 2 * GAMMA2 + lo
                /\ -GAMMA2 < lo /\ lo <= GAMMA2
             \/ /\ hi = 0 /\ wy = lo + Q
                /\ -GAMMA2 <= lo /\ lo < 0
      BY SMT, <2>1, DecomposeExact
    <2>3. lo \in Int
      <3>1. /\ (Nearest(wy) % 16) * 2 * GAMMA2 \in Int
            /\ lo = LET l == wy - (Nearest(wy) % 16) * 2 * GAMMA2
                    IN  IF l > (Q - 1) \div 2 THEN l - Q ELSE l
        BY SMT DEF decompose, Nearest, GAMMA2, Q
      <3> QED BY SMT, <3>1 DEF Q
    <2> HIDE DEF hi, lo
    <2> QED BY SMT, <2>2, <2>3, <1>0 DEF Q
  <1> HIDE DEF hi, lo
  <1>2. Cong(w0, lo - s)
    BY SMT DEF lo
  <1>3. PICK k1 \in Int : wy = y + k1 * 8380417
    BY SMT, CongIs
  <1>4. PICK k2 \in Int : w0 = (lo - s) + k2 * 8380417
    <2> DEFINE e == lo - s
    <2>1. e \in Int /\ Cong(w0, e)
      BY SMT, <1>1, <1>2
    <2> HIDE DEF e
    <2>2. \E k \in Int : w0 = e + k * 8380417
      BY SMT, <2>1, CongIs
    <2> QED BY SMT, <2>2 DEF e
  <1>5. PICK k3 \in Int : ct0 = t + k3 * 8380417
    BY SMT, CongIs
  <1>6. PICK k4 \in Int : w = (y - s + t) + k4 * 8380417
    <2> DEFINE e == y - s + t
    <2>1. e \in Int /\ Cong(w, e)
      BY SMT
    <2> HIDE DEF e
    <2>2. \E k \in Int : w = e + k * 8380417
      BY SMT, <2>1, CongIs
    <2> QED BY SMT, <2>2 DEF e
  <1>7. u \in Int /\ -523776 < u /\ u < 523776
    BY SMT
  <1>8. PICK k \in Int : w = hi * 523776 + u + k * 8380417
    <2>1. \/ w = hi * 523776 + u + (k4 - k3 - k2 - k1) * 8380417
          \/ w = hi * 523776 + u + (k4 - k3 - k2 - k1 + 1) * 8380417
      BY SMT, <1>1, <1>3, <1>4, <1>5, <1>6
    <2> DEFINE k == k4 - k3 - k2 - k1
               m == k + 1
    <2>2. k \in Int /\ m \in Int /\ (w = hi * 523776 + u + k * 8380417
                                    \/ w = hi * 523776 + u + m * 8380417)
      BY SMT, <2>1
    <2> HIDE DEF k, m, u
    <2> QED BY SMT, <2>2
  <1> HIDE DEF u
  <1>9. k \in -1 .. 1
    BY SMT, <1>1, <1>7, <1>8
  <1>10. hi * 523776 = hi * 2 * GAMMA2
    BY SMT, <1>0, <1>1
  <1>11. -2 * GAMMA2 < u /\ u < 2 * GAMMA2 /\ w < Q
    BY SMT, <1>0, <1>7 DEF Q
  <1>12. \E n \in -1 .. 1 : w = hi * 2 * GAMMA2 + u + n * Q
    BY SMT, <1>8, <1>9, <1>10 DEF Q
  <1>13. use_hint(w, make_hint(u, hi)) = hi
    BY SMT, <1>1, <1>7, <1>11, <1>12, HintRecovers
  <1> QED BY SMT, <1>13 DEF hi, u

-----------------------------------------------------------------------------
(* The steps of the program on one coefficient.                            *)

Standard(v) == v \in Int /\ 0 <= v /\ v <= 8380416
Tiny(v)     == v \in Int /\ -4 <= v /\ v <= 4
Masked(v)   == v \in Int /\ -524288 <= v /\ v <= 524288
Short(v)    == v \in Int /\ -261888 < v /\ v < 261888

LEMMA CommitmentCoefficient ==
    \A v : Small(v) => Standard(caddq(v)) /\ Cong(caddq(v), v)
  BY SMT, CaddqIs DEF Small, Standard

LEMMA KeyCoefficient ==
    ASSUME NEW v, NEW e, Small(v), Tiny(e)
    PROVE  Standard(caddq(v + e)) /\ Cong(caddq(v + e), v + e)
  <1> DEFINE w == v + e
  <1>1. w \in Int /\ -8380417 <= w /\ w <= 8380416
    BY SMT DEF Small, Tiny
  <1> HIDE DEF w
  <1>2. Standard(caddq(w)) /\ Cong(caddq(w), w)
    BY SMT, <1>1, CaddqIs DEF Standard
  <1> QED BY SMT, <1>2 DEF w

LEMMA KeyHalves ==
    ASSUME NEW t, Standard(t)
    PROVE  /\ power2round(t).hi \in Int /\ power2round(t).lo \in Int
           /\ t = power2round(t).hi * 8192 + power2round(t).lo
  <1>1. t \in Int /\ 0 <= t /\ t < Q
    BY SMT DEF Standard, Q
  <1>2. /\ t = power2round(t).hi * 8192 + power2round(t).lo
        /\ power2round(t).hi \in Int
    BY SMT, <1>1, Power2RoundExact
  <1>3. power2round(t).lo \in Int
    BY SMT, <1>1 DEF power2round
  <1> QED BY SMT, <1>1, <1>2, <1>3

LEMMA MaskedCoefficient ==
    ASSUME NEW v, NEW e, Small(v), Masked(e)
    PROVE  reduce32(v + e) \in Int /\ Cong(reduce32(v + e), v + e)
  <1> DEFINE w == v + e
  <1>1. w \in Int /\ -2143289343 <= w /\ w <= 2143289343
    BY SMT DEF Small, Masked
  <1> HIDE DEF w
  <1>2. reduce32(w) \in Int /\ Cong(reduce32(w), w)
    BY SMT, <1>1, ReduceIs
  <1> QED BY SMT, <1>2 DEF w

LEMMA LowBits ==
    ASSUME NEW w, Standard(w)
    PROVE  Small(decompose(w).lo)
  <1> DEFINE lo == decompose(w).lo
             l == w - (Nearest(w) % 16) * 2 * GAMMA2
  <1>0. GAMMA2 = 261888
    BY SMT DEF GAMMA2, Q
  <1>1. w \in Int /\ 0 <= w /\ w < Q
    BY SMT DEF Standard, Q
  <1>2. lo = IF l > (Q - 1) \div 2 THEN l - Q ELSE l
    BY SMT DEF decompose
  <1>3. l \in Int
    BY SMT, <1>1 DEF Nearest, GAMMA2, Q
  <1> HIDE DEF l
  <1>4. lo \in Int
    BY SMT, <1>2, <1>3 DEF Q
  <1>5. -261888 <= lo /\ lo <= 261888
    <2>1. (-GAMMA2 < lo /\ lo <= GAMMA2) \/ (-GAMMA2 <= lo /\ lo < 0)
      BY SMT, <1>1, DecomposeExact
    <2> HIDE DEF lo
    <2> QED BY SMT, <2>1, <1>0, <1>4
  <1> QED BY SMT, <1>4, <1>5 DEF Small

LEMMA LowCoefficient ==
    ASSUME NEW u, NEW v, Small(u), Small(v)
    PROVE  /\ reduce32(u - v) \in Int /\ Cong(reduce32(u - v), u - v)
           /\ Standard(caddq(reduce32(u - v))) /\ Cong(caddq(reduce32(u - v)), u - v)
  <1> DEFINE w == u - v
             x == reduce32(w)
  <1>1. w \in Int /\ -2143289343 <= w /\ w <= 2143289343
    BY SMT DEF Small
  <1> HIDE DEF w
  <1>2. x \in Int /\ Cong(x, w) /\ -6283008 <= x /\ x <= 6283008
    BY SMT, <1>1, ReduceIs
  <1> HIDE DEF x
  <1>3. Standard(caddq(x)) /\ Cong(caddq(x), x)
    BY SMT, <1>2, CaddqIs DEF Standard
  <1>4. Cong(caddq(x), w)
    BY <1>2, <1>3, CongBasics
  <1>5. x \in Int /\ Cong(x, w) /\ Standard(caddq(x)) /\ Cong(caddq(x), w)
    BY <1>2, <1>3, <1>4
  <1> QED BY <1>5 DEF x, w

LEMMA ReducedCoefficient ==
    \A v : Small(v) => reduce32(v) \in Int /\ Cong(reduce32(v), v)
  BY SMT, ReduceIs DEF Small

LEMMA RestoredCoefficient ==
    ASSUME NEW y \in Int, NEW s \in Int, NEW t \in Int,
           NEW wy, Standard(wy), Cong(wy, y),
           NEW w0, Short(w0), Cong(w0, decompose(wy).lo - s),
           NEW ct0, Short(ct0), Cong(ct0, t),
           NEW w, Standard(w), Cong(w, y - s + t)
    PROVE  use_hint(w, make_hint(w0 + ct0, decompose(wy).hi)) = decompose(wy).hi
  BY SMT, HighBits DEF Standard, Short

LEMMA ShortIs ==
    /\ GAMMA2 - BETA \in Int /\ GAMMA2 \in Int
    /\ \A v \in Int : -(GAMMA2 - BETA) < v /\ v < GAMMA2 - BETA => Short(v)
    /\ \A v \in Int : -GAMMA2 < v /\ v < GAMMA2 => Short(v)
  BY SMT DEF Short, GAMMA2, BETA, Q

LEMMA NormIs ==
    ASSUME NEW n \in Nat, NEW v \in Polys(n), NEW B \in Int, ~polyvec_chknorm(v, B),
           NEW i \in 1 .. n, NEW j \in Index
    PROVE  v[i][j] \in Int /\ -B < v[i][j] /\ v[i][j] < B
  <1> DEFINE x == v[i][j]
  <1>1. x \in Int /\ DOMAIN v = 1 .. n
    BY DEF Polys, Poly
  <1>2. ~poly_chknorm(v[i], B)
    BY <1>1 DEF polyvec_chknorm
  <1>3. ~((IF x < 0 THEN -x ELSE x) >= B)
    BY <1>2 DEF poly_chknorm
  <1> QED BY <1>1, <1>3

-----------------------------------------------------------------------------
(* As many ones as positions.                                              *)

Hint == [1 .. K -> [Index -> {0, 1}]]

LEMMA OnesCounted ==
    ASSUME NEW p \in [Index -> {0, 1}]
    PROVE  IsInt(p, N) /\ SumOf(p, N) = Len(Ones(p, N))
  <1> DEFINE T == {n \in Nat : n <= N => SumOf(p, n) = Len(Ones(p, n))}
  <1>0. N \in Nat /\ \A i \in 0 .. N - 1 : p[i] \in {0, 1}
    BY Indices
  <1>1. IsInt(p, N)
    BY <1>0 DEF IsInt
  <1>2. Adds(p, N)
    BY <1>0, <1>1, SumUnfold
  <1>3. 0 \in T
    <2>1. Len(Ones(p, 0)) = 0
      BY OnesUnfold
    <2> QED BY <1>2, <2>1 DEF Adds
  <1>4. ASSUME NEW n \in Nat, n \in T PROVE n + 1 \in T
    <2>1. CASE n + 1 <= N
      <3> DEFINE o == Ones(p, n)
                 m == n + 1
      <3>1. n \in 0 .. N - 1 /\ n <= N
        BY <2>1, <1>0
      <3>2. o \in Seq(Nat) /\ Ones(p, m) = IF p[n] # 0 THEN Append(o, n) ELSE o
        BY OnesUnfold
      <3>3. SumOf(p, m) = SumOf(p, n) + p[n] /\ SumOf(p, n) = Len(o)
        BY <3>1, <1>2, <1>4 DEF Adds
      <3>4. Len(Append(o, n)) = Len(o) + 1 /\ Len(o) \in Nat
        BY <3>2
      <3> HIDE DEF o, m
      <3>5. p[n] = 0 \/ p[n] = 1
        BY <3>1, <1>0
      <3>6. SumOf(p, m) = Len(Ones(p, m))
        BY <3>2, <3>3, <3>4, <3>5
      <3> QED BY <3>6 DEF m
    <2> QED BY <2>1
  <1> HIDE DEF T
  <1>5. N \in T
    BY <1>0, <1>3, <1>4, SetInduction
  <1> QED BY <1>0, <1>1, <1>5 DEF T

LEMMA OnesInSize ==
    ASSUME NEW h \in Hint
    PROVE  OnesIn(h) = Size(h, K)
  <1> DEFINE f == [i \in 0 .. K - 1 |-> SumOf([j \in Index |-> h[i + 1][j]], N)]
             T == {n \in Nat : n <= K => SumOf(f, n) = Size(h, n)}
  <1>0. K \in Nat
    BY IndexNat
  <1>1. ASSUME NEW i \in 0 .. K - 1
        PROVE  f[i] = Len(Ones(h[i + 1], N)) /\ f[i] \in Int
    <2> DEFINE p == h[i + 1]
    <2>1. i + 1 \in 1 .. K
      BY <1>0
    <2>2. p \in [Index -> {0, 1}]
      BY <2>1 DEF Hint
    <2>3. f[i] = SumOf([j \in Index |-> p[j]], N)
      OBVIOUS
    <2> HIDE DEF p, f
    <2>4. [j \in Index |-> p[j]] = p
      BY <2>2
    <2>5. f[i] = Len(Ones(p, N)) /\ f[i] \in Int
      BY <2>2, <2>3, <2>4, OnesCounted, SumInt, Indices
    <2> QED BY <2>5 DEF p
  <1>2. OnesIn(h) = SumOf(f, K)
    BY DEF OnesIn
  <1> HIDE DEF f
  <1>3. Adds(f, K)
    <2>1. IsInt(f, K)
      BY <1>1 DEF IsInt
    <2> QED BY <1>0, <2>1, SumUnfold
  <1>4. 0 \in T
    BY <1>3, PositionsUnfold DEF Adds, Size
  <1>5. ASSUME NEW n \in Nat, n \in T PROVE n + 1 \in T
    <2>1. CASE n + 1 <= K
      <3>1. n \in 0 .. K - 1 /\ n <= K
        BY <2>1, <1>0
      <3>2. SumOf(f, n + 1) = SumOf(f, n) + f[n] /\ SumOf(f, n) = Size(h, n)
        BY <3>1, <1>3, <1>5 DEF Adds
      <3>3. Size(h, n + 1) = Size(h, n) + Len(Ones(h[n + 1], N))
        BY PositionsGrow
      <3>4. SumOf(f, n + 1) = Size(h, n + 1)
        BY <3>1, <3>2, <3>3, <1>1
      <3> QED BY <3>4
    <2> QED BY <2>1
  <1> HIDE DEF T
  <1>6. K \in T
    BY <1>0, <1>4, <1>5, SetInduction
  <1> QED BY <1>0, <1>2, <1>6 DEF T

-----------------------------------------------------------------------------
(* A key pair, a mask and a challenge as the program draws them.           *)

Inputs(rho, s1, s2, y, c) ==
    /\ Matrix[rho] \in [1 .. K -> Polys(L)]
    /\ s1 \in Polys(L) /\ s2 \in Polys(K) /\ y \in Polys(L) /\ c \in Poly
    /\ \A i \in 1 .. K, j \in Index : Tiny(s2[i][j])
    /\ \A l \in 1 .. L, j \in Index : Masked(y[l][j])

Sk(rho, s1, s2) == crypto_sign_keypair(rho, s1, s2).sk
Pk(rho, s1, s2) == crypto_sign_keypair(rho, s1, s2).pk

LEMMA RowProduct ==
    ASSUME NEW rho, Matrix[rho] \in [1 .. K -> Polys(L)], NEW v \in Polys(L), NEW i \in 1 .. K
    PROVE  LET p == polyvec_matrix_product(Matrix[rho], v)
           IN  /\ DOMAIN p = 1 .. K
               /\ p[i] \in Poly /\ PolyCong(p[i], Acc(Matrix[rho][i], v, L))
               /\ \A j \in Index : Small(p[i][j])
  <1> DEFINE p == polyvec_matrix_product(Matrix[rho], v)
             a == Matrix[rho][i]
  <1>1. a \in Polys(L)
    OBVIOUS
  <1>2. DOMAIN p = 1 .. K /\ p[i] = polyvecl_product_acc(a, v)
    BY DEF polyvec_matrix_product
  <1> HIDE DEF p, a
  <1>3. /\ p[i] \in Poly /\ PolyCong(p[i], Acc(a, v, L))
        /\ \A j \in Index : Small(p[i][j])
    BY <1>1, <1>2, AccProductIs
  <1> QED BY <1>2, <1>3 DEF p, a

LEMMA KeyIs ==
    ASSUME NEW rho, NEW s1, NEW s2, NEW y, NEW c, Inputs(rho, s1, s2, y, c), NEW i \in 1 .. K
    PROVE  \E t \in Poly :
             /\ PolyCong(t, poly_add(Acc(Matrix[rho][i], s1, L), s2[i]))
             /\ poly_shiftl(Pk(rho, s1, s2).t1[i]) \in Poly
             /\ Sk(rho, s1, s2).t0[i] \in Poly
             /\ t = poly_add(poly_shiftl(Pk(rho, s1, s2).t1[i]), Sk(rho, s1, s2).t0[i])
  <1> DEFINE p == polyvec_matrix_product(Matrix[rho], s1)
             T == polyvec_caddq(polyvec_add(p, s2))
             t == T[i]
             x == Acc(Matrix[rho][i], s1, L)
             t1 == Pk(rho, s1, s2).t1[i]
             t0 == Sk(rho, s1, s2).t0[i]
  <1>1. /\ DOMAIN p = 1 .. K /\ p[i] \in Poly /\ PolyCong(p[i], x)
        /\ \A j \in Index : Small(p[i][j])
    BY RowProduct DEF Inputs
  <1>2. t1 = poly_power2round(t).hi /\ t0 = poly_power2round(t).lo
    BY DEF Pk, Sk, crypto_sign_keypair, polyveck_power2round
  <1> HIDE DEF p, t1, t0
  <1>3. t = [j \in Index |-> caddq(p[i][j] + s2[i][j])]
    BY <1>1 DEF polyvec_caddq, polyvec_add, poly_caddq, poly_add
  <1> HIDE DEF T
  <1>4. s2[i] \in Poly /\ x \in Poly /\ \A j \in Index : Tiny(s2[i][j])
    <2>1. Matrix[rho][i] \in Polys(L) /\ s1 \in Polys(L) /\ L \in 0 .. L
      BY ParamsAssumption DEF Inputs
    <2> QED BY <2>1, AccUnfold DEF Inputs, Polys
  <1> HIDE DEF x
  <1> DEFINE g == poly_add(x, s2[i])
             sh == poly_shiftl(t1)
  <1>5. g \in Poly /\ \A j \in Index : g[j] = x[j] + s2[i][j]
    BY <1>4, PolyAddIs
  <1>6. ASSUME NEW j \in Index
        PROVE  /\ Standard(t[j]) /\ Cong(t[j], g[j])
               /\ sh[j] \in Int /\ t0[j] \in Int /\ t[j] = sh[j] + t0[j]
    <2> DEFINE v == p[i][j]
               e == s2[i][j]
               u == t[j]
    <2>1. Small(v) /\ Tiny(e) /\ u = caddq(v + e) /\ g[j] = x[j] + e
          /\ Cong(v, x[j]) /\ x[j] \in Int
      BY <1>1, <1>3, <1>4, <1>5 DEF PolyCong, Poly
    <2>2. sh[j] = power2round(u).hi * 8192 /\ t0[j] = power2round(u).lo
      BY SMT, <1>2 DEF poly_power2round, poly_shiftl
    <2> HIDE DEF v, e, u, sh, t, g
    <2>3. Standard(u) /\ Cong(u, v + e) /\ v \in Int /\ e \in Int
      <3>1. Standard(caddq(v + e)) /\ Cong(caddq(v + e), v + e)
        BY <2>1, KeyCoefficient
      <3>2. v \in Int /\ e \in Int
        BY SMT, <2>1 DEF Small, Tiny
      <3> QED BY <2>1, <3>1, <3>2
    <2>4. Cong(v + e, x[j] + e)
      <3>1. Cong(e, e)
        BY CongBasics
      <3> QED BY <2>1, <2>3, <3>1, CongAdd
    <2>5. Cong(u, g[j])
      BY <2>1, <2>3, <2>4, CongBasics
    <2>6. /\ power2round(u).hi \in Int /\ power2round(u).lo \in Int
          /\ u = power2round(u).hi * 8192 + power2round(u).lo
      BY SMT, <2>3, KeyHalves
    <2>7. sh[j] \in Int /\ t0[j] \in Int /\ u = sh[j] + t0[j]
      BY SMT, <2>2, <2>6
    <2> QED BY <2>3, <2>5, <2>7 DEF u
  <1>7. t = [j \in Index |-> t[j]] /\ sh = [j \in Index |-> sh[j]]
    BY <1>3 DEF poly_shiftl
  <1>8. t0 = [j \in Index |-> t0[j]]
    BY <1>2 DEF poly_power2round
  <1> HIDE DEF t, sh, g
  <1>9. t \in Poly /\ sh \in Poly /\ t0 \in Poly
    <2>1. \A j \in Index : t[j] \in Int /\ sh[j] \in Int /\ t0[j] \in Int
      BY SMT, <1>6 DEF Standard
    <2> QED BY <2>1, <1>7, <1>8 DEF Poly
  <1>10. PolyCong(t, g)
    BY <1>6 DEF PolyCong
  <1>11. t = poly_add(sh, t0)
    BY <1>6, <1>7 DEF poly_add
  <1> QED BY <1>9, <1>10, <1>11 DEF g, x, sh, t1, t0

LEMMA CommitmentIs ==
    ASSUME NEW rho, NEW s1, NEW s2, NEW y, NEW c, Inputs(rho, s1, s2, y, c),
           NEW i \in 1 .. K, NEW j \in Index
    PROVE  LET d == Commitment(Sk(rho, s1, s2), y)
           IN  \E w : /\ Standard(w) /\ Cong(w, Acc(Matrix[rho][i], y, L)[j])
                      /\ d.hi[i][j] = decompose(w).hi /\ d.lo[i][j] = decompose(w).lo
  <1> DEFINE p == polyvec_matrix_product(Matrix[rho], y)
             d == Commitment(Sk(rho, s1, s2), y)
             w == caddq(p[i][j])
             x == Acc(Matrix[rho][i], y, L)
  <1>1. /\ DOMAIN p = 1 .. K /\ PolyCong(p[i], x) /\ Small(p[i][j])
    BY RowProduct DEF Inputs
  <1>2. Sk(rho, s1, s2).rho = rho
    BY DEF Sk, crypto_sign_keypair
  <1>3. d = polyveck_decompose(polyvec_caddq(p))
    BY <1>2 DEF Commitment
  <1> HIDE DEF p, d
  <1>4. polyvec_caddq(p)[i][j] = w
    BY <1>1 DEF polyvec_caddq, poly_caddq
  <1>5. d.hi[i][j] = decompose(w).hi /\ d.lo[i][j] = decompose(w).lo
    BY <1>3, <1>4 DEF polyveck_decompose, poly_decompose
  <1> DEFINE v == p[i][j]
  <1>6. Small(v) /\ Cong(v, x[j])
    BY <1>1 DEF PolyCong
  <1> HIDE DEF v, x
  <1>7. Standard(caddq(v)) /\ Cong(caddq(v), v)
    BY <1>6, CommitmentCoefficient
  <1>8. Standard(w) /\ Cong(w, x[j])
    BY <1>6, <1>7, CongBasics DEF v
  <1> HIDE DEF w
  <1> QED BY <1>5, <1>8 DEF x, d

(* The response z, and what the checks of one pass leave of the rest.      *)
LEMMA ResponseIs ==
    ASSUME NEW rho, NEW s1, NEW s2, NEW y, NEW c, NEW mu, Inputs(rho, s1, s2, y, c)
    PROVE  LET z == Attempt(Sk(rho, s1, s2), mu, y, c).sig.z
           IN  /\ z \in Polys(L)
               /\ \A l \in 1 .. L : PolyCong(z[l], poly_add(Prod(c, s1[l]), y[l]))
  <1> DEFINE z == Attempt(Sk(rho, s1, s2), mu, y, c).sig.z
             p2 == polyvec_poly_product(c, s1)
  <1>1. Sk(rho, s1, s2).s1 = s1
    BY DEF Sk, crypto_sign_keypair
  <1>2. z = polyvec_reduce(polyvec_add(p2, y))
    BY <1>1 DEF Attempt
  <1>3. DOMAIN p2 = 1 .. L /\ \A l \in 1 .. L : p2[l] = poly_product(c, s1[l])
    BY DEF polyvec_poly_product, Inputs, Polys
  <1> HIDE DEF p2, z
  <1>4. /\ z = [l \in 1 .. L |-> z[l]]
        /\ \A l \in 1 .. L : z[l] = [j \in Index |-> reduce32(p2[l][j] + y[l][j])]
    BY <1>2, <1>3 DEF polyvec_reduce, polyvec_add, poly_reduce, poly_add
  <1>5. ASSUME NEW l \in 1 .. L
        PROVE  z[l] \in Poly /\ PolyCong(z[l], poly_add(Prod(c, s1[l]), y[l]))
    <2> DEFINE x == Prod(c, s1[l])
               g == poly_add(x, y[l])
    <2>1. s1[l] \in Poly /\ y[l] \in Poly /\ c \in Poly
      BY DEF Inputs, Polys
    <2>2. x \in Poly /\ PolyCong(p2[l], x) /\ \A j \in Index : Small(p2[l][j])
      BY <1>3, <2>1, ProdPoly, PolyProductIs
    <2> HIDE DEF x
    <2>3. \A j \in Index : g[j] = x[j] + y[l][j]
      BY <2>1, <2>2, PolyAddIs
    <2> HIDE DEF g
    <2>4. ASSUME NEW j \in Index PROVE z[l][j] \in Int /\ Cong(z[l][j], g[j])
      <3> DEFINE v == p2[l][j]
                 e == y[l][j]
      <3>1. /\ Small(v) /\ Masked(e) /\ Cong(v, x[j]) /\ x[j] \in Int
            /\ z[l][j] = reduce32(v + e) /\ g[j] = x[j] + e
        BY <1>4, <2>2, <2>3 DEF Inputs, PolyCong, Poly
      <3> HIDE DEF v, e
      <3>2. v \in Int /\ e \in Int
        BY SMT, <3>1 DEF Small, Masked
      <3>3. reduce32(v + e) \in Int /\ Cong(reduce32(v + e), v + e)
        BY <3>1, MaskedCoefficient
      <3>4. Cong(v + e, x[j] + e)
        <4>1. Cong(e, e)
          BY CongBasics
        <4> QED BY <3>1, <3>2, <4>1, CongAdd
      <3> QED BY <3>1, <3>3, <3>4, CongBasics
    <2>5. z[l] \in Poly
      BY <1>4, <2>4 DEF Poly
    <2> QED BY <2>4, <2>5 DEF PolyCong, g, x
  <1> QED BY <1>4, <1>5 DEF Polys, z

W0(sk, y, c) ==
    polyvec_reduce(polyvec_sub(Commitment(sk, y).lo, polyvec_poly_product(c, sk.s2)))
CT0(sk, c) == polyvec_reduce(polyvec_poly_product(c, sk.t0))

HintOf(sk, y, c) ==
    polyveck_make_hint(polyvec_add(W0(sk, y, c), CT0(sk, c)), Commitment(sk, y).hi)

LEMMA AttemptIs ==
    ASSUME NEW sk, NEW mu, NEW y, NEW c, Attempt(sk, mu, y, c).verdict = "signed"
    PROVE  LET a == Attempt(sk, mu, y, c)
           IN  /\ ~polyvec_chknorm(a.sig.z, GAMMA1 - BETA)
               /\ ~polyvec_chknorm(W0(sk, y, c), GAMMA2 - BETA)
               /\ ~polyvec_chknorm(CT0(sk, c), GAMMA2)
               /\ ~(OnesIn(HintOf(sk, y, c)) > OMEGA)
               /\ a.sig.hint = pack_hint(HintOf(sk, y, c))
               /\ a.sig.c = <<mu, Commitment(sk, y).hi>>
  BY SMT DEF Attempt, W0, CT0, HintOf, ChallengeSeed

(* The low parts of coefficient j of polynomial i.                         *)
LEMMA LowPartsAre ==
    ASSUME NEW rho, NEW s1, NEW s2, NEW y, NEW c, Inputs(rho, s1, s2, y, c),
           NEW i \in 1 .. K
    PROVE  LET sk == Sk(rho, s1, s2)
           IN  /\ W0(sk, y, c) \in Polys(K) /\ CT0(sk, c) \in Polys(K)
               /\ \A j \in Index :
                    /\ Cong(W0(sk, y, c)[i][j],
                            Commitment(sk, y).lo[i][j] - Prod(c, s2[i])[j])
                    /\ Cong(CT0(sk, c)[i][j], Prod(c, sk.t0[i])[j])
  <1> DEFINE sk == Sk(rho, s1, s2)
             lo == Commitment(sk, y).lo
             t0 == sk.t0
             p2 == polyvec_poly_product(c, s2)
             r == polyvec_poly_product(c, t0)
             w0 == W0(sk, y, c)
             ct0 == CT0(sk, c)
  <1>1. sk.s2 = s2 /\ DOMAIN t0 = 1 .. K
    BY DEF Sk, crypto_sign_keypair, polyveck_power2round
  <1>2. DOMAIN lo = 1 .. K
    BY DEF Commitment, polyveck_decompose
  <1>3. w0 = polyvec_reduce(polyvec_sub(lo, p2)) /\ ct0 = polyvec_reduce(r)
    BY <1>1 DEF W0, CT0
  <1>4. /\ DOMAIN p2 = 1 .. K /\ DOMAIN r = 1 .. K
        /\ \A k \in 1 .. K : p2[k] = poly_product(c, s2[k]) /\ r[k] = poly_product(c, t0[k])
    BY <1>1 DEF polyvec_poly_product, Inputs, Polys
  <1>5. \A k \in 1 .. K, j \in Index : Small(lo[k][j])
    <2> SUFFICES ASSUME NEW k \in 1 .. K, NEW j \in Index PROVE Small(lo[k][j])
      OBVIOUS
    <2> QED BY CommitmentIs, LowBits
  <1>6. \A k \in 1 .. K : t0[k] \in Poly /\ s2[k] \in Poly /\ c \in Poly
    BY KeyIs DEF Inputs, Polys
  <1> HIDE DEF p2, r, w0, ct0, lo, t0
  <1>7. /\ w0 = [k \in 1 .. K |-> w0[k]] /\ ct0 = [k \in 1 .. K |-> ct0[k]]
        /\ \A k \in 1 .. K : /\ w0[k] = [j \in Index |-> reduce32(lo[k][j] - p2[k][j])]
                             /\ ct0[k] = [j \in Index |-> reduce32(r[k][j])]
    BY <1>2, <1>3, <1>4 DEF polyvec_reduce, polyvec_sub, poly_reduce, poly_sub
  <1>8. ASSUME NEW k \in 1 .. K, NEW j \in Index
        PROVE  /\ w0[k][j] \in Int /\ Cong(w0[k][j], lo[k][j] - Prod(c, s2[k])[j])
               /\ ct0[k][j] \in Int /\ Cong(ct0[k][j], Prod(c, t0[k])[j])
    <2> DEFINE u == lo[k][j]
               v == p2[k][j]
               x == Prod(c, s2[k])[j]
               f == r[k][j]
    <2>1. /\ Small(u) /\ Small(v) /\ Small(f) /\ Cong(v, x) /\ Cong(f, Prod(c, t0[k])[j])
          /\ w0[k][j] = reduce32(u - v) /\ ct0[k][j] = reduce32(f)
      BY <1>4, <1>5, <1>6, <1>7, PolyProductIs DEF PolyCong
    <2>2. x \in Int
      BY <1>6, ProdPoly DEF Poly
    <2> HIDE DEF u, v, x, f
    <2>3. u \in Int /\ v \in Int
      BY SMT, <2>1 DEF Small
    <2>4. reduce32(u - v) \in Int /\ Cong(reduce32(u - v), u - v)
      BY <2>1, LowCoefficient
    <2>5. Cong(u - v, u - x)
      <3>1. Cong(u, u)
        BY CongBasics
      <3> QED BY <2>1, <2>2, <2>3, <3>1, CongSub
    <2>6. reduce32(f) \in Int /\ Cong(reduce32(f), f)
      BY <2>1, ReducedCoefficient
    <2>7. Cong(reduce32(f), Prod(c, t0[k])[j]) /\ Cong(reduce32(u - v), u - x)
      BY <2>1, <2>4, <2>5, <2>6, CongBasics
    <2> QED BY <2>1, <2>4, <2>6, <2>7 DEF u, x
  <1>9. w0 \in Polys(K) /\ ct0 \in Polys(K)
    <2>1. \A k \in 1 .. K : w0[k] \in Poly /\ ct0[k] \in Poly
      BY <1>7, <1>8 DEF Poly
    <2> QED BY <2>1, <1>7 DEF Polys
  <1> QED BY <1>8, <1>9 DEF w0, ct0, lo, t0

LEMMA HintIs ==
    ASSUME NEW rho, NEW s1, NEW s2, NEW y, NEW c, Inputs(rho, s1, s2, y, c)
    PROVE  LET sk == Sk(rho, s1, s2)
               h  == HintOf(sk, y, c)
           IN  /\ h \in Hint
               /\ \A i \in 1 .. K, j \in Index :
                    h[i][j] = make_hint(W0(sk, y, c)[i][j] + CT0(sk, c)[i][j],
                                        Commitment(sk, y).hi[i][j])
  <1> DEFINE sk == Sk(rho, s1, s2)
             h  == HintOf(sk, y, c)
             w0 == W0(sk, y, c)
             ct0 == CT0(sk, c)
             hi == Commitment(sk, y).hi
  <1>1. DOMAIN w0 = 1 .. K
    BY DEF W0, polyvec_reduce, polyvec_sub, Commitment, polyveck_decompose
  <1>2. h = polyveck_make_hint(polyvec_add(w0, ct0), hi)
    BY DEF HintOf
  <1> HIDE DEF w0, ct0, hi, h
  <1>3. /\ h = [i \in 1 .. K |-> h[i]]
        /\ \A i \in 1 .. K :
             h[i] = [j \in Index |-> make_hint(w0[i][j] + ct0[i][j], hi[i][j])]
    BY <1>1, <1>2 DEF polyveck_make_hint, poly_make_hint, polyvec_add, poly_add
  <1>4. \A u, v : make_hint(u, v) \in {0, 1}
    BY DEF make_hint
  <1>5. h \in Hint
    <2>1. \A i \in 1 .. K : h[i] \in [Index -> {0, 1}]
      BY <1>3, <1>4
    <2> QED BY <2>1, <1>3 DEF Hint
  <1> QED BY <1>3, <1>5 DEF h, w0, ct0, hi

(* A hint that was not sent back for its ones is packed and read back.     *)
LEMMA HintPacked ==
    ASSUME NEW rho, NEW s1, NEW s2, NEW y, NEW c, Inputs(rho, s1, s2, y, c),
           ~(OnesIn(HintOf(Sk(rho, s1, s2), y, c)) > OMEGA)
    PROVE  LET h == HintOf(Sk(rho, s1, s2), y, c)
           IN  /\ pack_hint(h) \in HintBytes /\ HintAccepted(pack_hint(h))
               /\ unpack_hint(pack_hint(h)) = h
  <1> DEFINE h == HintOf(Sk(rho, s1, s2), y, c)
  <1>1. h \in Hint /\ ~(OnesIn(h) > OMEGA)
    BY HintIs
  <1> HIDE DEF h
  <1>2. OnesIn(h) = Size(h, K) /\ Size(h, K) \in Nat /\ OMEGA \in Nat
    BY <1>1, OnesInSize, SizeNat, IndexNat
  <1>3. Size(h, K) <= OMEGA
    <2> DEFINE n == Size(h, K)
    <2>1. ~(n > OMEGA) /\ n \in Nat /\ OMEGA \in Nat
      BY <1>1, <1>2
    <2> HIDE DEF n
    <2>2. n <= OMEGA
      BY <2>1
    <2> QED BY <2>2 DEF n
  <1>4. h \in [1 .. K -> [Index -> {0, 1}]]
    BY <1>1 DEF Hint
  <1>5. /\ pack_hint(h) \in HintBytes /\ HintAccepted(pack_hint(h))
        /\ unpack_hint(pack_hint(h)) = h
    BY <1>3, <1>4, HintReadsBack
  <1> QED BY <1>5 DEF h

(***************************************************************************)
(* The high bits that the verifier restores from a signature are those the *)
(* signer hashed (sign.c), coefficient by coefficient, whatever matrix,    *)
(* secrets, mask and challenge: c s2 stays in the low bits because the     *)
(* pass was not sent back, and the hint absorbs c t0 and every wrap.       *)
(***************************************************************************)
THEOREM VerifierRestoresHighBits ==
    ASSUME NEW rho, NEW s1, NEW s2, NEW y, NEW c, NEW mu, Inputs(rho, s1, s2, y, c),
           Attempt(Sk(rho, s1, s2), mu, y, c).verdict = "signed"
    PROVE  LET a == Attempt(Sk(rho, s1, s2), mu, y, c)
           IN  /\ HintAccepted(a.sig.hint)
               /\ RecoveredW1(a.sig, c, Pk(rho, s1, s2)) = Commitment(Sk(rho, s1, s2), y).hi
  <1> DEFINE sk == Sk(rho, s1, s2)
             pk == Pk(rho, s1, s2)
             sig == Attempt(sk, mu, y, c).sig
             z == sig.z
             h == HintOf(sk, y, c)
             w0 == W0(sk, y, c)
             ct0 == CT0(sk, c)
             hi == Commitment(sk, y).hi
             A == Matrix[rho]
             az == polyvec_matrix_product(A, z)
             sh == polyvec_shiftl(pk.t1)
             ct1 == polyvec_poly_product(c, sh)
             w == polyvec_caddq(polyvec_reduce(polyvec_sub(az, ct1)))
  <1>1. /\ ~polyvec_chknorm(w0, GAMMA2 - BETA) /\ ~polyvec_chknorm(ct0, GAMMA2)
        /\ ~(OnesIn(h) > OMEGA) /\ sig.hint = pack_hint(h)
    BY AttemptIs
  <1>2. h \in Hint
    BY HintIs
  <1>3. HintAccepted(sig.hint) /\ unpack_hint(sig.hint) = h
    BY <1>1, HintPacked
  <1>4. pk.rho = rho /\ DOMAIN pk.t1 = 1 .. K
    BY DEF Pk, crypto_sign_keypair, polyveck_power2round
  <1>5. RecoveredW1(sig, c, pk) = polyveck_use_hint(w, h)
    BY <1>3, <1>4 DEF RecoveredW1
  <1>6. /\ z \in Polys(L)
        /\ \A l \in 1 .. L : PolyCong(z[l], poly_add(Prod(c, s1[l]), y[l]))
    BY ResponseIs
  <1>7. hi = [i \in 1 .. K |-> hi[i]]
        /\ \A i \in 1 .. K : hi[i] = [j \in Index |-> hi[i][j]]
    BY DEF Commitment, polyveck_decompose, poly_decompose
  <1>8. \A i \in 1 .. K : sh[i] = poly_shiftl(pk.t1[i])
    BY <1>4 DEF polyvec_shiftl
  <1>9. DOMAIN sh = 1 .. K
    BY <1>4 DEF polyvec_shiftl
  <1>10. DOMAIN az = 1 .. K
    BY DEF polyvec_matrix_product
  <1> HIDE DEF z, h, w0, ct0, hi, az, sh, pk
  <1>11. /\ DOMAIN w = 1 .. K
         /\ \A i \in 1 .. K, j \in Index :
              w[i][j] = caddq(reduce32(az[i][j] - poly_product(c, sh[i])[j]))
    BY <1>9, <1>10 DEF polyvec_caddq, polyvec_reduce, polyvec_sub, polyvec_poly_product,
                       poly_caddq, poly_reduce, poly_sub
  <1> HIDE DEF w
  <1>12. ASSUME NEW i \in 1 .. K, NEW j \in Index
         PROVE  use_hint(w[i][j], h[i][j]) = hi[i][j]
    <2> DEFINE t0 == sk.t0[i]
               t1 == sh[i]
               s == s2[i]
               a == A[i]
    <2>1. PICK t \in Poly : /\ PolyCong(t, poly_add(Acc(a, s1, L), s))
                            /\ t1 \in Poly /\ t0 \in Poly /\ t = poly_add(t1, t0)
      BY <1>8, KeyIs DEF pk
    <2>2. /\ a \in Polys(L) /\ s \in Poly /\ c \in Poly
          /\ s1 \in Polys(L) /\ y \in Polys(L) /\ L \in 0 .. L
      BY ParamsAssumption DEF Inputs, Polys
    <2>3. /\ az[i] \in Poly /\ PolyCong(az[i], Acc(a, z, L))
          /\ Small(az[i][j])
      BY <1>6, RowProduct DEF Inputs, az
    <2>4. PICK wy : /\ Standard(wy) /\ Cong(wy, Acc(a, y, L)[j])
                    /\ hi[i][j] = decompose(wy).hi
                    /\ Commitment(sk, y).lo[i][j] = decompose(wy).lo
      BY CommitmentIs DEF hi
    <2>5. /\ w0 \in Polys(K) /\ ct0 \in Polys(K)
          /\ Cong(w0[i][j], decompose(wy).lo - Prod(c, s)[j])
          /\ Cong(ct0[i][j], Prod(c, t0)[j])
      BY <2>4, LowPartsAre DEF w0, ct0
    <2> HIDE DEF t0, t1, s, a
    <2>6. Short(w0[i][j]) /\ Short(ct0[i][j])
      <3>1. K \in Nat /\ GAMMA2 - BETA \in Int /\ GAMMA2 \in Int
        BY ShortIs, IndexNat
      <3>2. w0[i][j] \in Int /\ -(GAMMA2 - BETA) < w0[i][j] /\ w0[i][j] < GAMMA2 - BETA
        BY <1>1, <2>5, <3>1, NormIs
      <3>3. ct0[i][j] \in Int /\ -GAMMA2 < ct0[i][j] /\ ct0[i][j] < GAMMA2
        BY <1>1, <2>5, <3>1, NormIs
      <3> QED BY <3>2, <3>3, ShortIs
    <2>7. Cong(Acc(a, z, L)[j] - Prod(c, t1)[j],
               Acc(a, y, L)[j] - Prod(c, s)[j] + Prod(c, t0)[j])
      <3>1. \A l \in 1 .. L : PolyCong(z[l], poly_add(Prod(c, s1[l]), y[l]))
        BY <1>6
      <3> QED BY <1>6, <2>1, <2>2, <3>1, Residue
    <2> DEFINE Z == Acc(a, z, L)[j]
               Y == Acc(a, y, L)[j]
               S == Prod(c, s)[j]
               U == Prod(c, t1)[j]
               V == Prod(c, t0)[j]
               g == az[i][j]
               f == poly_product(c, t1)[j]
               x == w[i][j]
    <2>8. Z \in Int /\ Y \in Int /\ S \in Int /\ U \in Int /\ V \in Int
      <3>1. Acc(a, z, L) \in Poly /\ Acc(a, y, L) \in Poly
        BY <1>6, <2>2, AccUnfold
      <3>2. Prod(c, s) \in Poly /\ Prod(c, t1) \in Poly /\ Prod(c, t0) \in Poly
        BY <2>1, <2>2, ProdPoly
      <3> QED BY <3>1, <3>2 DEF Poly
    <2>9. Small(f) /\ Cong(f, U)
      BY <2>1, <2>2, PolyProductIs DEF PolyCong
    <2>10. Small(g) /\ Cong(g, Z)
      BY <2>3 DEF PolyCong
    <2>11. x = caddq(reduce32(g - f))
      BY <1>11 DEF t1
    <2>12. Cong(Z - U, Y - S + V)
      BY <2>7
    <2> HIDE DEF Z, Y, S, U, V, g, f, x
    <2>13. Standard(x) /\ Cong(x, g - f)
      BY <2>9, <2>10, <2>11, LowCoefficient
    <2>14. g \in Int /\ f \in Int
      BY SMT, <2>9, <2>10 DEF Small
    <2>15. Cong(g - f, Z - U)
      BY <2>8, <2>9, <2>10, <2>14, CongSub
    <2>16. Cong(x, Y - S + V)
      BY <2>12, <2>13, <2>15, CongBasics
    <2> DEFINE u0 == w0[i][j]
               v0 == ct0[i][j]
    <2>17. /\ Short(u0) /\ Cong(u0, decompose(wy).lo - S) /\ Short(v0) /\ Cong(v0, V)
           /\ Cong(wy, Y) /\ Standard(wy)
      BY <2>4, <2>5, <2>6 DEF S, V, Y
    <2>18. h[i][j] = make_hint(u0 + v0, decompose(wy).hi)
      BY <2>4, HintIs DEF h, w0, ct0, hi
    <2> HIDE DEF u0, v0
    <2>19. use_hint(x, make_hint(u0 + v0, decompose(wy).hi)) = decompose(wy).hi
      BY <2>8, <2>13, <2>16, <2>17, RestoredCoefficient
    <2> QED BY <2>4, <2>18, <2>19 DEF x
  <1>13. polyveck_use_hint(w, h) = hi
    <2>1. \A i \in 1 .. K : poly_use_hint(w[i], h[i]) = hi[i]
      BY <1>7, <1>12 DEF poly_use_hint
    <2> QED BY <2>1, <1>7 DEF polyveck_use_hint
  <1> QED BY <1>3, <1>5, <1>13 DEF hi, pk

-----------------------------------------------------------------------------
(* A byte string framed by the length of its first part divides in one way. *)

Joined(a, b) == a \o b

LEMMA CutAtLength ==
    ASSUME NEW p \in Seq(Int), NEW p2 \in Seq(Int), NEW x \in Seq(Int), NEW y \in Seq(Int),
           Joined(p, x) = Joined(p2, y), Len(p) = Len(p2)
    PROVE  p = p2 /\ x = y
  <1> DEFINE s == p \o x
             t == p2 \o y
             a == Len(p)
             b == Len(x)
             d == Len(y)
  <1>1. s = t /\ a \in Nat /\ b \in Nat /\ d \in Nat /\ Len(p2) = a
    BY DEF Joined
  <1>2. /\ Len(s) = a + b
        /\ \A i \in 1 .. a + b : s[i] = IF i <= a THEN p[i] ELSE x[i - a]
    BY ConcatProperties
  <1>3. /\ Len(t) = Len(p2) + d
        /\ \A i \in 1 .. Len(p2) + d : t[i] = IF i <= Len(p2) THEN p2[i] ELSE y[i - Len(p2)]
    BY ConcatProperties
  <1>4. /\ Len(t) = a + d
        /\ \A i \in 1 .. a + d : t[i] = IF i <= a THEN p2[i] ELSE y[i - a]
    BY <1>1, <1>3
  <1> HIDE DEF s, t
  <1>5. b = d
    <2> HIDE DEF a, b, d
    <2> QED BY <1>1, <1>2, <1>4
  <1>6. ASSUME NEW i \in 1 .. a PROVE p[i] = p2[i]
    <2> HIDE DEF a, b, d
    <2>1. i \in 1 .. a + b /\ i \in 1 .. a + d /\ i <= a
      BY <1>1
    <2> QED BY <2>1, <1>1, <1>2, <1>4
  <1>7. ASSUME NEW i \in 1 .. b PROVE x[i] = y[i]
    <2> DEFINE k == i + a
    <2> HIDE DEF a, b, d
    <2>1. k \in 1 .. a + b /\ ~(k <= a) /\ k - a = i
      BY <1>1
    <2> HIDE DEF k
    <2>2. s[k] = x[i] /\ t[k] = y[i]
      BY <2>1, <1>2, <1>4, <1>5
    <2> QED BY <2>2, <1>1
  <1>8. p = p2
    BY <1>6, SeqEqual
  <1>9. x = y
    BY <1>5, <1>7, SeqEqual
  <1> QED BY <1>8, <1>9

LEMMA SecondOf ==
    ASSUME NEW f \in Seq(Int), NEW g \in Seq(Int), NEW h \in Seq(Int), Len(f) = 2
    PROVE  /\ Joined(f, g) \in Seq(Int) /\ Len(Joined(f, g)) = 2 + Len(g)
           /\ Joined(Joined(f, g), h)[2] = f[2]
  <1> DEFINE e == f \o g
  <1>1. /\ e \in Seq(Int) /\ Len(e) = Len(f) + Len(g)
        /\ \A i \in 1 .. Len(f) + Len(g) : e[i] = IF i <= Len(f) THEN f[i] ELSE g[i - Len(f)]
    BY ConcatProperties
  <1> HIDE DEF e
  <1>2. Len(g) \in Nat /\ Len(h) \in Nat
    OBVIOUS
  <1>3. Len(e) = 2 + Len(g) /\ e[2] = f[2]
    BY <1>1, <1>2
  <1>4. \A i \in 1 .. Len(e) + Len(h) : (e \o h)[i] = IF i <= Len(e) THEN e[i] ELSE h[i - Len(e)]
    <2>1. e \in Seq(Int)
      BY <1>1
    <2> QED BY ONLY <2>1, h \in Seq(Int), ConcatProperties
  <1>5. 2 \in 1 .. Len(e) + Len(h) /\ 2 <= Len(e)
    BY <1>2, <1>3
  <1>6. (e \o h)[2] = f[2]
    BY <1>3, <1>4, <1>5
  <1> QED BY <1>1, <1>3, <1>6 DEF e, Joined

Framing(x, m) == <<0, Len(x)>> \o x \o m

LEMMA Framed ==
    ASSUME NEW m \in Seq(Int), NEW n \in Seq(Int), NEW x \in Seq(Int), NEW y \in Seq(Int),
           Framing(x, m) = Framing(y, n)
    PROVE  x = y /\ m = n
  <1> DEFINE p == <<0, Len(x)>>
             p2 == <<0, Len(y)>>
             u == Joined(p, x)
             v == Joined(p2, y)
  <1>1. p \in Seq(Int) /\ p2 \in Seq(Int) /\ Len(p) = 2 /\ Len(p2) = 2
        /\ p[2] = Len(x) /\ p2[2] = Len(y)
    OBVIOUS
  <1>2. Joined(u, m) = Joined(v, n)
    BY DEF Framing, Joined
  <1> HIDE DEF p, p2
  <1>3. u \in Seq(Int) /\ Len(u) = 2 + Len(x) /\ Joined(u, m)[2] = Len(x)
    <2>1. /\ Joined(p, x) \in Seq(Int) /\ Len(Joined(p, x)) = 2 + Len(x)
          /\ Joined(Joined(p, x), m)[2] = p[2]
      BY ONLY <1>1, SecondOf, x \in Seq(Int), m \in Seq(Int), ZenonT(30)
    <2>2. p[2] = Len(x)
      BY ONLY <1>1
    <2> QED BY ONLY <2>1, <2>2
  <1>4. v \in Seq(Int) /\ Len(v) = 2 + Len(y) /\ Joined(v, n)[2] = Len(y)
    <2>1. /\ Joined(p2, y) \in Seq(Int) /\ Len(Joined(p2, y)) = 2 + Len(y)
          /\ Joined(Joined(p2, y), n)[2] = p2[2]
      BY ONLY <1>1, SecondOf, y \in Seq(Int), n \in Seq(Int), ZenonT(30)
    <2>2. p2[2] = Len(y)
      BY ONLY <1>1
    <2> QED BY ONLY <2>1, <2>2
  <1>5. u = v => p = p2 /\ x = y
    BY <1>1, CutAtLength
  <1> HIDE DEF u, v
  <1>6. Len(u) = Len(v)
    BY <1>2, <1>3, <1>4
  <1>7. u = v /\ m = n
    BY <1>2, <1>3, <1>4, <1>6, CutAtLength
  <1> QED BY <1>5, <1>7

(* A length of at most 255 is one byte.                                    *)
LEMMA ByteLength == \A k \in Nat : k <= 255 => k % 256 = k
  BY SMT

(***************************************************************************)
(* The digest of the message names the public key, the context and the     *)
(* message (sign.c): the length byte keeps context and message apart as    *)
(* long as it is the length, which signer and verifier see to.             *)
(***************************************************************************)
THEOREM MuSeparates ==
    ASSUME NEW pk, NEW qk, NEW m \in Seq(Int), NEW n \in Seq(Int),
           NEW x \in Seq(Int), NEW y \in Seq(Int), Len(x) <= 255, Len(y) <= 255,
           Mu(pk, x, m) = Mu(qk, y, n)
    PROVE  pk = qk /\ x = y /\ m = n
  <1>1. Len(x) % 256 = Len(x) /\ Len(y) % 256 = Len(y)
    <2>1. Len(x) \in Nat /\ Len(y) \in Nat
      OBVIOUS
    <2> QED BY <2>1, ByteLength
  <1>2. pk = qk /\ Framing(x, m) = Framing(y, n)
    BY <1>1 DEF Mu, Framing
  <1> QED BY <1>2, Framed

(* One and no hint restore different high bits.                            *)
LEMMA HintsDiffer ==
    \A a \in Int : 0 <= a /\ a <= 8380416 => use_hint(a, 0) # use_hint(a, 1)
  <1> SUFFICES ASSUME NEW a \in Int, 0 <= a, a <= 8380416
               PROVE  use_hint(a, 0) # use_hint(a, 1)
    BY SMT
  <1> DEFINE hi == decompose(a).hi
             lo == decompose(a).lo
  <1>1. hi \in 0 .. 15
    <2>1. a < Q
      BY SMT DEF Q
    <2> QED BY SMT, <2>1, DecomposeExact
  <1>2. use_hint(a, 0) = hi
    BY SMT DEF use_hint
  <1>3. use_hint(a, 1) = IF lo > 0 THEN (hi + 1) % 16 ELSE (hi - 1) % 16
    BY SMT DEF use_hint
  <1> HIDE DEF hi, lo
  <1>4. (hi + 1) % 16 # hi /\ (hi - 1) % 16 # hi
    BY SMT, <1>1
  <1> QED BY SMT, <1>2, <1>3, <1>4

(* w of the verifier, before any hint.                                     *)
Unhinted(z, c, pk) ==
    polyvec_caddq(polyvec_reduce(polyvec_sub(
        polyvec_matrix_product(Matrix[pk.rho], z),
        polyvec_poly_product(c, polyvec_shiftl(pk.t1)))))

LEMMA UnhintedIs ==
    ASSUME NEW rho, NEW s1, NEW s2, NEW y, NEW c, NEW z, Inputs(rho, s1, s2, y, c),
           z \in Polys(L), NEW i \in 1 .. K, NEW j \in Index
    PROVE  Standard(Unhinted(z, c, Pk(rho, s1, s2))[i][j])
  <1> DEFINE pk == Pk(rho, s1, s2)
             az == polyvec_matrix_product(Matrix[rho], z)
             sh == polyvec_shiftl(pk.t1)
             w == Unhinted(z, c, pk)
  <1>1. pk.rho = rho /\ DOMAIN pk.t1 = 1 .. K
    BY DEF Pk, crypto_sign_keypair, polyveck_power2round
  <1>2. DOMAIN sh = 1 .. K /\ DOMAIN az = 1 .. K /\ sh[i] = poly_shiftl(pk.t1[i])
    BY <1>1 DEF polyvec_shiftl, polyvec_matrix_product
  <1>3. w = polyvec_caddq(polyvec_reduce(polyvec_sub(az, polyvec_poly_product(c, sh))))
    BY <1>1 DEF Unhinted
  <1>4. sh[i] \in Poly /\ c \in Poly
    BY <1>2, KeyIs DEF Inputs
  <1>5. Small(az[i][j])
    BY RowProduct DEF Inputs
  <1> HIDE DEF az, sh, w, pk
  <1> DEFINE g == az[i][j]
             f == poly_product(c, sh[i])[j]
  <1>6. w[i][j] = caddq(reduce32(g - f))
    BY <1>2, <1>3 DEF polyvec_caddq, polyvec_reduce, polyvec_sub, polyvec_poly_product,
                      poly_caddq, poly_reduce, poly_sub
  <1>7. Small(f) /\ Small(g)
    BY <1>4, <1>5, PolyProductIs
  <1> HIDE DEF f, g
  <1>8. Standard(w[i][j])
    BY <1>6, <1>7, LowCoefficient
  <1> QED BY <1>8 DEF w, pk

(* Two hints that restore the same high bits are one hint.                 *)
LEMMA HintsSame ==
    ASSUME NEW w, NEW s \in HintBytes, NEW t \in HintBytes,
           \A i \in 1 .. K, j \in Index : Standard(w[i][j]),
           HintAccepted(s), HintAccepted(t),
           polyveck_use_hint(w, unpack_hint(s)) = polyveck_use_hint(w, unpack_hint(t))
    PROVE  s = t
  <1> DEFINE g == unpack_hint(s)
             h == unpack_hint(t)
  <1>1. /\ g = [i \in 1 .. K |-> [j \in Index |-> g[i][j]]]
        /\ h = [i \in 1 .. K |-> [j \in Index |-> h[i][j]]]
        /\ \A i \in 1 .. K, j \in Index : g[i][j] \in {0, 1} /\ h[i][j] \in {0, 1}
    <2>1. ASSUME NEW x PROVE /\ DOMAIN unpack_hint(x) = 1 .. K
                             /\ \A i \in 1 .. K : /\ unpack_hint(x)[i] = [j \in Index |-> unpack_hint(x)[i][j]]
                                                  /\ \A j \in Index : unpack_hint(x)[i][j] \in {0, 1}
      BY DEF unpack_hint
    <2>2. ASSUME NEW x PROVE unpack_hint(x) = [i \in 1 .. K |-> unpack_hint(x)[i]]
      BY DEF unpack_hint
    <2> HIDE DEF g, h
    <2>3. /\ \A i \in 1 .. K : g[i] = [j \in Index |-> g[i][j]]
          /\ \A i \in 1 .. K : h[i] = [j \in Index |-> h[i][j]]
          /\ \A i \in 1 .. K, j \in Index : g[i][j] \in {0, 1} /\ h[i][j] \in {0, 1}
      BY <2>1 DEF g, h
    <2>4. g = [i \in 1 .. K |-> g[i]] /\ h = [i \in 1 .. K |-> h[i]]
      BY <2>2 DEF g, h
    <2> QED BY <2>3, <2>4
  <1> HIDE DEF g, h
  <1>2. polyveck_use_hint(w, g) = polyveck_use_hint(w, h)
    BY DEF g, h
  <1>3. ASSUME NEW i \in 1 .. K, NEW j \in Index PROVE g[i][j] = h[i][j]
    <2> DEFINE x == w[i][j]
               a == g[i][j]
               b == h[i][j]
    <2>1. polyveck_use_hint(w, g)[i][j] = use_hint(x, a)
      BY DEF polyveck_use_hint, poly_use_hint
    <2>2. polyveck_use_hint(w, h)[i][j] = use_hint(x, b)
      BY DEF polyveck_use_hint, poly_use_hint
    <2>3. Standard(x) /\ a \in {0, 1} /\ b \in {0, 1}
      BY <1>1
    <2> HIDE DEF x, a, b
    <2>4. use_hint(x, 0) # use_hint(x, 1)
      BY SMT, <2>3, HintsDiffer DEF Standard
    <2> QED BY <1>2, <2>1, <2>2, <2>3, <2>4 DEF a, b
  <1>4. g = h
    BY <1>1, <1>3
  <1>5. pack_hint(g) = s /\ pack_hint(h) = t
    BY HintIsCanonical DEF g, h
  <1> QED BY <1>4, <1>5

-----------------------------------------------------------------------------
(* The invariant of the signer: what it has returned is the signature of   *)
(* one pass that was not sent back, for the request under way.             *)

SignedBy(r, o) ==
    \E y \in Masks, cp \in Challenges :
        LET sk == KeyPair(r).sk
            a  == Attempt(sk, Mu(sk.tr, r.ctx, r.m), y, cp)
        IN  a.verdict = "signed" /\ o = [ret |-> 0, sig |-> a.sig, cp |-> cp]

Signed ==
    /\ request \in Requests /\ Len(request.ctx) <= 255
    /\ SignedBy(request, outcome)

SigningInv ==
    /\ outcome = Running \/ outcome = Refused \/ Signed
    /\ \/ request = NoRequest
       \/ request \in Requests /\ (outcome = Running => Len(request.ctx) <= 255)

LEMMA SigningInvHolds == SigningSpec => []SigningInv
  <1>1. SigningInit => SigningInv
    BY DEF SigningInit, SigningInv
  <1>2. ASSUME SigningInv, [SigningNext]_signingVars PROVE SigningInv'
    <2>0. \A x \in Requests : Len(x.ctx) \in Nat
      <3>1. \A x \in Contexts : Len(x) \in Nat
        BY SigningAssumption
      <3> QED BY <3>1 DEF Requests
    <2>1. CASE Call
      <3>1. /\ request' \in Requests
            /\ outcome' = IF Len(request'.ctx) > 255 THEN Refused ELSE Running
        BY <2>1 DEF Call
      <3>2. outcome' = Running => Len(request'.ctx) <= 255
        <4>1. Running # Refused
          BY DEF Running, Refused
        <4>2. outcome' = Running => ~(Len(request'.ctx) > 255)
          BY <3>1, <4>1
        <4> QED BY <2>0, <3>1, <4>2
      <3> QED BY <3>1, <3>2 DEF SigningInv
    <2>2. CASE Try
      <3>1. PICK y \in Masks, cp \in Challenges :
                LET sk == KeyPair(request).sk
                    a  == Attempt(sk, Mu(sk.tr, request.ctx, request.m), y, cp)
                IN  outcome' = IF a.verdict = "signed"
                               THEN [ret |-> 0, sig |-> a.sig, cp |-> cp] ELSE outcome
        BY <2>2 DEF Try
      <3>2. /\ request' = request /\ request # NoRequest /\ outcome = Running
            /\ request \in Requests /\ Len(request.ctx) <= 255
        BY <1>2, <2>2 DEF Try, SigningInv
      <3>3. outcome' = outcome \/ SignedBy(request, outcome')
        BY <3>1 DEF SignedBy
      <3>4. SignedBy(request, outcome') => Signed'
        BY <3>2 DEF Signed, SignedBy
      <3> QED BY <3>2, <3>3, <3>4 DEF SigningInv
    <2>3. CASE Return
      BY <2>3 DEF Return, SigningInv
    <2>4. CASE UNCHANGED signingVars
      BY <1>2, <2>4 DEF signingVars, SigningInv, Signed, SignedBy
    <2> QED BY <1>2, <2>1, <2>2, <2>3, <2>4 DEF SigningNext
  <1> QED BY <1>1, <1>2, PTL DEF SigningSpec

LEMMA DrawnIn ==
    /\ Q - 1 \in Int /\ -ETA \in Int /\ ETA \in Int /\ 1 - GAMMA1 \in Int /\ GAMMA1 \in Int
    /\ \A v \in -ETA .. ETA : Tiny(v)
    /\ \A v \in 1 - GAMMA1 .. GAMMA1 : Masked(v)
  <1>1. Q - 1 \in Int /\ -ETA \in Int /\ ETA \in Int /\ 1 - GAMMA1 \in Int /\ GAMMA1 \in Int
    BY SMT DEF Q, ETA, GAMMA1
  <1>2. \A v \in -ETA .. ETA : Tiny(v)
    BY SMT DEF ETA, Tiny
  <1>3. \A v \in Int : 1 - GAMMA1 <= v /\ v <= GAMMA1 => Masked(v)
    BY SMT DEF GAMMA1, Masked
  <1>4. \A v \in 1 - GAMMA1 .. GAMMA1 : Masked(v)
    <2> DEFINE low == 1 - GAMMA1
    <2>1. low \in Int /\ GAMMA1 \in Int /\ \A v \in Int : low <= v /\ v <= GAMMA1 => Masked(v)
      BY SMT, <1>1, <1>3
    <2> HIDE DEF low
    <2>2. \A v \in low .. GAMMA1 : Masked(v)
      BY SMT, <2>1
    <2> QED BY <2>2 DEF low
  <1> QED BY <1>1, <1>2, <1>4

LEMMA RequestInputs ==
    ASSUME NEW r \in Requests, NEW y \in Masks, NEW cp \in Challenges
    PROVE  /\ Inputs(r.rho, r.secret.s1, r.secret.s2, y, cp)
           /\ r.m \in Seq(Int) /\ r.ctx \in Seq(Int)
           /\ KeyPair(r).sk = Sk(r.rho, r.secret.s1, r.secret.s2)
           /\ KeyPair(r).pk = Pk(r.rho, r.secret.s1, r.secret.s2)
           /\ KeyPair(r).sk.tr = KeyPair(r).pk
  <1>1. /\ r.rho \in DOMAIN Matrix /\ r.secret \in Secrets
        /\ r.m \in Messages /\ r.ctx \in Contexts
    BY DEF Requests
  <1>2. r.m \in Seq(Int) /\ r.ctx \in Seq(Int)
    <2>1. ASSUME NEW s \in Seq(0 .. 255) PROVE s \in Seq(Int)
      <3>1. s = [i \in 1 .. Len(s) |-> s[i]] /\ Len(s) \in Nat
        BY LenProperties
      <3>2. \A i \in 1 .. Len(s) : s[i] \in 0 .. 255
        BY ElementOfSeq
      <3>3. ASSUME NEW i \in 1 .. Len(s) PROVE s[i] \in Int
        <4>1. s[i] \in 0 .. 255
          BY <3>2
        <4>2. \A v \in 0 .. 255 : v \in Int
          BY SMT
        <4> QED BY <4>1, <4>2
      <3>4. s \in [1 .. Len(s) -> Int]
        BY <3>1, <3>3
      <3> QED BY <3>1, <3>4, SeqDef
    <2> QED BY <1>1, <2>1, SigningAssumption
  <1>3. \A n, low, high : Vector(n, low, high) = [1 .. n -> [Index -> low .. high]]
    BY DEF Vector
  <1>4. \A low, high \in Int : \A n : Vector(n, low, high) \subseteq Polys(n)
    <2> SUFFICES ASSUME NEW low \in Int, NEW high \in Int, NEW n, NEW v \in Vector(n, low, high)
                 PROVE  v \in Polys(n)
      OBVIOUS
    <2>1. v \in [1 .. n -> [Index -> low .. high]]
      BY <1>3
    <2>2. \A i \in 1 .. n : v[i] \in [Index -> Int]
      BY <2>1
    <2> QED BY <2>1, <2>2 DEF Polys, Poly
  <1>5. /\ Q - 1 \in Int /\ -ETA \in Int /\ ETA \in Int /\ 1 - GAMMA1 \in Int /\ GAMMA1 \in Int
        /\ \A v \in -ETA .. ETA : Tiny(v)
        /\ \A v \in 1 - GAMMA1 .. GAMMA1 : Masked(v)
    BY DrawnIn
  <1>6. /\ Matrix[r.rho] \in [1 .. K -> Vector(L, 0, Q - 1)]
        /\ r.secret.s1 \in Vector(L, -ETA, ETA) /\ r.secret.s2 \in Vector(K, -ETA, ETA)
        /\ y \in Vector(L, 1 - GAMMA1, GAMMA1) /\ cp \in [Index -> {-1, 0, 1}]
    BY <1>1, SigningAssumption
  <1>7. /\ Vector(L, 0, Q - 1) \subseteq Polys(L) /\ Vector(L, -ETA, ETA) \subseteq Polys(L)
        /\ Vector(K, -ETA, ETA) \subseteq Polys(K)
        /\ Vector(L, 1 - GAMMA1, GAMMA1) \subseteq Polys(L)
    BY <1>4, <1>5
  <1>8. Matrix[r.rho] \in [1 .. K -> Polys(L)]
    BY <1>6, <1>7
  <1>9. cp \in Poly
    BY <1>6 DEF Poly
  <1>10. ASSUME NEW i \in 1 .. K, NEW j \in Index PROVE Tiny(r.secret.s2[i][j])
    <2> DEFINE T == -ETA .. ETA
               v == r.secret.s2
    <2>1. v \in [1 .. K -> [Index -> T]]
      BY <1>3, <1>6
    <2> HIDE DEF T, v
    <2>2. v[i][j] \in T
      BY <2>1
    <2> QED BY <1>5, <2>2 DEF T, v
  <1>11. ASSUME NEW l \in 1 .. L, NEW j \in Index PROVE Masked(y[l][j])
    <2> DEFINE T == 1 - GAMMA1 .. GAMMA1
    <2>1. y \in [1 .. L -> [Index -> T]]
      BY <1>3, <1>6
    <2> HIDE DEF T
    <2>2. y[l][j] \in T
      BY <2>1
    <2> QED BY <1>5, <2>2 DEF T
  <1>12. Inputs(r.rho, r.secret.s1, r.secret.s2, y, cp)
    BY <1>6, <1>7, <1>8, <1>9, <1>10, <1>11 DEF Inputs
  <1>13. KeyPair(r).sk.tr = KeyPair(r).pk
    BY DEF KeyPair, crypto_sign_keypair
  <1> QED BY <1>2, <1>12, <1>13 DEF KeyPair, Sk, Pk

(* What a returned signature is, in terms of the request.                  *)
LEMMA SignedIs ==
    ASSUME SigningInv, outcome.ret = 0
    PROVE  /\ request \in Requests /\ Len(request.ctx) <= 255
           /\ \E y \in Masks, cp \in Challenges :
                LET sk == KeyPair(request).sk
                    a  == Attempt(sk, Mu(sk.tr, request.ctx, request.m), y, cp)
                IN  a.verdict = "signed" /\ outcome.cp = cp /\ outcome.sig = a.sig
  <1>1. outcome # Running /\ outcome # Refused
    BY DEF Running, Refused
  <1>2. request \in Requests /\ Len(request.ctx) <= 255 /\ SignedBy(request, outcome)
    BY <1>1 DEF SigningInv, Signed
  <1> QED BY <1>2 DEF SignedBy

(* A signature of one pass verifies, whatever was drawn.                   *)
LEMMA AttemptVerifies ==
    ASSUME NEW rho, NEW s1, NEW s2, NEW y, NEW c, Inputs(rho, s1, s2, y, c),
           NEW cx, NEW m, Len(cx) <= 255,
           Attempt(Sk(rho, s1, s2), Mu(Pk(rho, s1, s2), cx, m), y, c).verdict = "signed"
    PROVE  crypto_sign_verify_ctx(
               Attempt(Sk(rho, s1, s2), Mu(Pk(rho, s1, s2), cx, m), y, c).sig,
               c, CRYPTO_BYTES, m, cx, Pk(rho, s1, s2))
  <1> DEFINE mu == Mu(Pk(rho, s1, s2), cx, m)
             sig == Attempt(Sk(rho, s1, s2), mu, y, c).sig
  <1>1. ~polyvec_chknorm(sig.z, GAMMA1 - BETA) /\ sig.c = <<mu, Commitment(Sk(rho, s1, s2), y).hi>>
    BY AttemptIs
  <1>2. HintAccepted(sig.hint) /\ RecoveredW1(sig, c, Pk(rho, s1, s2)) = Commitment(Sk(rho, s1, s2), y).hi
    BY VerifierRestoresHighBits
  <1> HIDE DEF sig
  <1>3. crypto_sign_verify_ctx(sig, c, CRYPTO_BYTES, m, cx, Pk(rho, s1, s2))
    BY <1>1, <1>2 DEF crypto_sign_verify_ctx
  <1> QED BY <1>3 DEF sig

(***************************************************************************)
(* Whatever matrix, secrets, masks and challenges, a signature that        *)
(* crypto_sign_signature_ctx returns is one crypto_sign_verify_ctx and     *)
(* crypto_sign_open_ctx accept (sign.c).                                   *)
(***************************************************************************)
THEOREM SpecSignatureVerifies == SigningSpec => []SignatureVerifies
  <1>1. SigningInv => SignatureVerifies
    <2> SUFFICES ASSUME SigningInv, outcome.ret = 0
                 PROVE  LET pk == KeyPair(request).pk
                            sm == crypto_sign_ctx(outcome.sig, request.m)
                        IN  /\ Verifies(outcome.sig, request.m, request.ctx, pk)
                            /\ crypto_sign_open_ctx(sm, outcome.cp, request.ctx, pk)
                                 = [ret |-> 0, m |-> request.m]
      BY DEF SignatureVerifies
    <2> DEFINE r == request
               pk == Pk(r.rho, r.secret.s1, r.secret.s2)
               sk == Sk(r.rho, r.secret.s1, r.secret.s2)
               sig == outcome.sig
               sm == crypto_sign_ctx(sig, r.m)
    <2>1. /\ r \in Requests /\ Len(r.ctx) <= 255
      BY SignedIs
    <2>2. PICK y \in Masks, cp \in Challenges :
            LET k == KeyPair(request).sk
                a == Attempt(k, Mu(k.tr, request.ctx, request.m), y, cp)
            IN  a.verdict = "signed" /\ outcome.cp = cp /\ outcome.sig = a.sig
      BY SignedIs
    <2>3. /\ Inputs(r.rho, r.secret.s1, r.secret.s2, y, cp)
          /\ r.m \in Seq(Int) /\ KeyPair(r).sk = sk /\ KeyPair(r).pk = pk /\ sk.tr = pk
      BY <2>1, RequestInputs
    <2>4. /\ Attempt(sk, Mu(pk, r.ctx, r.m), y, cp).verdict = "signed"
          /\ outcome.cp = cp /\ sig = Attempt(sk, Mu(pk, r.ctx, r.m), y, cp).sig
      BY <2>2, <2>3
    <2>5. crypto_sign_verify_ctx(sig, outcome.cp, CRYPTO_BYTES, r.m, r.ctx, pk)
      BY <2>1, <2>3, <2>4, AttemptVerifies
    <2>6. sm.smlen >= CRYPTO_BYTES /\ sm.m = r.m /\ sm.sig = sig
      <3>1. Len(r.m) \in Nat
        BY <2>3
      <3> QED BY SMT, <3>1 DEF crypto_sign_ctx, CRYPTO_BYTES
    <2> HIDE DEF r, pk, sk, sig, sm
    <2>7. crypto_sign_open_ctx(sm, outcome.cp, r.ctx, pk) = [ret |-> 0, m |-> r.m]
      BY <2>5, <2>6 DEF crypto_sign_open_ctx
    <2> QED BY <2>3, <2>5, <2>7 DEF Verifies, r, sig, sm
  <1> QED BY <1>1, SigningInvHolds, PTL

(* No other bytes in place of the hint of a signature verify.              *)
LEMMA OneHint ==
    ASSUME NEW rho, NEW s1, NEW s2, NEW y, NEW c, Inputs(rho, s1, s2, y, c),
           NEW cx, NEW m, NEW mu,
           Attempt(Sk(rho, s1, s2), mu, y, c).verdict = "signed",
           NEW t \in HintBytes, Len(cx) <= 255,
           LET sig == Attempt(Sk(rho, s1, s2), mu, y, c).sig
           IN  crypto_sign_verify_ctx([sig EXCEPT !.hint = t],
                   c, CRYPTO_BYTES, m, cx, Pk(rho, s1, s2))
    PROVE  t = Attempt(Sk(rho, s1, s2), mu, y, c).sig.hint
  <1> DEFINE sk == Sk(rho, s1, s2)
             pk == Pk(rho, s1, s2)
             sig == Attempt(sk, mu, y, c).sig
             alt == [sig EXCEPT !.hint = t]
             s == sig.hint
             w == Unhinted(sig.z, c, pk)
             hi == Commitment(sk, y).hi
  <1>1. alt.hint = t /\ alt.z = sig.z /\ alt.c = sig.c
    BY DEF Attempt
  <1>2. HintAccepted(t) /\ sig.c = <<Mu(pk, cx, m), RecoveredW1(alt, c, pk)>>
    BY <1>1 DEF crypto_sign_verify_ctx
  <1>3. sig.c = <<mu, hi>>
    BY AttemptIs
  <1>4. RecoveredW1(alt, c, pk) = hi
    BY <1>2, <1>3
  <1>5. HintAccepted(s) /\ RecoveredW1(sig, c, pk) = hi
    BY VerifierRestoresHighBits
  <1>6. /\ RecoveredW1(sig, c, pk) = polyveck_use_hint(w, unpack_hint(s))
        /\ RecoveredW1(alt, c, pk) = polyveck_use_hint(w, unpack_hint(t))
    BY <1>1 DEF RecoveredW1, Unhinted
  <1>7. s \in HintBytes
    <2>1. s = pack_hint(HintOf(sk, y, c)) /\ ~(OnesIn(HintOf(sk, y, c)) > OMEGA)
      BY AttemptIs
    <2> HIDE DEF s
    <2> QED BY <2>1, HintPacked
  <1>8. \A i \in 1 .. K, j \in Index : Standard(w[i][j])
    <2>1. sig.z \in Polys(L)
      BY ResponseIs
    <2> HIDE DEF sig
    <2> QED BY <2>1, UnhintedIs
  <1> HIDE DEF alt, s, w, hi
  <1>9. s = t
    BY <1>2, <1>4, <1>5, <1>6, <1>7, <1>8, HintsSame
  <1> QED BY <1>9 DEF s

(***************************************************************************)
(* Whatever matrix, secrets, masks and challenges, a returned signature    *)
(* verifies for no other message, context, split of them or key, and with  *)
(* no other hint (sign.c, packing.c).                                      *)
(***************************************************************************)
THEOREM SpecVerifiesNothingElse == SigningSpec => []VerifiesNothingElse
  <1>1. SigningInv => VerifiesNothingElse
    <2> SUFFICES ASSUME SigningInv, outcome.ret = 0
                 PROVE  /\ \A r \in Requests :
                              Verifies(outcome.sig, r.m, r.ctx, KeyPair(r).pk) =>
                                  /\ r.m = request.m /\ r.ctx = request.ctx
                                  /\ KeyPair(r).pk = KeyPair(request).pk
                        /\ \A h \in HintBytes :
                              Verifies([outcome.sig EXCEPT !.hint = h],
                                       request.m, request.ctx, KeyPair(request).pk) =>
                                  h = outcome.sig.hint
      BY DEF VerifiesNothingElse
    <2> DEFINE req == request
               pk == Pk(req.rho, req.secret.s1, req.secret.s2)
               sk == Sk(req.rho, req.secret.s1, req.secret.s2)
               sig == outcome.sig
               mu == Mu(pk, req.ctx, req.m)
    <2>1. /\ req \in Requests /\ Len(req.ctx) <= 255
      BY SignedIs
    <2>2. PICK y \in Masks, cp \in Challenges :
            LET k == KeyPair(request).sk
                a == Attempt(k, Mu(k.tr, request.ctx, request.m), y, cp)
            IN  a.verdict = "signed" /\ outcome.cp = cp /\ outcome.sig = a.sig
      BY SignedIs
    <2>3. /\ Inputs(req.rho, req.secret.s1, req.secret.s2, y, cp)
          /\ req.m \in Seq(Int) /\ req.ctx \in Seq(Int)
          /\ KeyPair(req).sk = sk /\ KeyPair(req).pk = pk /\ sk.tr = pk
      BY <2>1, RequestInputs
    <2>4. /\ Attempt(sk, mu, y, cp).verdict = "signed"
          /\ outcome.cp = cp /\ sig = Attempt(sk, mu, y, cp).sig
      BY <2>2, <2>3
    <2>5. ASSUME NEW r \in Requests, Verifies(sig, r.m, r.ctx, KeyPair(r).pk)
          PROVE  r.m = req.m /\ r.ctx = req.ctx /\ KeyPair(r).pk = KeyPair(req).pk
      <3>1. sig.c = <<mu, Commitment(sk, y).hi>>
        BY <2>4, AttemptIs
      <3>2. sig.c[1] = Mu(KeyPair(r).pk, r.ctx, r.m)
        BY <2>5 DEF Verifies, crypto_sign_verify_ctx
      <3>6. Len(r.ctx) <= 255
        BY <2>5 DEF Verifies, crypto_sign_verify_ctx
      <3>3. Mu(KeyPair(r).pk, r.ctx, r.m) = Mu(pk, req.ctx, req.m)
        BY <3>1, <3>2
      <3>4. r.m \in Seq(Int) /\ r.ctx \in Seq(Int)
        BY RequestInputs
      <3> HIDE DEF req, pk
      <3>5. r.m = req.m /\ r.ctx = req.ctx /\ KeyPair(r).pk = pk
        BY <2>1, <2>3, <3>3, <3>4, <3>6, MuSeparates
      <3> QED BY <2>3, <3>5
    <2>6. ASSUME NEW h \in HintBytes, Verifies([sig EXCEPT !.hint = h], req.m, req.ctx, KeyPair(req).pk)
          PROVE  h = sig.hint
      <3>1. crypto_sign_verify_ctx([sig EXCEPT !.hint = h], cp, CRYPTO_BYTES, req.m, req.ctx, pk)
        BY <2>3, <2>4, <2>6 DEF Verifies
      <3> HIDE DEF req, mu
      <3> QED BY <2>1, <2>3, <2>4, <3>1, OneHint
    <2> QED BY <2>5, <2>6
  <1> QED BY <1>1, SigningInvHolds, PTL

(***************************************************************************)
(* A returned signature verifies, and for nothing else (sign.c).           *)
(***************************************************************************)
THEOREM SpecVerifiesWhatWasSigned == SigningSpec => []VerifiesWhatWasSigned
  <1>1. SignatureVerifies /\ VerifiesNothingElse => VerifiesWhatWasSigned
    BY DEF VerifiesWhatWasSigned
  <1> QED BY <1>1, SpecSignatureVerifies, SpecVerifiesNothingElse, PTL

=============================================================================
