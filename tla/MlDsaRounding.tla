--------------------------- MODULE MlDsaRounding ---------------------------
(***************************************************************************)
(* Rounding and reduction of the coefficients of ML-DSA-65 (rounding.c,    *)
(* reduce.c), with the constants of the program.  A shift to the right is  *)
(* \div, which rounds down; nothing here leaves 32 bits.                   *)
(***************************************************************************)
EXTENDS Integers

Q      == 8380417
GAMMA2 == (Q - 1) \div 32
BETA   == 196

power2round(a) ==              \* D = 13
    LET hi == (a + 4095) \div 8192
    IN  [hi |-> hi, lo |-> a - hi * 8192]

(* The number of the multiple of 2 * GAMMA2 nearest to a, without dividing. *)
Nearest(a) == (((a + 127) \div 128) * 1025 + 2097152) \div 4194304

decompose(a) ==
    LET hi == Nearest(a) % 16
        lo == a - hi * 2 * GAMMA2
    IN  [hi |-> hi, lo |-> IF lo > (Q - 1) \div 2 THEN lo - Q ELSE lo]

make_hint(lo, hi) ==
    IF lo > GAMMA2 \/ lo < -GAMMA2 \/ (lo = -GAMMA2 /\ hi # 0) THEN 1 ELSE 0

(* Mutant: the high part is not taken modulo 16.                           *)
UseHintUnwrapped(a, hint) ==
    LET d == decompose(a)
    IN  IF hint = 0 THEN d.hi ELSE IF d.lo > 0 THEN d.hi + 1 ELSE d.hi - 1

use_hint(a, hint) ==
    LET d == decompose(a)
    IN  IF hint = 0 THEN d.hi
        ELSE IF d.lo > 0 THEN (d.hi + 1) % 16 ELSE (d.hi - 1) % 16

reduce32(a) == a - ((a + 4194304) \div 8388608) * Q

caddq(a) == IF a < 0 THEN a + Q ELSE a

freeze(a) == caddq(reduce32(a))

=============================================================================
