----------------------------- MODULE Montgomery -----------------------------
(***************************************************************************)
(* Montgomery reduction (reduce.c), for any modulus and any even word size *)
(* R = 2 * HalfR.  The program has q = 8380417, R = 2^32 and               *)
(* QINV = 58728449 (reduce.h); TLC runs it with a small prime.             *)
(***************************************************************************)
EXTENDS Integers

CONSTANTS q, HalfR, QINV

R == 2 * HalfR

ASSUME MontgomeryAssumption ==
    /\ q \in Nat \ {0} /\ HalfR \in Nat \ {0} /\ QINV \in Int
    /\ (q * QINV) % R = 1

(* The product kept in a signed word.                                      *)
Word(x) == ((x + HalfR) % R) - HalfR

montgomery_reduce(a) == (a - Word(a * QINV) * q) \div R

=============================================================================
