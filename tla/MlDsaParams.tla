---------------------------- MODULE MlDsaParams ----------------------------
(* The sizes of ML-DSA (params.h): 256, 6, 5 and 55 for ML-DSA-65.         *)
EXTENDS Integers

CONSTANTS
    N,          \* coefficients of a polynomial
    K, L,       \* polynomials of a vector
    OMEGA       \* ones a hint may have

(* A position, and the number of ones, are a byte, of which there are N.   *)
ASSUME ParamsAssumption ==
    /\ N \in Nat \ {0} /\ K \in Nat \ {0} /\ L \in Nat \ {0}
    /\ OMEGA \in Nat /\ OMEGA < N

Index == 0 .. N - 1

=============================================================================
