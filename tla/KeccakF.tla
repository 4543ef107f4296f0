------------------------------ MODULE KeccakF ------------------------------
(***************************************************************************)
(* The permutation Keccak-f[1600] as fips202.c computes it: 24 rounds      *)
(* unrolled by two, theta, rho and pi merged into a table of where each    *)
(* lane comes from and how far it is rotated.  A lane is the set of its    *)
(* 1 bits; a state is the sequence of its lanes, lane (x, y) at            *)
(* x + 5 * y + 1.                                                          *)
(***************************************************************************)
EXTENDS Integers, Sequences, FiniteSets, SequencesExt

Bit == 0 .. 63

ROL(a, n) == {(b + n) % 64 : b \in a}

XorLane(a, b) == (a \ b) \union (b \ a)

KeccakF_RoundConstants ==
    <<{0}, {1, 7, 15}, {1, 3, 7, 15, 63}, {15, 31, 63},
      {0, 1, 3, 7, 15}, {0, 31}, {0, 7, 15, 31, 63}, {0, 3, 15, 63},
      {1, 3, 7}, {3, 7}, {0, 3, 15, 31}, {1, 3, 31},
      {0, 1, 3, 7, 15, 31}, {0, 1, 3, 7, 63}, {0, 3, 7, 15, 63}, {0, 1, 15, 63},
      {1, 15, 63}, {7, 63}, {1, 3, 15}, {1, 3, 31, 63},
      {0, 7, 15, 31, 63}, {7, 15, 63}, {0, 31}, {3, 15, 31, 63}>>

(* BCa .. BCu of each row of the result: the lane taken and its rotation.  *)
Taken == <<
    <<<<0, 0>>,  <<6, 44>>, <<12, 43>>, <<18, 21>>, <<24, 14>>>>,
    <<<<3, 28>>, <<9, 20>>, <<10, 3>>,  <<16, 45>>, <<22, 61>>>>,
    <<<<1, 1>>,  <<7, 6>>,  <<13, 25>>, <<19, 8>>,  <<20, 18>>>>,
    <<<<4, 27>>, <<5, 36>>, <<11, 10>>, <<17, 15>>, <<23, 56>>>>,
    <<<<2, 62>>, <<8, 55>>, <<14, 39>>, <<15, 41>>, <<21, 2>>>> >>

(* BC and D: the parity of a column, and what theta adds to a column.      *)
Parity(A, x) ==
    XorLane(XorLane(XorLane(XorLane(A[x + 1], A[x + 6]), A[x + 11]), A[x + 16]), A[x + 21])

(* Mutant: the second parity is not rotated.                               *)
ThetaUnrotated(A) ==
    LET d(x) == XorLane(Parity(A, (x + 4) % 5), Parity(A, (x + 1) % 5))
    IN  <<d(0), d(1), d(2), d(3), d(4)>>

ThetaOf(A) ==
    LET d(x) == XorLane(Parity(A, (x + 4) % 5), ROL(Parity(A, (x + 1) % 5), 1))
    IN  <<d(0), d(1), d(2), d(3), d(4)>>

(* Five lanes of the result, from the five lanes Taken for its row.        *)
Row(A, D, y) ==
    LET bc(x) == LET from == Taken[y + 1][x + 1]
                 IN  ROL(XorLane(A[from[1] + 1], D[(from[1] % 5) + 1]), from[2])
        BC    == <<bc(0), bc(1), bc(2), bc(3), bc(4)>>
        e(x)  == XorLane(BC[x + 1], (Bit \ BC[((x + 1) % 5) + 1])
                                        \intersect BC[((x + 2) % 5) + 1])
    IN  <<e(0), e(1), e(2), e(3), e(4)>>

(* One half of the loop body; the other half is the same with A and E      *)
(* exchanged and the next round constant.                                  *)
Round(A, round) ==
    LET D == ThetaOf(A)
        E == Row(A, D, 0) \o Row(A, D, 1) \o Row(A, D, 2) \o Row(A, D, 3) \o Row(A, D, 4)
    IN  [E EXCEPT ![1] = XorLane(@, KeccakF_RoundConstants[round + 1])]

KeccakF1600_StatePermute(state) ==
    FoldLeft(Round, state, [i \in 1 .. 24 |-> i - 1])

---------------------------------------------------------------------------
(* The step mappings of FIPS 202, one after the other, on the set of the   *)
(* pairs <<lane, bit>> that are 1.                                         *)

At(x, y) == (x % 5) + 5 * (y % 5) + 1

Position == (1 .. 25) \X Bit

Bits(A) == {p \in Position : p[2] \in A[p[1]]}

OddColumn(S, x, b) == Cardinality({y \in 0 .. 4 : <<At(x, y), b>> \in S}) % 2 = 1

Theta(S) == {p \in Position :
    (p \in S) # (OddColumn(S, p[1] + 3, p[2]) # OddColumn(S, p[1], (p[2] + 63) % 64))}

(* The lanes in the order in which rho gives them their offsets.           *)
Walk[t \in 0 .. 23] ==
    IF t = 0 THEN <<1, 0>>
    ELSE LET w == Walk[t - 1] IN <<w[2], (2 * w[1] + 3 * w[2]) % 5>>

Offset(l) ==
    IF l = 1 THEN 0
    ELSE LET t == CHOOSE t \in 0 .. 23 : At(Walk[t][1], Walk[t][2]) = l
         IN  (((t + 1) * (t + 2)) \div 2) % 64

Rho(S) == {<<p[1], (p[2] + Offset(p[1])) % 64>> : p \in S}

(* The lane at (x, y) goes to (y, 2 * x + 3 * y).                          *)
Pi(S) == {LET x == (p[1] - 1) % 5
              y == (p[1] - 1) \div 5
          IN  <<At(y, 2 * x + 3 * y), p[2]>> : p \in S}

Chi(S) == {p \in Position :
    LET right(n) == <<At(p[1] - 1 + n, (p[1] - 1) \div 5), p[2]>>
    IN  (p \in S) # (right(1) \notin S /\ right(2) \in S)}

(* The round constants are those of the code: the test vector fixes them.  *)
Iota(S, round) == XorLane(S, {<<1, b>> : b \in KeccakF_RoundConstants[round + 1]})

ReferenceRound(S, round) == Iota(Chi(Pi(Rho(Theta(S)))), round)

(* The first lane of the published test vector for the zero state,         *)
(* F1258F7940E1DDE7.                                                       *)
FirstLaneOfZero ==
    {0, 1, 2, 5, 6, 7, 8, 10, 11, 12, 14, 15, 16, 21, 22, 23, 30, 32, 35, 36, 37, 38,
     40, 41, 42, 43, 47, 48, 50, 53, 56, 60, 61, 62, 63}

=============================================================================
