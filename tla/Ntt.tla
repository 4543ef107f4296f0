-------------------------------- MODULE Ntt --------------------------------
(***************************************************************************)
(* The number theoretic transform (ntt.c, reference code) and the product  *)
(* of two polynomials modulo X^N + 1 that sign.c makes with it.  The code  *)
(* has N = 256 and ROOT = 1753; N is called Degree here, since TLC checks  *)
(* the signature on another degree.  The table zetas[] is computed from    *)
(* ROOT.  A layer of butterflies is a function of the array before it: no  *)
(* two butterflies of a layer touch the same coefficient.                  *)
(***************************************************************************)
EXTENDS Montgomery, Sums

CONSTANTS
    Degree,            \* N, a power of 2
    ROOT,              \* ROOT^N = -1 modulo q
    MontSquaredByN,    \* the literal f of ntt.c: R^2 / N modulo q
    Factors            \* the polynomials that are multiplied

Coefficients == 0 .. Degree - 1

(* ROOT^k modulo q.                                                        *)
Power[k \in Nat] == IF k = 0 THEN 1 ELSE (ROOT * Power[k - 1]) % q

(* The bits of k in reverse order: the lowest weighs half the degree.      *)
Reversed[k \in Nat] ==
    IF k = 0 THEN 0 ELSE (Reversed[k \div 2] \div 2) + (k % 2) * (Degree \div 2)

(* Mutant: the powers in their natural order.                              *)
ZetasInOrder(k) == ((R % q) * Power[k]) % q

(* zetas[k] = R * ROOT^(k reversed), centred.                              *)
zetas(k) == LET z == ((R % q) * Power[Reversed[k]]) % q
            IN  IF z > q \div 2 THEN z - q ELSE z

(* Half the size of the blocks of layer i: N / 2, ..., 2, 1, of which      *)
(* there are as many as the loop runs.                                     *)
Length[i \in Nat] == IF i = 0 THEN Degree ELSE Length[i - 1] \div 2

Layers == CHOOSE m \in 0 .. Degree : Length[m] = 1

(* The literals fit each other, and the words are long enough: half a word *)
(* holds N * q, and the square of what the transform leaves is reduced     *)
(* with a result below q.  The factors are below q.                        *)
ASSUME NttAssumption ==
    /\ Degree \in Nat \ {0}
    /\ \A i \in 0 .. Degree : Length[i] > 1 => Length[i] % 2 = 0
    /\ ROOT \in Nat /\ Power[Degree] = q - 1
    /\ MontSquaredByN \in 0 .. q - 1
    /\ (MontSquaredByN * Degree) % q = ((R % q) * (R % q)) % q
    /\ Degree * q <= HalfR /\ (Layers + 1) * (Layers + 1) * q <= HalfR
    /\ Factors \subseteq [Coefficients -> 1 - q .. q - 1]

Block(j, len)     == j \div (2 * len)
InLowHalf(j, len) == j % (2 * len) < len

(* One layer forward; the blocks take the zetas in ascending order.        *)
ForwardLayer(a, len) ==
    LET zeta(j) == zetas((Degree \div (2 * len)) + Block(j, len))
        t(j)    == montgomery_reduce(zeta(j) * a[j])
    IN  [j \in Coefficients |-> IF InLowHalf(j, len) THEN a[j] + t(j + len)
                                ELSE a[j - len] - t(j)]

(* a after its first n layers.                                             *)
Forward(a, n) ==
    LET after[i \in 0 .. n] ==
            IF i = 0 THEN a ELSE ForwardLayer(after[i - 1], Length[i])
    IN  after[n]

ntt(a) == Forward(a, Layers)

(* Sums and differences of a layer back; the differences are multiplied by *)
(* the zetas in descending order, negated.                                 *)
Differences(a, len) ==
    [j \in Coefficients |-> IF InLowHalf(j, len) THEN a[j] + a[j + len]
                            ELSE a[j - len] - a[j]]

InverseLayer(a, len) ==
    LET zeta(j) == -zetas((Degree \div len) - 1 - Block(j, len))
        d       == Differences(a, len)
    IN  [j \in Coefficients |-> IF InLowHalf(j, len) THEN d[j]
                                ELSE montgomery_reduce(zeta(j) * d[j])]

(* The layers in reverse order, as far as the n-th.                        *)
Backward(a, n) ==
    LET after[i \in 0 .. n] ==
            IF i = 0 THEN a ELSE InverseLayer(after[i - 1], Length[Layers + 1 - i])
    IN  after[n]

invntt_tomont(a) ==
    [j \in Coefficients |-> montgomery_reduce(MontSquaredByN * Backward(a, Layers)[j])]

pointwise_montgomery(a, b) == [j \in Coefficients |-> montgomery_reduce(a[j] * b[j])]

(* The product of two polynomials, as sign.c makes it.                     *)
RingProduct(a, b) == invntt_tomont(pointwise_montgomery(ntt(a), ntt(b)))

---------------------------------------------------------------------------
(* One product after the other.                                            *)

VARIABLE factors

NoFactors == <<>>

NttInit == factors = NoFactors

BeginProduct == factors = NoFactors /\ factors' \in Factors \X Factors

EndProduct == factors # NoFactors /\ factors' = NoFactors

NttNext == BeginProduct \/ EndProduct

NttSpec == NttInit /\ [][NttNext]_factors

---------------------------------------------------------------------------
(* The coefficient of X^j in a * b, with X^N = -1.                         *)
Negacyclic(a, b, j) ==
    SumOf([i \in Coefficients |-> IF i <= j THEN a[i] * b[j - i]
                                  ELSE -(a[i] * b[Degree + j - i])], Degree)

Below(a, bound) == \A j \in Coefficients : -bound < a[j] /\ a[j] < bound

(* No coefficient leaves its word, though nothing is reduced between two   *)
(* layers, nor do the differences of a layer back.                         *)
WithinWords(a, b) ==
    LET c == pointwise_montgomery(ntt(a), ntt(b))
    IN  /\ \A n \in 0 .. Layers : /\ Below(Forward(a, n), HalfR) /\ Below(Forward(b, n), HalfR)
                                  /\ Below(Backward(c, n), HalfR)
        /\ \A n \in 1 .. Layers :
               Below(Differences(Backward(c, n - 1), Length[Layers + 1 - n]), HalfR)

(***************************************************************************)
(* Transform, product and inverse transform (ntt.c, poly.c) multiply       *)
(* modulo X^N + 1, with a result below q, and no coefficient leaves its    *)
(* word on the way.                                                        *)
(***************************************************************************)
ProductIsNegacyclic ==
    factors # NoFactors =>
        LET a == factors[1]
            b == factors[2]
            c == RingProduct(a, b)
        IN  /\ WithinWords(a, b) /\ Below(c, q)
            /\ \A j \in Coefficients : (c[j] - Negacyclic(a, b, j)) % q = 0

=============================================================================
