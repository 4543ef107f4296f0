---------------------------- MODULE HintPacking ----------------------------
(***************************************************************************)
(* The hint of a signature as OMEGA + K bytes (packing.c): the positions   *)
(* of its ones, polynomial after polynomial, padded to OMEGA bytes, then   *)
(* the running count after each polynomial.                                *)
(***************************************************************************)
EXTENDS MlDsaParams, Sequences

(* Positions and counts are bytes, below N.                                *)
HintBytes == [1 .. OMEGA + K -> Index]

(* The loop over j: the positions below n that are not zero.               *)
Ones(poly, n) ==
    LET ones[j \in 0 .. n] ==
            IF j = 0 THEN <<>>
            ELSE IF poly[j - 1] # 0 THEN Append(ones[j - 1], j - 1) ELSE ones[j - 1]
    IN  ones[n]

(* The loop over i: the positions of the first n polynomials.              *)
Positions(h, n) ==
    LET placed[i \in 0 .. n] ==
            IF i = 0 THEN <<>> ELSE placed[i - 1] \o Ones(h[i], N)
    IN  placed[n]

(* At most OMEGA ones: crypto_sign_signature_ctx rejects more.             *)
pack_hint(h) ==
    [j \in 1 .. OMEGA + K |->
        IF j > OMEGA THEN Len(Positions(h, j - OMEGA))
        ELSE IF j <= Len(Positions(h, K)) THEN Positions(h, K)[j] ELSE 0]

(* The count after polynomial i.                                           *)
Count(sig, i) == IF i = 0 THEN 0 ELSE sig[OMEGA + i]

CountsInOrder(sig) == \A i \in 1 .. K : /\ Count(sig, i) >= Count(sig, i - 1)
                                        /\ Count(sig, i) <= OMEGA

(* Ordered, hence without repetition.                                      *)
PositionsAscend(sig) ==
    \A i \in 1 .. K : \A j \in Count(sig, i - 1) + 2 .. Count(sig, i) :
        sig[j] > sig[j - 1]

(* Mutant: what follows the last position is not looked at.                *)
AnyPadding(sig) == TRUE

PaddedWithZeros(sig) == \A j \in Count(sig, K) + 1 .. OMEGA : sig[j] = 0

(* unpack_sig returns 0.                                                   *)
HintAccepted(sig) ==
    CountsInOrder(sig) /\ PositionsAscend(sig) /\ PaddedWithZeros(sig)

unpack_hint(sig) ==
    [i \in 1 .. K |-> [j \in Index |->
        IF \E k \in Count(sig, i - 1) + 1 .. Count(sig, i) : sig[k] = j
        THEN 1 ELSE 0]]

=============================================================================
