----------------------------- MODULE MlDsaSign -----------------------------
(***************************************************************************)
(* Key pair, signature and verification of ML-DSA-65 (sign.c).  A digest   *)
(* is the tuple of what was hashed, so that two are equal only if the      *)
(* inputs are; what the code samples from a digest is an argument.         *)
(***************************************************************************)
EXTENDS MlDsaPoly, HintPacking

CONSTANT Matrix    \* polyvec_matrix_expand: the matrix of each seed rho

GAMMA1       == 524288
ETA          == 4
CRYPTO_BYTES == 3309

(* From the seed rho and the small secrets s1 and s2.                      *)
crypto_sign_keypair(rho, s1, s2) ==
    LET t  == polyvec_caddq(polyvec_add(polyvec_matrix_product(Matrix[rho], s1), s2))
        tt == polyveck_power2round(t)
        pk == [rho |-> rho, t1 |-> tt.hi]
    IN  [pk |-> pk,
         sk |-> [rho |-> rho, tr |-> pk, s1 |-> s1, s2 |-> s2, t0 |-> tt.lo]]

(* Mutant: context and message follow each other without a length.         *)
MuUnframed(tr, ctx, m) == <<tr, <<0>> \o ctx \o m>>

(* The message digest: 0, the length of ctx as a byte, ctx and the message *)
(* follow the digest of the public key in one byte string.                 *)
Mu(tr, ctx, m) == <<tr, <<0, Len(ctx) % 256>> \o ctx \o m>>

---------------------------------------------------------------------------
(* One pass of the loop at rej:, with the mask y.  The digest from which   *)
(* poly_challenge samples cp; the rest, whose verdict says which check     *)
(* sent it back.                                                           *)
Commitment(sk, y) ==
    polyveck_decompose(polyvec_caddq(polyvec_matrix_product(Matrix[sk.rho], y)))

ChallengeSeed(sk, mu, y) == <<mu, Commitment(sk, y).hi>>

Attempt(sk, mu, y, cp) ==
    LET d    == Commitment(sk, y)
        z    == polyvec_reduce(polyvec_add(polyvec_poly_product(cp, sk.s1), y))
        w0   == polyvec_reduce(polyvec_sub(d.lo, polyvec_poly_product(cp, sk.s2)))
        ct0  == polyvec_reduce(polyvec_poly_product(cp, sk.t0))
        h    == polyveck_make_hint(polyvec_add(w0, ct0), d.hi)
    IN  [verdict |-> IF polyvec_chknorm(z, GAMMA1 - BETA) THEN "z"
                     ELSE IF polyvec_chknorm(w0, GAMMA2 - BETA) THEN "w0"
                     ELSE IF polyvec_chknorm(ct0, GAMMA2) THEN "ct0"
                     ELSE IF OnesIn(h) > OMEGA THEN "hint" ELSE "signed",
         sig     |-> [c |-> ChallengeSeed(sk, mu, y), z |-> z, hint |-> pack_hint(h)]]

---------------------------------------------------------------------------
(* w1 as the verifier computes it, with the challenge cp of the signature: *)
(* A z - c t1 2^13, corrected by the hint.                                 *)
RecoveredW1(sig, cp, pk) ==
    LET az   == polyvec_matrix_product(Matrix[pk.rho], sig.z)
        ct1  == polyvec_poly_product(cp, polyvec_shiftl(pk.t1))
        w    == polyvec_caddq(polyvec_reduce(polyvec_sub(az, ct1)))
    IN  polyveck_use_hint(w, unpack_hint(sig.hint))

crypto_sign_verify_ctx(sig, cp, siglen, m, ctx, pk) ==
    /\ Len(ctx) <= 255 /\ siglen = CRYPTO_BYTES
    /\ HintAccepted(sig.hint)
    /\ ~polyvec_chknorm(sig.z, GAMMA1 - BETA)
    /\ sig.c = <<Mu(pk, ctx, m), RecoveredW1(sig, cp, pk)>>

(* The signature and the message in one string, and back; on failure the   *)
(* message is empty.                                                       *)
crypto_sign_ctx(sig, m) == [sig |-> sig, m |-> m, smlen |-> CRYPTO_BYTES + Len(m)]

crypto_sign_open_ctx(sm, cp, ctx, pk) ==
    IF sm.smlen >= CRYPTO_BYTES
       /\ crypto_sign_verify_ctx(sm.sig, cp, CRYPTO_BYTES, sm.m, ctx, pk)
    THEN [ret |-> 0, m |-> sm.m]
    ELSE [ret |-> -1, m |-> <<>>]

=============================================================================
