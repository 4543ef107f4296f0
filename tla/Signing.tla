------------------------------ MODULE Signing ------------------------------
(***************************************************************************)
(* Calls of crypto_sign_signature_ctx (sign.c), pass by pass of its loop.  *)
(* Each pass draws any mask, and poly_challenge answers with any           *)
(* challenge: that stands for every seed and every hash function.          *)
(***************************************************************************)
EXTENDS MlDsaSign

CONSTANTS
    Messages, Contexts,    \* byte strings
    Secrets,               \* s1 and s2 of the keys
    Masks,                 \* what polyvecl_uniform_gamma1 draws
    Challenges             \* what poly_challenge returns

Vector(n, low, high) == [1 .. n -> [Index -> low .. high]]

ASSUME SigningAssumption ==
    /\ \A s \in Messages \union Contexts : s \in Seq(0 .. 255)
    /\ \A rho \in DOMAIN Matrix : Matrix[rho] \in [1 .. K -> Vector(L, 0, Q - 1)]
    /\ \A s \in Secrets : /\ s.s1 \in Vector(L, -ETA, ETA)
                          /\ s.s2 \in Vector(K, -ETA, ETA)
    /\ \A y \in Masks : y \in Vector(L, 1 - GAMMA1, GAMMA1)
    /\ \A c \in Challenges : c \in [Index -> {-1, 0, 1}]

VARIABLES
    request,     \* the arguments of the call under way
    outcome      \* its result so far

signingVars == <<request, outcome>>

NoRequest == [rho |-> "none"]
Requests  == [m : Messages, ctx : Contexts, rho : DOMAIN Matrix, secret : Secrets]

Running == [ret |-> 1]
Refused == [ret |-> -1]

KeyPair(r) == crypto_sign_keypair(r.rho, r.secret.s1, r.secret.s2)

SigningInit == request = NoRequest /\ outcome = Running

Call ==
    /\ request = NoRequest
    /\ request' \in Requests
    /\ outcome' = IF Len(request'.ctx) > 255 THEN Refused ELSE Running

(* One pass; sent back to rej:, it leaves no trace.                        *)
Try ==
    /\ request # NoRequest /\ outcome = Running
    /\ \E y \in Masks, cp \in Challenges :
           LET sk == KeyPair(request).sk
               a  == Attempt(sk, Mu(sk.tr, request.ctx, request.m), y, cp)
           IN  outcome' = IF a.verdict = "signed"
                          THEN [ret |-> 0, sig |-> a.sig, cp |-> cp] ELSE outcome
    /\ UNCHANGED request

Return ==
    /\ request # NoRequest /\ outcome # Running
    /\ request' = NoRequest /\ outcome' = Running

SigningNext == Call \/ Try \/ Return

SigningSpec == SigningInit /\ [][SigningNext]_signingVars

---------------------------------------------------------------------------
(* The verifier samples the challenge from the same digest.                *)
Verifies(sig, m, ctx, pk) ==
    crypto_sign_verify_ctx(sig, outcome.cp, CRYPTO_BYTES, m, ctx, pk)

(* The verifier accepts it, and crypto_sign_open_ctx returns the message.  *)
SignatureVerifies ==
    outcome.ret = 0 =>
        LET pk == KeyPair(request).pk
            sm == crypto_sign_ctx(outcome.sig, request.m)
        IN  /\ Verifies(outcome.sig, request.m, request.ctx, pk)
            /\ crypto_sign_open_ctx(sm, outcome.cp, request.ctx, pk)
                 = [ret |-> 0, m |-> request.m]

VerifiesNothingElse ==
    outcome.ret = 0 =>
        LET pk == KeyPair(request).pk
        IN  /\ \A r \in Requests :
                   Verifies(outcome.sig, r.m, r.ctx, KeyPair(r).pk) =>
                       r.m = request.m /\ r.ctx = request.ctx /\ KeyPair(r).pk = pk
            /\ \A h \in HintBytes :
                   Verifies([outcome.sig EXCEPT !.hint = h], request.m, request.ctx, pk) =>
                       h = outcome.sig.hint

(***************************************************************************)
(* What the signer returns, the verifier accepts with the same key,        *)
(* message and context, whatever mask, challenge and hint it took (sign.c, *)
(* rounding.c): the high bits the hint restores are those the signer       *)
(* hashed, also in the bands next to 0 and Q.  And it verifies for nothing *)
(* else: not for another message, another context, another division of the *)
(* same bytes into context and message, another public key; nor with any   *)
(* other bytes in place of its hint (packing.c).                           *)
(***************************************************************************)
VerifiesWhatWasSigned == SignatureVerifies /\ VerifiesNothingElse

=============================================================================
