------------------------------ MODULE Packing ------------------------------
(***************************************************************************)
(* Keys and signatures as byte strings (packing.c).  Packed polynomials    *)
(* are byte strings of fixed lengths (BitPacking makes them).              *)
(***************************************************************************)
EXTENDS HintPacking, SequencesExt

CONSTANTS
    SEEDBYTES, TRBYTES, CTILDEBYTES,
    POLYETA, POLYT0, POLYT1, POLYZ    \* bytes of one packed polynomial

ASSUME PackingAssumption ==
    {SEEDBYTES, TRBYTES, CTILDEBYTES, POLYETA, POLYT0, POLYT1, POLYZ} \subseteq Nat

(* Bytes first + 1 .. first + n of s; the code advances a pointer.         *)
Field(s, first, n) == SubSeq(s, first + 1, first + n)

(* n packed polynomials of len bytes each, from byte first on.             *)
PolyFields(s, first, n, len) ==
    [i \in 1 .. n |-> Field(s, first + (i - 1) * len, len)]

pack_pk(rho, t1) == rho \o FlattenSeq(t1)

unpack_pk(pk) == [rho |-> Field(pk, 0, SEEDBYTES),
                  t1  |-> PolyFields(pk, SEEDBYTES, K, POLYT1)]

pack_sk(rho, tr, key, t0, s1, s2) ==
    rho \o key \o tr \o FlattenSeq(s1) \o FlattenSeq(s2) \o FlattenSeq(t0)

unpack_sk(sk) ==
    LET s1At == 2 * SEEDBYTES + TRBYTES
        s2At == s1At + L * POLYETA
        t0At == s2At + K * POLYETA
    IN  [rho |-> Field(sk, 0, SEEDBYTES),
         key |-> Field(sk, SEEDBYTES, SEEDBYTES),
         tr  |-> Field(sk, 2 * SEEDBYTES, TRBYTES),
         s1  |-> PolyFields(sk, s1At, L, POLYETA),
         s2  |-> PolyFields(sk, s2At, K, POLYETA),
         t0  |-> PolyFields(sk, t0At, K, POLYT0)]

pack_sig(c, z, h) == c \o FlattenSeq(z) \o pack_hint(h)

unpack_sig(sig) ==
    LET hintAt == CTILDEBYTES + L * POLYZ
        hint   == Field(sig, hintAt, OMEGA + K)
    IN  [ok |-> HintAccepted(hint),
         c  |-> Field(sig, 0, CTILDEBYTES),
         z  |-> PolyFields(sig, CTILDEBYTES, L, POLYZ),
         h  |-> IF HintAccepted(hint) THEN unpack_hint(hint) ELSE <<>>]

=============================================================================
