------------------------------ MODULE Encoding ------------------------------
(***************************************************************************)
(* Calls of the functions of packing.c, with any argument: a byte string   *)
(* that may stand for a hint, a signature with any hint that has at most   *)
(* OMEGA ones, a pair of keys.                                             *)
(***************************************************************************)
EXTENDS Packing, FiniteSets

CONSTANT Byte      \* bytes of the packed polynomials, seeds and digests

VARIABLE coded     \* the call under way

NotCoding == [op |-> "none"]

HintWeight(h) == Cardinality({x \in (1 .. K) \X Index : h[x[1]][x[2]] = 1})

Hints == {h \in [1 .. K -> [Index -> {0, 1}]] : HintWeight(h) <= OMEGA}

Bytes(n)        == [1 .. n -> Byte]
Packed(n, size) == [1 .. n -> Bytes(size)]

UnpackCalls == [op : {"unpack"}, bytes : HintBytes]

SignatureCalls == [op : {"signature"}, c : Bytes(CTILDEBYTES),
                   z : Packed(L, POLYZ), h : Hints]

KeyCalls == [op : {"keys"}, rho : Bytes(SEEDBYTES), tr : Bytes(TRBYTES),
             key : Bytes(SEEDBYTES), t1 : Packed(K, POLYT1), t0 : Packed(K, POLYT0),
             s1 : Packed(L, POLYETA), s2 : Packed(K, POLYETA)]

EncodingInit == coded = NotCoding

BeginCoding == coded = NotCoding /\ coded' \in UnpackCalls \union SignatureCalls \union KeyCalls

EndCoding == coded # NotCoding /\ coded' = NotCoding

EncodingNext == BeginCoding \/ EndCoding

EncodingSpec == EncodingInit /\ [][EncodingNext]_coded

---------------------------------------------------------------------------
(***************************************************************************)
(* Keys and signatures read back field by field.  A hint that unpack_sig   *)
(* accepts (packing.c) has at most OMEGA ones, and exactly one encoding:   *)
(* no second signature is made from a first by writing its hint            *)
(* differently.                                                            *)
(***************************************************************************)
EncodingIsUnique ==
    /\ coded.op = "unpack" /\ HintAccepted(coded.bytes) =>
         /\ Len(Positions(unpack_hint(coded.bytes), K)) <= OMEGA
         /\ pack_hint(unpack_hint(coded.bytes)) = coded.bytes
    /\ coded.op = "signature" =>
         unpack_sig(pack_sig(coded.c, coded.z, coded.h))
           = [ok |-> TRUE, c |-> coded.c, z |-> coded.z, h |-> coded.h]
    /\ coded.op = "keys" =>
         /\ unpack_pk(pack_pk(coded.rho, coded.t1)) = [rho |-> coded.rho, t1 |-> coded.t1]
         /\ unpack_sk(pack_sk(coded.rho, coded.tr, coded.key, coded.t0, coded.s1, coded.s2))
              = [rho |-> coded.rho, tr |-> coded.tr, key |-> coded.key,
                 s1 |-> coded.s1, s2 |-> coded.s2, t0 |-> coded.t0]

=============================================================================
