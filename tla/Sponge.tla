------------------------------- MODULE Sponge -------------------------------
(***************************************************************************)
(* SHAKE and SHA3 over the Keccak permutation (fips202.c): the one-shot    *)
(* and the incremental interface, with their contexts on the heap.         *)
(*                                                                         *)
(* A byte is the set of the terms XORed into it.  A term is a tuple: <<i>> *)
(* is byte i of a message (<<-1>> the domain byte, <<-2>> 0x80), <<s, p>>  *)
(* is byte p of the permuted state s.  The permutation is so uninterpreted *)
(* (KeccakF has it); two results are equal only if they are the same for   *)
(* every permutation and every message.                                    *)
(***************************************************************************)
EXTENDS Integers, Sequences

CONSTANTS
    Rate,         \* bytes of the state that take input and give output
    Width,        \* bytes of the state: 200 in the code
    Handle,       \* the contexts of the callers
    MaxFed,       \* bound: bytes absorbed by one context
    MaxDrawn      \* bound: bytes squeezed from one context

ASSUME SpongeAssumption ==
    /\ Rate \in Nat \ {0} /\ Width \in Nat /\ Width > Rate
    /\ MaxFed \in Nat /\ MaxDrawn \in Nat

Zeroed == [p \in 0 .. Width - 1 |-> {}]

Xor(a, b) == (a \ b) \union (b \ a)

(* XOR the bytes m into the state from the byte offset on.                 *)
keccak_state_xor_bytes(s, m, offset) ==
    [p \in DOMAIN s |-> IF p - offset \in 0 .. Len(m) - 1
                        THEN Xor(s[p], m[p - offset + 1]) ELSE s[p]]

keccak_state_extract_bytes(s, offset, n) == [i \in 1 .. n |-> s[offset + i - 1]]

Permute(s) == [p \in DOMAIN s |-> {<<s, p>>}]

DomainByte == <<{<<-1>>}>>
LastByte   == <<{<<-2>>}>>

Padded(s, at) ==
    keccak_state_xor_bytes(keccak_state_xor_bytes(s, DomainByte, at),
                           LastByte, Rate - 1)

Take(m, n) == SubSeq(m, 1, n)
Drop(m, n) == SubSeq(m, n + 1, Len(m))

(* Every loop of fips202.c XORs a piece of the message into the state, or  *)
(* nothing, and permutes: the state after n rounds.                        *)
Round(s, piece) == Permute(keccak_state_xor_bytes(s, piece.m, piece.offset))

Rounds(s, pieces, n) ==
    LET at[i \in 0 .. n] == IF i = 0 THEN s ELSE Round(at[i - 1], pieces[i])
    IN  at[n]

(* What fills up the next n blocks, of which the first has held bytes.     *)
Pieces(m, held, n) ==
    [i \in 1 .. n |->
        IF i = 1 THEN [m |-> Take(m, Rate - held), offset |-> held]
        ELSE [m |-> SubSeq(m, (i - 1) * Rate - held + 1, i * Rate - held), offset |-> 0]]

Nothing(n)     == [i \in 1 .. n |-> [m |-> <<>>, offset |-> 0]]
Permuted(s, n) == Rounds(s, Nothing(n), n)

(* Blocks of n bytes of output, the last one perhaps a part.               *)
BlocksOf(n) == (n + Rate - 1) \div Rate

(* The squeeze loops permute, and copy what is still wanted of the block.  *)
Squeezed(s, outlen) ==
    LET out[k \in 0 .. BlocksOf(outlen)] ==
            IF k = 0 THEN <<>>
            ELSE LET left == outlen - (k - 1) * Rate
                     i    == IF left < Rate THEN left ELSE Rate
                 IN  out[k - 1] \o keccak_state_extract_bytes(Permuted(s, k), 0, i)
    IN  out[BlocksOf(outlen)]

---------------------------------------------------------------------------
(* The one-shot interface.                                                 *)

keccak_absorb(m) ==
    LET n == Len(m) \div Rate
        s == Rounds(Zeroed, Pieces(m, 0, n), n)
    IN  Padded(keccak_state_xor_bytes(s, Drop(m, n * Rate), 0), Len(m) - n * Rate)

keccak_squeezeblocks(s, n) == [out |-> Squeezed(s, n * Rate), s |-> Permuted(s, n)]

(* shake128 and shake256: whole blocks, then a part of one more.           *)
shake(outlen, m) ==
    LET n    == outlen \div Rate
        full == keccak_squeezeblocks(keccak_absorb(m), n)
        more == keccak_squeezeblocks(full.s, 1)
    IN  IF outlen - n * Rate = 0 THEN full.out
        ELSE full.out \o Take(more.out, outlen - n * Rate)

(* SHA3: at most one block of output.                                      *)
sha3(outlen, m) == Take(keccak_squeezeblocks(keccak_absorb(m), 1).out, outlen)

---------------------------------------------------------------------------
(* The incremental interface: n is s_inc[25], the bytes absorbed since the *)
(* last permutation or, once finalized, the bytes not yet squeezed.        *)

keccak_inc_init == [s |-> Zeroed, n |-> 0]

keccak_inc_absorb(c, m) ==
    LET n == (Len(m) + c.n) \div Rate
        s == Rounds(c.s, Pieces(m, c.n, n), n)
    IN  IF n = 0 THEN [s |-> keccak_state_xor_bytes(c.s, m, c.n), n |-> c.n + Len(m)]
        ELSE [s |-> keccak_state_xor_bytes(s, Drop(m, n * Rate - c.n), 0),
              n |-> Len(m) + c.n - n * Rate]

(* Mutant: the count of bytes absorbed is left for squeezing.              *)
FinalizeKeepsCount(c) == [s |-> Padded(c.s, c.n), n |-> c.n]

keccak_inc_finalize(c) == [s |-> Padded(c.s, c.n), n |-> 0]

sha3_inc_finalize(c, outlen) ==
    Take(keccak_squeezeblocks(keccak_inc_finalize(c).s, 1).out, outlen)

SqueezeOn(c, outlen) ==
    LET n == BlocksOf(outlen)
    IN  [out |-> Squeezed(c.s, outlen),
         c   |-> IF outlen = 0 THEN c
                 ELSE [s |-> Permuted(c.s, n), n |-> Rate - (outlen - (n - 1) * Rate)]]

keccak_inc_squeeze(c, outlen) ==
    LET i    == IF outlen < c.n THEN outlen ELSE c.n
        kept == keccak_state_extract_bytes(c.s, Rate - c.n, i)
        rest == SqueezeOn([c EXCEPT !.n = @ - i], outlen - i)
    IN  [rest EXCEPT !.out = kept \o @]

---------------------------------------------------------------------------
(* Contexts: allocated by init and clone, freed by release.                *)

VARIABLES ctx,     \* handle -> context on the heap, or NoContext
          phase,   \* handle -> what its caller may do with it next
          fed,     \* ghost: the bytes absorbed
          drawn    \* ghost: the bytes squeezed

spongeVars == <<ctx, phase, fed, drawn>>

NoContext == [s |-> <<>>, n |-> -1]

SpongeInit ==
    /\ ctx   = [h \in Handle |-> NoContext]
    /\ phase = [h \in Handle |-> "free"]
    /\ fed   = [h \in Handle |-> <<>>]
    /\ drawn = [h \in Handle |-> <<>>]

IncInit(h) ==
    /\ phase[h] = "free"
    /\ ctx'   = [ctx EXCEPT ![h] = keccak_inc_init]
    /\ phase' = [phase EXCEPT ![h] = "absorbing"]
    /\ UNCHANGED <<fed, drawn>>

(* The bytes of a message are distinct, and those of two handles too.      *)
Chunk(h, len) == [i \in 1 .. len |-> {<<100 * h + Len(fed[h]) + i>>}]

IncAbsorb(h, len) ==
    /\ phase[h] = "absorbing"
    /\ Len(fed[h]) + len <= MaxFed
    /\ ctx' = [ctx EXCEPT ![h] = keccak_inc_absorb(@, Chunk(h, len))]
    /\ fed' = [fed EXCEPT ![h] = @ \o Chunk(h, len)]
    /\ UNCHANGED <<phase, drawn>>

IncFinalize(h) ==
    /\ phase[h] = "absorbing"
    /\ ctx'   = [ctx EXCEPT ![h] = keccak_inc_finalize(@)]
    /\ phase' = [phase EXCEPT ![h] = "squeezing"]
    /\ UNCHANGED <<fed, drawn>>

IncSqueeze(h, len) ==
    /\ phase[h] = "squeezing"
    /\ Len(drawn[h]) + len <= MaxDrawn
    /\ LET r == keccak_inc_squeeze(ctx[h], len)
       IN  /\ ctx'   = [ctx EXCEPT ![h] = r.c]
           /\ drawn' = [drawn EXCEPT ![h] = @ \o r.out]
    /\ UNCHANGED <<phase, fed>>

(* The copy goes on by itself.                                             *)
CtxClone(dest, src) ==
    /\ phase[dest] = "free" /\ phase[src] # "free"
    /\ ctx'   = [ctx EXCEPT ![dest] = ctx[src]]
    /\ phase' = [phase EXCEPT ![dest] = phase[src]]
    /\ fed'   = [fed EXCEPT ![dest] = fed[src]]
    /\ drawn' = [drawn EXCEPT ![dest] = drawn[src]]

CtxRelease(h) ==
    /\ phase[h] # "free"
    /\ ctx'   = [ctx EXCEPT ![h] = NoContext]
    /\ phase' = [phase EXCEPT ![h] = "free"]
    /\ fed'   = [fed EXCEPT ![h] = <<>>]
    /\ drawn' = [drawn EXCEPT ![h] = <<>>]

SpongeNext ==
    \E h \in Handle :
        \/ IncInit(h)
        \/ \E len \in 1 .. MaxFed : IncAbsorb(h, len)
        \/ IncFinalize(h)
        \/ \E len \in 1 .. MaxDrawn : IncSqueeze(h, len)
        \/ \E g \in Handle : CtxClone(g, h)
        \/ CtxRelease(h)

SpongeSpec == SpongeInit /\ [][SpongeNext]_spongeVars

---------------------------------------------------------------------------
(* The sponge of FIPS 202: pad10*1, absorb block by block, squeeze.        *)

PaddedMessage(m) ==
    LET zeros == (Rate - ((Len(m) + 2) % Rate)) % Rate
    IN  IF Rate - (Len(m) % Rate) = 1
        THEN m \o <<{<<-1>>, <<-2>>}>>
        ELSE m \o DomainByte \o [i \in 1 .. zeros |-> {}] \o LastByte

(* The state after each block: while there is input it is XORed in.        *)
XofOutput(m, n) ==
    LET input  == PaddedMessage(m)
        blocks == Len(input) \div Rate
        z[k \in 0 .. blocks + n] ==
            IF k = 0 THEN Zeroed
            ELSE Permute([p \in 0 .. Width - 1 |->
                             IF k <= blocks /\ p < Rate
                             THEN Xor(z[k - 1][p], input[(k - 1) * Rate + p + 1])
                             ELSE z[k - 1][p]])
    IN  [i \in 1 .. n |-> z[blocks + ((i - 1) \div Rate)][(i - 1) % Rate]]

(***************************************************************************)
(* However a message is cut into pieces for the absorb calls and the       *)
(* output into pieces for the squeeze calls, and whatever other contexts   *)
(* and copies do in between, the output is that of the sponge over the     *)
(* whole message; the one-shot calls agree with it (fips202.c).  Messages  *)
(* that end one byte before the rate, and at it, are among them.           *)
(***************************************************************************)
XofIsSponge ==
    \A h \in Handle :
        /\ phase[h] = "squeezing" =>
             LET n == Len(drawn[h])
             IN  drawn[h] = XofOutput(fed[h], n) /\ drawn[h] = shake(n, fed[h])
        /\ phase[h] = "absorbing" =>
             LET hash == XofOutput(fed[h], Rate - 1)
             IN  /\ hash = sha3(Rate - 1, fed[h])
                 /\ hash = sha3_inc_finalize(ctx[h], Rate - 1)

=============================================================================
