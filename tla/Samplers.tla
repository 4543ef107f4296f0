------------------------------ MODULE Samplers ------------------------------
(***************************************************************************)
(* Sampling polynomials from a byte stream (poly.c): the stream comes in   *)
(* blocks of Block bytes (the rate of SHAKE128 or SHAKE256) and a sampler  *)
(* goes on until it has N coefficients.  A stream is a function from 1, 2, *)
(* ...; squeezing a block reads the next Block bytes of it.                *)
(***************************************************************************)
EXTENDS Integers, Sequences

CONSTANTS
    N,          \* coefficients of a polynomial
    TAU,        \* non-zero coefficients of a challenge
    SIGNBYTES   \* bytes at the head of the challenge stream: 8 in the code

Modulus == 8380417

Squeezed(stream, from, n) == [i \in 1 .. n |-> stream[from + i]]

Suffix(s, n) == SubSeq(s, n + 1, Len(s))

---------------------------------------------------------------------------
(* Uniform modulo q: three bytes make a candidate of 23 bits.              *)

Candidate(b) == (b[1] + 256 * b[2] + 65536 * b[3]) % 8388608

RECURSIVE rej_uniform(_, _)
rej_uniform(len, buf) ==
    IF len = 0 \/ Len(buf) < 3 THEN <<>>
    ELSE LET t == Candidate(buf)
         IN  IF t < Modulus THEN <<t>> \o rej_uniform(len - 1, Suffix(buf, 3))
             ELSE rej_uniform(len, Suffix(buf, 3))

(* Mutant: the rest of a block is dropped.                                 *)
RECURSIVE UniformWithoutRest(_, _, _, _, _)
UniformWithoutRest(a, buf, stream, at, Block) ==
    IF Len(a) >= N THEN a
    ELSE LET next == Squeezed(stream, at, Block)
         IN  UniformWithoutRest(a \o rej_uniform(N - Len(a), next), next, stream,
                                at + Block, Block)

(* The last buflen % 3 bytes are kept in front of the next block.          *)
RECURSIVE UniformOn(_, _, _, _, _)
UniformOn(a, buf, stream, at, Block) ==
    IF Len(a) >= N THEN a
    ELSE LET off  == Len(buf) % 3
             next == Suffix(buf, Len(buf) - off) \o Squeezed(stream, at, Block)
         IN  UniformOn(a \o rej_uniform(N - Len(a), next), next, stream,
                       at + Block, Block)

poly_uniform(stream, Block, nblocks) ==
    LET buf == Squeezed(stream, 0, nblocks * Block)
    IN  UniformOn(rej_uniform(N, buf), buf, stream, nblocks * Block, Block)

---------------------------------------------------------------------------
(* Small coefficients: each half byte below 9 makes one.                   *)

RECURSIVE rej_eta(_, _)
rej_eta(len, buf) ==
    IF len = 0 \/ buf = <<>> THEN <<>>
    ELSE LET low  == Head(buf) % 16
             high == Head(buf) \div 16
             one  == IF low < 9 THEN <<4 - low>> ELSE <<>>
             two  == IF high < 9 /\ Len(one) < len THEN one \o <<4 - high>> ELSE one
         IN  two \o rej_eta(len - Len(two), Tail(buf))

RECURSIVE EtaOn(_, _, _, _)
EtaOn(a, stream, at, Block) ==
    IF Len(a) >= N THEN a
    ELSE EtaOn(a \o rej_eta(N - Len(a), Squeezed(stream, at, Block)),
               stream, at + Block, Block)

poly_uniform_eta(stream, Block, nblocks) ==
    EtaOn(rej_eta(N, Squeezed(stream, 0, nblocks * Block)),
          stream, nblocks * Block, Block)

---------------------------------------------------------------------------
(* The challenge: TAU steps of a shuffle.  The first bytes of the first    *)
(* block are the signs, one bit for a step; a position above i is drawn    *)
(* again; the block is squeezed anew when it is used up.                   *)

SignBit(buf, n) == (buf[(n \div 8) + 1] \div 2 ^ (n % 8)) % 2

(* A state of the loop: pos bytes of the block buf are used, the stream is *)
(* squeezed up to at.                                                      *)
RECURSIVE DrawPosition(_, _, _, _)
DrawPosition(i, st, stream, Block) ==
    IF st.pos >= Block
    THEN DrawPosition(i, [buf |-> Squeezed(stream, st.at, Block), pos |-> 0,
                          at |-> st.at + Block], stream, Block)
    ELSE LET b == st.buf[st.pos + 1]
             s == [st EXCEPT !.pos = @ + 1]
         IN  IF b > i THEN DrawPosition(i, s, stream, Block) ELSE [b |-> b, st |-> s]

RECURSIVE Shuffle(_, _, _, _, _, _)
Shuffle(c, i, st, signs, stream, Block) ==
    IF i = N THEN c
    ELSE LET d    == DrawPosition(i, st, stream, Block)
             sign == 1 - 2 * SignBit(signs, i - (N - TAU))
         IN  Shuffle([c EXCEPT ![i] = c[d.b], ![d.b] = sign],
                     i + 1, d.st, signs, stream, Block)

poly_challenge(stream, Block) ==
    LET buf == Squeezed(stream, 0, Block)
    IN  Shuffle([j \in 0 .. N - 1 |-> 0], N - TAU,
                [buf |-> buf, pos |-> SIGNBYTES, at |-> Block], buf, stream, Block)

---------------------------------------------------------------------------
(* The 16-bit nonces that tell apart the streams of one seed: one for each *)
(* polynomial of the matrix, of a pair of small vectors (the second begins *)
(* where the first ends), and of the mask of an attempt (polyvec.c).       *)

MatrixNonce(i, j)      == (256 * i + j) % 65536
EtaNonce(first, i)     == (first + i) % 65536
MaskNonce(attempt, i, L) == (L * attempt + i) % 65536

---------------------------------------------------------------------------
(* The samplers of FIPS 204, on the stream itself.                         *)

RECURSIVE UniformFrom(_, _, _)
UniformFrom(stream, at, n) ==
    IF n = 0 THEN <<>>
    ELSE LET t == Candidate(Squeezed(stream, at, 3))
         IN  IF t < Modulus THEN <<t>> \o UniformFrom(stream, at + 3, n - 1)
             ELSE UniformFrom(stream, at + 3, n)

(* Half byte h, counted from 0.                                            *)
RECURSIVE EtaFrom(_, _, _)
EtaFrom(stream, h, n) ==
    IF n = 0 THEN <<>>
    ELSE LET v == IF h % 2 = 0 THEN stream[(h \div 2) + 1] % 16
                  ELSE stream[(h \div 2) + 1] \div 16
         IN  IF v < 9 THEN <<4 - v>> \o EtaFrom(stream, h + 1, n - 1)
             ELSE EtaFrom(stream, h + 1, n)

RECURSIVE BallFrom(_, _, _, _)
BallFrom(c, i, stream, at) ==
    IF i = N THEN c
    ELSE LET b == stream[at + 1]
         IN  IF b > i THEN BallFrom(c, i, stream, at + 1)
             ELSE BallFrom([c EXCEPT ![i] = c[b],
                                ![b] = 1 - 2 * SignBit(stream, i - (N - TAU))],
                           i + 1, stream, at + 1)

SampleInBall(stream) ==
    BallFrom([j \in 0 .. N - 1 |-> 0], N - TAU, stream, SIGNBYTES)

=============================================================================
