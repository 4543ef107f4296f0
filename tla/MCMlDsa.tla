------------------------------ MODULE MCMlDsa ------------------------------
(***************************************************************************)
(* The ML-DSA-65 library on small parameters: any sequence of calls of the *)
(* sponge interface, of the signer, of the functions of packing.c and of   *)
(* the transform, and calls of the other functions, which keep no state    *)
(* between two calls, with chosen arguments; one of the five at a time.    *)
(* Every constant of the scheme is as small as lets each branch and each   *)
(* carry between blocks happen; the modulus and the rounding of the        *)
(* signature are those of the code.                                        *)
(***************************************************************************)
EXTENDS Signing, Encoding, Sponge, Ntt

Keccak == INSTANCE KeccakF
Sample == INSTANCE Samplers WITH N <- 4, TAU <- 2, SIGNBYTES <- 1
Coding == INSTANCE BitPacking
Table  == INSTANCE NttTable

(* 257 is prime and 257 * -255 = 1 modulo 2^14.                            *)
MCqinv == -255

VARIABLE call     \* the call under way

Idle == [op |-> "none"]

---------------------------------------------------------------------------
(* A small signature scheme: two polynomials of four coefficients and a    *)
(* hint of at most two ones.  A byte of a hint may be 3, a count that is   *)
(* too high and a position that is not.                                    *)

Poly(a, b, c, d) == [j \in 0 .. 3 |-> <<a, b, c, d>>[j + 1]]

(* Two keys have two matrices.                                             *)
MCMatrix == [rho \in {0, 1} |->
                << <<Poly(3141592, 2718281, 1414213, 5926535)>>,
                   <<Poly(1618033, 5772156, 6931471 + rho, 4669201)>> >>]

MCSecrets == {[s1 |-> <<Poly(3, -4, 2, -1)>>,
               s2 |-> <<Poly(-2, 4, 1, 3), Poly(1, -3, 0, -4)>>]}

(* Accepted without a hint; with one in either polynomial, two in one and  *)
(* one in each, up and down, where the high part is 0, 15 and in between;  *)
(* sent back for z, for w0 and for three ones.                             *)
MCMasks == {<<Poly(-524090, -407286, 428252, 115467)>>,
            <<Poly(321010, 16507, 298619, 10727)>>,
            <<Poly(-524091, -134202, 51555, 352369)>>,
            <<Poly(524095, -231874, 102802, -358669)>>,
            <<Poly(-97764, -456224, 359437, -293387)>>}

(* The signed powers of X.                                                 *)
MCChallenges == {[j \in 0 .. 3 |-> IF j = k THEN s ELSE 0] : k \in 0 .. 3, s \in {1, -1}}

(* The same bytes divided in two ways, and a context that is too long.     *)
MCMessages == {<<3>>, <<>>, <<1, 3>>}
MCContexts == {<<>>, <<1>>, [i \in 1 .. 256 |-> 0]}

---------------------------------------------------------------------------
(* Arguments of the transform.                                             *)

Monomial(c, k) == [j \in Coefficients |-> IF j = k THEN c ELSE 0]

Dense == { [j \in 0 .. 7 |-> 256], [j \in 0 .. 7 |-> -256],
           [j \in 0 .. 7 |-> IF j % 2 = 0 THEN 256 ELSE -256],
           [j \in 0 .. 7 |-> 31 * j - 120] }

MCFactors == Dense \union {Monomial(c, k) : c \in {1, -256}, k \in {0, 1, 3, 7}}

(* Arguments of the permutation: sparse states that differ from round to   *)
(* round, and the zero state.                                              *)

Sparse(k) == SubSeq([l \in 1 .. 25 |-> {(7 * l + k) % 64, (l * l * 11) % 64,
                                        (l + 3 * k) % 64}], 1, 25)

PermuteCalls == {[op |-> "permute", lanes |-> Sparse(r + k), round |-> r] :
                    r \in 0 .. 23, k \in {0, 1}}

(* Streams repeat a pattern, which gives each sampler enough coefficients. *)
(* Candidates: below, at, above the modulus, with the top bit set, small.  *)
Triples == {<<0, 224, 255>>, <<1, 224, 127>>, <<0, 224, 127>>, <<7, 1, 128>>}

UniformCalls ==
    [op : {"uniform"}, block : 3 .. 5,
     pattern : {a \o b \o <<5, 0, 0>> \o c : a, b, c \in Triples}]

(* Half bytes 0, 8, 9 and 15.                                              *)
EtaBytes == {0, 8, 9, 15, 128, 137, 144, 159}

EtaCalls ==
    [op : {"eta"}, block : 1 .. 3,
     pattern : {<<a, b, 248, c>> : a, b, c \in EtaBytes}]

ChallengeCalls ==
    [op : {"challenge"}, block : 2 .. 4,
     pattern : {<<a, b, c, d, 0>> : a, b, c, d \in 0 .. 4}]

SampleCalls == UniformCalls \union EtaCalls \union ChallengeCalls

(* Two groups of coefficients: one has a single bit or a bound of its      *)
(* range, the others are at the ends of theirs.                            *)
Formats == <<Coding!polyeta, Coding!polyt1, Coding!polyt0, Coding!polyz, Coding!polyw1>>
Group   == <<2, 4, 8, 2, 2>>      \* coefficients
Low     == <<-4, 0, -4095, -524287, 0>>
High    == <<4, 1023, 4096, 524288, 15>>

Chosen(k) == {v \in {s * 2 ^ b : s \in {1, -1}, b \in 0 .. 19} \union {0, Low[k], High[k]} :
                  Low[k] <= v /\ v <= High[k]}

CodeCalls ==
    UNION {{[op |-> "code", format |-> k,
             a |-> [i \in 1 .. 2 * Group[k] |->
                       IF i = p THEN v ELSE IF i % 2 = 0 THEN w ELSE Low[k]]] :
                p \in 1 .. Group[k] + 1, v \in Chosen(k),
                w \in {Low[k], High[k]}} : k \in DOMAIN Formats}

---------------------------------------------------------------------------
Calls == PermuteCalls \union SampleCalls \union CodeCalls \union {[op |-> "keys"]}

Init == SpongeInit /\ SigningInit /\ EncodingInit /\ NttInit /\ call = Idle

SpongeIdle == \A h \in Handle : phase[h] = "free"
SignerIdle == request = NoRequest
CoderIdle  == coded = NotCoding
RingIdle   == factors = NoFactors

Hash == /\ SignerIdle /\ CoderIdle /\ RingIdle /\ call = Idle
        /\ SpongeNext /\ UNCHANGED <<signingVars, coded, factors, call>>

Sign == /\ SpongeIdle /\ CoderIdle /\ RingIdle /\ call = Idle
        /\ SigningNext /\ UNCHANGED <<spongeVars, coded, factors, call>>

Code == /\ SpongeIdle /\ SignerIdle /\ RingIdle /\ call = Idle
        /\ EncodingNext /\ UNCHANGED <<spongeVars, signingVars, factors, call>>

Multiply == /\ SpongeIdle /\ SignerIdle /\ CoderIdle /\ call = Idle
            /\ NttNext /\ UNCHANGED <<spongeVars, signingVars, coded, call>>

others == <<spongeVars, signingVars, coded, factors>>

Begin ==
    /\ call = Idle /\ SpongeIdle /\ SignerIdle /\ CoderIdle /\ RingIdle
    /\ call' \in Calls
    /\ UNCHANGED others

End == call # Idle /\ call' = Idle /\ UNCHANGED others

Next == Hash \/ Sign \/ Code \/ Multiply \/ Begin \/ End

Spec == Init /\ [][Next]_<<others, call>>

---------------------------------------------------------------------------
(* The table of the program has the powers of 1753, times 2^32, in         *)
(* bit-reversed order, centred; 1753^256 is -1; its f is 2^64 / 256.       *)
RModQ == 4193792      \* 2^32 modulo 8380417

RealPower[k \in 0 .. 255] ==
    LET half == RealPower[k \div 2]
        even == MulMod(half, half)
    IN  IF k = 0 THEN 1 ELSE IF k % 2 = 0 THEN even ELSE MulMod(even, 1753)

Reversed8(k) == FoldLeft(LAMBDA r, b : 2 * r + ((k \div 2 ^ b) % 2), 0, <<0, 1, 2, 3, 4, 5, 6, 7>>)

ASSUME TableAssumption ==
    /\ \A k \in 1 .. 255 : Table!zetas[k + 1] = Centred(MulMod(RModQ, RealPower[Reversed8(k)]))
    /\ MulMod(RealPower[128], RealPower[128]) = 8380416
    /\ MulMod(Table!f, 256) = MulMod(RModQ, RModQ)

---------------------------------------------------------------------------
(***************************************************************************)
(* The merged rounds of fips202.c are the step mappings of the standard,   *)
(* in every round, and 24 of them give the published vector.               *)
(***************************************************************************)
PermutationIsKeccak ==
    call.op = "permute" =>
        /\ Keccak!Bits(Keccak!Round(call.lanes, call.round))
             = Keccak!ReferenceRound(Keccak!Bits(call.lanes), call.round)
        /\ call.round = 0 =>
             Keccak!KeccakF1600_StatePermute([l \in 1 .. 25 |-> {}])[1]
                 = Keccak!FirstLaneOfZero

(***************************************************************************)
(* The block-wise samplers of poly.c take the coefficients that the        *)
(* samplers of the standard take from the unbroken stream: nothing is lost *)
(* or used twice where a block ends, and the challenge has exactly TAU     *)
(* non-zero coefficients.  No two polynomials come from one stream.        *)
(***************************************************************************)
Repeated(pattern) == [i \in 1 .. 60 |-> pattern[((i - 1) % Len(pattern)) + 1]]

OneStreamEach ==
    /\ \A i, k \in 0 .. 5, j, l \in 0 .. 4 :
           Sample!MatrixNonce(i, j) = Sample!MatrixNonce(k, l) => <<i, j>> = <<k, l>>
    /\ {Sample!EtaNonce(0, i) : i \in 0 .. 4} \intersect {Sample!EtaNonce(5, i) : i \in 0 .. 5} = {}
    /\ \A n \in {1, 2, 255, 13106} : \A i, j \in 0 .. 4 :
           /\ Sample!MaskNonce(n, i, 5) # Sample!MaskNonce(n - 1, j, 5)
           /\ Sample!MaskNonce(n, i, 5) # Sample!MaskNonce(0, j, 5)

SamplersFollowStream ==
    /\ call.op = "keys" => OneStreamEach
    /\ call.op = "uniform" =>
         LET s == Repeated(call.pattern)
         IN  Sample!poly_uniform(s, call.block, 1) = Sample!UniformFrom(s, 0, 4)
    /\ call.op = "eta" =>
         LET s == Repeated(call.pattern)
         IN  Sample!poly_uniform_eta(s, call.block, 1) = Sample!EtaFrom(s, 0, 4)
    /\ call.op = "challenge" =>
         LET s == Repeated(call.pattern)
             c == Sample!poly_challenge(s, call.block)
         IN  /\ c = Sample!SampleInBall(s)
             /\ Cardinality({j \in 0 .. 3 : c[j] # 0}) = 2

(***************************************************************************)
(* Packed coefficients (poly.c) are the bit string of the standard and     *)
(* unpack to themselves, over the whole range of each format; w1 is packed *)
(* only.                                                                   *)
(***************************************************************************)
CoefficientsReadBack ==
    call.op = "code" =>
        LET f     == Formats[call.format]
            bytes == Coding!PackPoly(f, call.a, Group[call.format])
        IN  /\ bytes = Coding!BitString(f, call.a)
            /\ f # Coding!polyw1 => Coding!UnpackPoly(f, bytes) = call.a

=============================================================================
