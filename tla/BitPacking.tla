----------------------------- MODULE BitPacking -----------------------------
(***************************************************************************)
(* Coefficients as bits (poly.c, the pack and unpack functions).  The      *)
(* shifts and ORs of one group of coefficients are a table: a piece        *)
(* <<i, s>> is source i shifted right by s (left for s < 0).  A byte or a  *)
(* coefficient is the set of its 1 bits, so that OR is union, the cast to  *)
(* uint8_t cuts at bit 8 and a mask cuts at its width.                     *)
(***************************************************************************)
EXTENDS Integers, Sequences

BitsOf(v, width) == {b \in 0 .. width - 1 : (v \div 2 ^ b) % 2 = 1}

ValueOf(bits) ==
    LET sum[b \in 0 .. 20] == IF b = 0 THEN 0
                              ELSE sum[b - 1] + (IF b - 1 \in bits THEN 2 ^ (b - 1) ELSE 0)
    IN  sum[20]

(* OR of the pieces, cut at width bits.                                    *)
Gather(pieces, source, width) ==
    {b \in 0 .. width - 1 : \E p \in pieces : b + p[2] \in source[p[1]]}

(* width: bits of a coefficient; offset: t = offset - a is what is stored  *)
(* (sign: -1), or a itself (sign: 1, offset 0).  pack: the pieces of each  *)
(* byte of a group; unpack: the pieces of each coefficient.                *)

polyeta == [width |-> 4, sign |-> -1, offset |-> 4,
    pack   |-> << {<<1, 0>>, <<2, -4>>} >>,
    unpack |-> << {<<1, 0>>}, {<<1, 4>>} >>]

polyt1 == [width |-> 10, sign |-> 1, offset |-> 0,
    pack   |-> << {<<1, 0>>}, {<<1, 8>>, <<2, -2>>}, {<<2, 6>>, <<3, -4>>},
                  {<<3, 4>>, <<4, -6>>}, {<<4, 2>>} >>,
    unpack |-> << {<<1, 0>>, <<2, -8>>}, {<<2, 2>>, <<3, -6>>},
                  {<<3, 4>>, <<4, -4>>}, {<<4, 6>>, <<5, -2>>} >>]

polyt0pack ==
    << {<<1, 0>>}, {<<1, 8>>, <<2, -5>>}, {<<2, 3>>}, {<<2, 11>>, <<3, -2>>},
       {<<3, 6>>, <<4, -7>>}, {<<4, 1>>}, {<<4, 9>>, <<5, -4>>}, {<<5, 4>>},
       {<<5, 12>>, <<6, -1>>}, {<<6, 7>>, <<7, -6>>}, {<<7, 2>>},
       {<<7, 10>>, <<8, -3>>}, {<<8, 5>>} >>

polyt0unpack ==
    << {<<1, 0>>, <<2, -8>>}, {<<2, 5>>, <<3, -3>>, <<4, -11>>},
       {<<4, 2>>, <<5, -6>>}, {<<5, 7>>, <<6, -1>>, <<7, -9>>},
       {<<7, 4>>, <<8, -4>>, <<9, -12>>}, {<<9, 1>>, <<10, -7>>},
       {<<10, 6>>, <<11, -2>>, <<12, -10>>}, {<<12, 3>>, <<13, -5>>} >>

polyt0 == [width |-> 13, sign |-> -1, offset |-> 4096,
           pack |-> polyt0pack, unpack |-> polyt0unpack]

(* Mutant: the second coefficient is shifted one bit too few.              *)
polyzpackShort == << {<<1, 0>>}, {<<1, 8>>}, {<<1, 16>>, <<2, -3>>}, {<<2, 4>>}, {<<2, 12>>} >>

polyzpack   == << {<<1, 0>>}, {<<1, 8>>}, {<<1, 16>>, <<2, -4>>}, {<<2, 4>>}, {<<2, 12>>} >>
polyzunpack == << {<<1, 0>>, <<2, -8>>, <<3, -16>>}, {<<3, 4>>, <<4, -4>>, <<5, -12>>} >>

polyz == [width |-> 20, sign |-> -1, offset |-> 524288,
          pack |-> polyzpack, unpack |-> polyzunpack]

(* w1 is only packed, for the hash.                                        *)
polyw1 == [width |-> 4, sign |-> 1, offset |-> 0,
           pack |-> << {<<1, 0>>, <<2, -4>>} >>]

(* One group of coefficients a[1], a[2], ... to its bytes.  The stored     *)
(* value is an unsigned word: 21 bits of it are more than any piece takes. *)
PackGroup(f, a) ==
    LET t == [i \in DOMAIN a |-> BitsOf((f.offset + f.sign * a[i]) % 2 ^ 21, 21)]
    IN  [n \in DOMAIN f.pack |-> Gather(f.pack[n], t, 8)]

UnpackGroup(f, bytes) ==
    [i \in DOMAIN f.unpack |->
        f.offset + f.sign * ValueOf(Gather(f.unpack[i], bytes, f.width))]

(* The groups of a polynomial follow each other.                           *)
PackPoly(f, a, size) ==
    LET bytes == Len(f.pack)
    IN  [n \in 1 .. (Len(a) \div size) * bytes |->
            LET g == (n - 1) \div bytes
            IN  PackGroup(f, SubSeq(a, g * size + 1, (g + 1) * size))
                    [((n - 1) % bytes) + 1]]

UnpackPoly(f, s) ==
    LET bytes == Len(f.pack)
        size  == Len(f.unpack)
    IN  [i \in 1 .. (Len(s) \div bytes) * size |->
            LET g == (i - 1) \div size
            IN  UnpackGroup(f, SubSeq(s, g * bytes + 1, (g + 1) * bytes))
                    [((i - 1) % size) + 1]]

---------------------------------------------------------------------------
(* The bit string of FIPS 204: bit b of coefficient i is bit               *)
(* (i - 1) * width + b of the string.                                      *)
BitString(f, a) ==
    LET t == [i \in DOMAIN a |-> f.offset + f.sign * a[i]]
    IN  [n \in 1 .. (Len(a) * f.width) \div 8 |->
            {b \in 0 .. 7 : LET at == 8 * (n - 1) + b
                            IN  (t[(at \div f.width) + 1] \div 2 ^ (at % f.width)) % 2 = 1}]

=============================================================================
