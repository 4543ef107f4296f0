----------------------------- MODULE MlDsaPoly -----------------------------
(***************************************************************************)
(* Polynomials and vectors of them (poly.c, polyvec.c), on the             *)
(* coefficients of MlDsaRounding.  Ntt shows that transform, pointwise     *)
(* product and inverse transform make the product modulo X^N + 1; here the *)
(* product is taken directly, with its centred representative: the code    *)
(* may hold another one until poly_reduce, which brings every value below  *)
(* 2^22 in absolute value to the same result.                              *)
(***************************************************************************)
EXTENDS MlDsaRounding, MlDsaParams, Sums, Sequences

(* x * y modulo Q for standard representatives, eight bits of y at a time. *)
MulMod(x, y) ==
    LET by(acc, limb) == (((acc * 256) % Q) + ((x * limb) % Q)) % Q
    IN  by(by((x * (y \div 65536)) % Q, (y \div 256) % 256), y % 256)

Centred(v) == LET r == v % Q IN IF r > Q \div 2 THEN r - Q ELSE r

poly_product(a, b) ==
    [j \in Index |-> Centred(SumOf([i \in Index |->
        IF i <= j THEN MulMod(a[i] % Q, b[j - i] % Q)
        ELSE Q - MulMod(a[i] % Q, b[N + j - i] % Q)], N))]

poly_reduce(a)      == [j \in Index |-> reduce32(a[j])]
poly_caddq(a)       == [j \in Index |-> caddq(a[j])]
poly_add(a, b)      == [j \in Index |-> a[j] + b[j]]
poly_sub(a, b)      == [j \in Index |-> a[j] - b[j]]
poly_shiftl(a)      == [j \in Index |-> a[j] * 8192]
poly_power2round(a) == [hi |-> [j \in Index |-> power2round(a[j]).hi],
                        lo |-> [j \in Index |-> power2round(a[j]).lo]]
poly_decompose(a)   == [hi |-> [j \in Index |-> decompose(a[j]).hi],
                        lo |-> [j \in Index |-> decompose(a[j]).lo]]
poly_make_hint(lo, hi) == [j \in Index |-> make_hint(lo[j], hi[j])]
poly_use_hint(a, h)    == [j \in Index |-> use_hint(a[j], h[j])]

(* TRUE: some coefficient is too large, and any is for a bound above Q / 8. *)
poly_chknorm(a, B) ==
    \/ B > (Q - 1) \div 8
    \/ \E j \in Index : (IF a[j] < 0 THEN -a[j] ELSE a[j]) >= B

---------------------------------------------------------------------------
(* Vectors, of length K or L.                                              *)

polyvec_reduce(v)  == [i \in DOMAIN v |-> poly_reduce(v[i])]
polyvec_caddq(v)   == [i \in DOMAIN v |-> poly_caddq(v[i])]
polyvec_add(u, v)  == [i \in DOMAIN u |-> poly_add(u[i], v[i])]
polyvec_sub(u, v)  == [i \in DOMAIN u |-> poly_sub(u[i], v[i])]
polyvec_shiftl(v)  == [i \in DOMAIN v |-> poly_shiftl(v[i])]

polyvec_chknorm(v, bound) == \E i \in DOMAIN v : poly_chknorm(v[i], bound)

polyveck_power2round(v) ==
    [hi |-> [i \in 1 .. K |-> poly_power2round(v[i]).hi],
     lo |-> [i \in 1 .. K |-> poly_power2round(v[i]).lo]]

polyveck_decompose(v) ==
    [hi |-> [i \in 1 .. K |-> poly_decompose(v[i]).hi],
     lo |-> [i \in 1 .. K |-> poly_decompose(v[i]).lo]]

polyveck_make_hint(lo, hi) == [i \in 1 .. K |-> poly_make_hint(lo[i], hi[i])]
polyveck_use_hint(v, h)    == [i \in 1 .. K |-> poly_use_hint(v[i], h[i])]

(* How many ones polyveck_make_hint counts.                                *)
OnesIn(h) == SumOf([i \in 0 .. K - 1 |-> SumOf([j \in Index |-> h[i + 1][j]], N)], K)

(* c times a vector, and a matrix times a vector.                          *)
polyvec_poly_product(c, v) == [i \in DOMAIN v |-> poly_product(c, v[i])]

polyvecl_product_acc(u, v) ==
    [j \in Index |-> Centred(SumOf([i \in 0 .. L - 1 |->
        poly_product(u[i + 1], v[i + 1])[j] % Q], L))]

polyvec_matrix_product(mat, v) == [i \in 1 .. K |-> polyvecl_product_acc(mat[i], v)]

=============================================================================
