-------------------------------- MODULE Sums --------------------------------
EXTENDS Integers

(* A function from 0 .. n - 1, added up.                                   *)
SumOf(f, n) == LET s[i \in 0 .. n] == IF i = 0 THEN 0 ELSE s[i - 1] + f[i - 1]
               IN  s[n]

=============================================================================
