---------------------------- MODULE MCPublishing ----------------------------
(* An image of the smallest size that boots, one that is too large; the    *)
(* damage makes sizes in between.  Nothing distinguishes the publishers.   *)
EXTENDS Publishing, TLC

CONSTANTS own, other

MCImages     == {<<"image", "v1", 8>>, <<"image", "large", 10>>}
MCPublishers == {own, other}
Symmetry     == Permutations(MCPublishers)
=============================================================================
