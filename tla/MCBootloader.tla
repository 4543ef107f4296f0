--------------------------- MODULE MCBootloader ----------------------------
(* A small instance of Bootloader: two published images, one that is not   *)
(* bootable, one too small, and a package for every check that can fail.   *)
EXTENDS Bootloader, TLC

CONSTANTS v1, v2, bad, tiny, forged

MCImage == {v1, v2, bad, tiny, forged}
MCPublished == {v1, v2, bad, tiny}
MCTooSmall == {tiny}
MCBootable == {v1, v2, forged}

Good(fw) == [sizeOk |-> TRUE, hdrOk |-> TRUE, keyOk |-> TRUE, fw |-> fw,
             sig |-> TRUE, tagOk |-> TRUE, plain |-> fw]

MCPackages ==
    {Good(fw) : fw \in MCImage}
      \cup {[Good(v1) EXCEPT !.sizeOk = FALSE], [Good(v1) EXCEPT !.hdrOk = FALSE],
            [Good(v1) EXCEPT !.keyOk = FALSE], [Good(v1) EXCEPT !.sig = FALSE],
            [Good(v1) EXCEPT !.tagOk = FALSE, !.plain = Partial],
            [Good(v1) EXCEPT !.plain = v2]}

(* Fewer packages where each state counts several times: liveness.         *)
MCFewPackages == {Good(v1), Good(bad), [Good(v2) EXCEPT !.plain = v1]}

(* An update and a later one.                                              *)
MCGoodPackages == {Good(v1), Good(v2)}
=============================================================================
