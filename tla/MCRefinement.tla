---------------------------- MODULE MCRefinement ----------------------------
EXTENDS BootloaderRefinement

CONSTANTS v1, v2, bad, tiny, forged

MCImage == {v1, v2, bad, tiny, forged}
MCPublished == {v1, v2, bad, tiny}
MCTooSmall == {tiny}
MCBootable == {v1, v2, forged}

Good(fw) == [sizeOk |-> TRUE, hdrOk |-> TRUE, keyOk |-> TRUE, fw |-> fw,
             sig |-> TRUE, tagOk |-> TRUE, plain |-> fw]
MCPackages == {Good(fw) : fw \in MCImage} \cup {[Good(v1) EXCEPT !.plain = v2]}
=============================================================================
