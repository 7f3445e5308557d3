----------------------------- MODULE MCFindPng2 -----------------------------
(* Small pools for FindPng2, to crawl the sites of MCSites. *)
EXTENDS FindPng2, MCSites, TLC

CONSTANTS t1, t2, t3, main

TwoThreads   == {t1, t2}
ThreeThreads == {t1, t2, t3}
Symmetry     == Permutations(Threads)
Either       == BOOLEAN
Always       == {TRUE}
===============================================================================
