----------------------------- MODULE MCFindPng3 -----------------------------
(* Small pools of handles for FindPng3, to crawl the sites of MCSites. *)
EXTENDS FindPng3, MCSites

CONSTANTS c1, c2, c3

ThreeConns == {c1, c2, c3}
Either == BOOLEAN
Always == {TRUE}
===============================================================================
