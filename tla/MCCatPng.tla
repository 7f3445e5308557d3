------------------------------ MODULE MCCatPng ------------------------------
(* Small images of one or two pixels, whole and damaged. *)
EXTENDS CatPng

Whole(height, row, coded) ==
    [png |-> TRUE, height |-> height, row |-> row, coded |-> coded, fate |-> "end",
     yield |-> height * row, reads |-> coded, early |-> 0]

\* Images that deflating made smaller.
Usual == {Whole(1, 5, 4), Whole(2, 5, 10), Whole(1, 9, 6)}

\* One that it made longer, like every image of a single pixel, and one with bytes behind
\* its end that inflate does not read.
Long == {[Whole(1, 5, 13) EXCEPT !.early = 1], [Whole(1, 5, 13) EXCEPT !.reads = 5]}

\* Corrupt data, where mem_inf is told of all of it and where it is not; data that ends
\* before the stream does: just where mem_inf takes it to end, and before.
Damaged == {
    [Whole(2, 5, 4) EXCEPT !.fate = "corrupt", !.yield = 7],
    [Whole(1, 5, 9) EXCEPT !.fate = "corrupt", !.yield = 4, !.reads = 3],
    [Whole(1, 5, 5) EXCEPT !.fate = "short", !.yield = 3],
    [Whole(2, 5, 6) EXCEPT !.fate = "short", !.yield = 7]}

\* Fewer bytes in a row than 4 to the pixel, a size that overflows, and no image at all.
Strange == {
    [Whole(2, 5, 6) EXCEPT !.yield = 8],
    [Whole(7, 5, 20) EXCEPT !.early = 2],
    [Whole(1, 5, 4) EXCEPT !.png = FALSE]}

All == Usual \cup Long \cup Damaged \cup Strange
=============================================================================
