-------------------------------- MODULE Fifo --------------------------------
(***************************************************************************)
(* What a queue promises its users: data comes out in the order it went    *)
(* in, each piece once, until the queue is destroyed.                      *)
(***************************************************************************)
EXTENDS Sequences

CONSTANT Data

VARIABLES
    contents,  \* what is in the queue, the oldest first
    usable     \* the queue has not been destroyed

Init == contents = <<>> /\ usable = TRUE

Put == /\ usable
       /\ \E d \in Data : contents' = Append(contents, d)
       /\ UNCHANGED usable

Get == /\ usable
       /\ contents # <<>>
       /\ contents' = Tail(contents)
       /\ UNCHANGED usable

\* Destruction may discard the contents.
Destroy == /\ usable
           /\ contents' = <<>>
           /\ usable' = FALSE

Next == Put \/ Get \/ Destroy

Spec == Init /\ [][Next]_<<contents, usable>>
===============================================================================
