----------------------------- MODULE MCPngInfo ------------------------------
(* Two small images: bursts of up to 32 bits at many places in their files, and *)
(* files cut off after each byte.                                               *)
EXTENDS PngInfo

CONSTANT Step

Bytes(numbers) == [j \in DOMAIN numbers |-> Bits(numbers[j])]

\* Eight bits, truecolor with alpha.
Header(width, height) == Bytes(<<0, 0, 0, width, 0, 0, 0, height, 8, 6, 0, 0, 0>>)

TwoPictures == {[ihdr |-> Header(1, 1), idat |-> Bytes(<<120, 0, 255>>)],
                [ihdr |-> Header(2, 3), idat |-> <<>>]}

FileBytes == 60  \* of the larger file

Shapes == {{0}, {0, 1}, {0, 5, 13, 31}}

\* The bursts of these shapes in the file, at every Step-th bit.
Bursts == {b \in {{s + e : e \in shape} : s \in {Step * x : x \in 0..(8 * FileBytes)},
                                          shape \in Shapes} : b \subseteq 0..(8 * FileBytes - 1)}

SomeDamages == {[bits |-> {}, cut |-> m] : m \in 0..FileBytes}
               \cup {[bits |-> b, cut |-> FileBytes] : b \in Bursts}
=============================================================================
