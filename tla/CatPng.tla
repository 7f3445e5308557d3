------------------------------- MODULE CatPng -------------------------------
(***************************************************************************)
(* catpng (p1/src/catpng.c): the images named by the arguments are read,   *)
(* inflated one behind the other into one array of pixel rows, and the     *)
(* array is deflated again and written as one image.                       *)
(*                                                                         *)
(* A file is a record                                                      *)
(*   png     its signature is that of a PNG                                *)
(*   height, row   rows, and bytes in a row (4 * width + 1)                *)
(*   coded   bytes of its IDAT data, and of the memory it is read into     *)
(*   fate, yield   what inflating that data does (module Zlib)             *)
(*   reads   bytes of it that inflate reads until then                     *)
(*   early   bytes that the first InfLen of it yield, if they are fewer    *)
(*                                                                         *)
(* Byte j of the k-th argument's pixels is the pair <<k, j>>.              *)
(***************************************************************************)
EXTENDS Zlib, Sequences

CONSTANTS
    Files,     \* the files an argument may name
    MaxArgs,   \* bound of the number of arguments
    Word,      \* 2^32, the range of a U32
    Overhead   \* bytes by which deflating may lengthen the data

ASSUME WordAssumption == Word \in Nat \ {0} /\ Overhead \in Nat /\ MaxArgs \in Nat

\* The beginning of a stream yields no more than all of it, and one that is not complete
\* is read to its end.
ASSUME FileAssumption ==
    \A f \in Files :
        /\ f \in [png : BOOLEAN, height : Nat, row : Nat, coded : Nat, fate : Fates,
                  yield : Nat, reads : Nat, early : Nat]
        /\ f.early <= f.yield
        /\ f.reads <= f.coded
        /\ f.fate = "short" => f.reads = f.coded

Junk == <<0, 0>>  \* what malloc left

VARIABLES
    args, pc,
    i,              \* the argument at hand
    total_inf_len, total_height,
    inf_png,        \* the rows of all images, a function on 1..total_inf_len
    cur_ind,        \* where the next image goes in it
    results,        \* what mem_inf returned for each image so far (not kept by the code)
    output          \* all.png: its height, bytes in a row, and pixels

vars == <<args, pc, i, total_inf_len, total_height, inf_png, cur_ind, results, output>>

NoOutput == [height |-> 0, row |-> 0, pixels |-> <<>>, whole |-> FALSE]

Init ==
    /\ args \in UNION {[1..n -> Files] : n \in 1..MaxArgs}
    /\ pc = "read" /\ i = 1
    /\ total_inf_len = 0 /\ total_height = 0
    /\ inf_png = <<>> /\ cur_ind = 0
    /\ results = <<>> /\ output = NoOutput

\* malloc(n)
Fresh(n) == [p \in 1..n |-> Junk]

BugInfLen(f) == (f.height * (f.row - 1)) % Word  \* the filter byte of each row is forgotten

\* ntohl(height) * (ntohl(width) * 4 + 1), in 32 bits.
InfLen(f) == (f.height * f.row) % Word

\* One turn of the first loop. readpng's result is not looked at: a file that is no
\* PNG leaves the pointers to its chunks uninitialized.
ReadPng ==
    /\ pc = "read"
    /\ \/ /\ ~args[i].png
          /\ pc' = "undefined"
          /\ UNCHANGED <<i, total_inf_len, total_height, inf_png>>
       \/ /\ args[i].png
          /\ total_inf_len' = total_inf_len + InfLen(args[i])
          /\ total_height' = (total_height + args[i].height) % Word
          /\ \/ /\ i < Len(args)
                /\ i' = i + 1
                /\ UNCHANGED <<pc, inf_png>>
             \/ /\ i = Len(args)
                /\ i' = 1
                /\ inf_png' = Fresh(total_inf_len')
                /\ pc' = "inflate"
    /\ UNCHANGED <<args, cur_ind, results, output>>

\* mem_inf is told that the source is as long as the pixels, not as the IDAT data. That is
\* enough if inflate need not read more of it.
Fits(f) == f.reads <= InfLen(f)

\* It is too much for a stream that is not complete (the first of several IDAT chunks,
\* say): inflate goes on with what lies in memory behind it.
ReadsBehind(f) == f.fate = "short" /\ f.coded < InfLen(f)

\* What a call of mem_inf may come to as long as it reads the IDAT data only.
Inflated(f) ==
    {NoInit} \cup IF ReadsBehind(f) THEN {}
                 ELSE IF Fits(f) THEN Outcomes(f.fate, f.yield)
                                 ELSE Outcomes("short", f.early)

\* The memory after the image's first n bytes have been put behind cur_ind.
Placed(n) == [p \in DOMAIN inf_png |-> IF p \in (cur_ind + 1)..(cur_ind + n)
                                       THEN <<i, p - cur_ind>> ELSE inf_png[p]]

AfterInflate ==
    /\ i' = i + 1
    /\ pc' = IF i = Len(args) THEN "deflate" ELSE "inflate"

BugInflate ==  \* the next image goes behind what came of this one
    /\ pc = "inflate"
    /\ \E o \in Inflated(args[i]) :
          /\ cur_ind + o.copied <= total_inf_len
          /\ inf_png' = Placed(o.copied)
          /\ cur_ind' = cur_ind + o.copied
          /\ results' = Append(results, o.ret)
    /\ AfterInflate
    /\ UNCHANGED <<args, total_inf_len, total_height, output>>

\* One turn of the second loop: mem_inf's result and length are ignored, and the next
\* image goes where this one should end.
Inflate ==
    /\ pc = "inflate"
    /\ \/ \E o \in Inflated(args[i]) :
             /\ cur_ind + o.copied <= total_inf_len
             /\ inf_png' = Placed(o.copied)
             /\ cur_ind' = cur_ind + InfLen(args[i])
             /\ results' = Append(results, o.ret)
             /\ AfterInflate
       \/ /\ \/ ReadsBehind(args[i])
             \/ \E o \in Inflated(args[i]) : cur_ind + o.copied > total_inf_len
          /\ pc' = "undefined"
          /\ UNCHANGED <<i, inf_png, cur_ind, results>>
    /\ UNCHANGED <<args, total_inf_len, total_height, output>>

BugWrite(whole) ==  \* the height is that of the last image
    [height |-> args[Len(args)].height, row |-> args[1].row, whole |-> whole,
     pixels |-> IF whole THEN inf_png ELSE <<>>]

\* The image that is written: the first one's header with the sum of the heights.
\* Without memory for deflating its data is empty.
Write(whole) ==
    [height |-> total_height, row |-> args[1].row, whole |-> whole,
     pixels |-> IF whole THEN inf_png ELSE <<>>]

\* mem_def into a buffer of total_inf_len bytes, which it overruns if deflating makes
\* the data longer, and the output file.
DeflateAndWrite ==
    /\ pc = "deflate"
    /\ \/ \E n \in 1..(total_inf_len + Overhead) :
             IF n <= total_inf_len THEN output' = Write(TRUE) /\ pc' = "done"
             ELSE pc' = "overrun" /\ UNCHANGED output
       \/ output' = Write(FALSE) /\ pc' = "done"
    /\ UNCHANGED <<args, i, total_inf_len, total_height, inf_png, cur_ind, results>>

Next == ReadPng \/ Inflate \/ DeflateAndWrite

Spec == Init /\ [][Next]_vars

(***************************************************************************)
(* What the concatenation is worth.                                        *)
(***************************************************************************)

\* An image with no more rows than its header says, of a size that can be computed.
Tame(f) == f.png /\ f.yield <= f.height * f.row /\ f.height * f.row < Word

\* A whole image, with all of its rows.
Sound(f) == Tame(f) /\ f.fate = "end" /\ f.yield = f.height * f.row

InfSum[n \in 0..Len(args)] == IF n = 0 THEN 0 ELSE InfSum[n - 1] + InfLen(args[n])

\* What is wrong with one image stays within it: in an output that is written at all,
\* every whole image that inflated is where it belongs, next to images that are corrupt,
\* cut off, too long for what mem_inf is told, or of another size than their headers say
\* (mem_inf's result is ignored by main). Of "undefined" it says nothing; StaysInRoom
\* says which images do not lead there.
DamageContained ==
    pc = "done" /\ output.whole =>
        \A k \in DOMAIN args :
            Sound(args[k]) /\ results[k] = "Z_OK" =>
                \A j \in 1..InfLen(args[k]) : output.pixels[InfSum[k - 1] + j] = <<k, j>>

\* For whole images of whose IDAT data inflate need not read more than mem_inf is told
\* of, as far as there was memory, the output is all their rows in the order of the
\* arguments, and if they are equally wide its header describes it. The condition is
\* needed: images of a few pixels do not meet it, and are lost (catpng.c:85).
Concatenated ==
    /\ pc = "done" /\ output.whole /\ total_inf_len < Word
    /\ \A k \in DOMAIN args : Sound(args[k]) /\ Fits(args[k]) /\ results[k] # "Z_MEM_ERROR"
    => /\ \A k \in DOMAIN args : \A j \in 1..InfLen(args[k]) :
             output.pixels[InfSum[k - 1] + j] = <<k, j>>
       /\ (\A k \in DOMAIN args : args[k].row = args[1].row)
             => Len(output.pixels) = output.height * output.row

\* Reading and inflating images, damaged ones too, follows no uninitialized pointer, writes
\* no memory behind the end of inf_png and reads none behind the IDAT data, if they
\* have no more rows than their headers say and mem_inf is not told of more data than
\* there is of a stream that is not complete. (mem_def may overrun def_png all the same,
\* catpng.c:91, and reads what malloc left where an image did not inflate.)
StaysInRoom ==
    (\A k \in DOMAIN args : Tame(args[k]) /\ ~ReadsBehind(args[k])) => pc # "undefined"
=============================================================================
