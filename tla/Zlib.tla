-------------------------------- MODULE Zlib --------------------------------
(***************************************************************************)
(* zlib as zutil.c uses it, and what mem_def and mem_inf make of it.       *)
(*                                                                         *)
(* A call is known by what zlib will do with the source it is given: it    *)
(* yields size bytes and then                                              *)
(*   "end"      the stream is complete                                     *)
(*   "short"    the source is used up, the stream is not complete          *)
(*   "corrupt"  Z_DATA_ERROR                                               *)
(*   "dict"     Z_NEED_DICT, before any byte                               *)
(*   "memory"   Z_MEM_ERROR                                                *)
(***************************************************************************)
EXTENDS Integers

CONSTANT Chunk  \* CHUNK, the size of the buffer zlib writes into

ASSUME ChunkAssumption == Chunk \in Nat \ {0}

Fates == {"end", "short", "corrupt", "dict", "memory"}

Returns == {"Z_OK", "Z_STREAM_END", "Z_BUF_ERROR", "Z_DATA_ERROR", "Z_MEM_ERROR",
            "Z_NEED_DICT"}

\* The answer that goes with a fate once every byte is out.
AtEnd(fate) == CASE fate = "end"     -> {"Z_STREAM_END"}
                 [] fate = "short"   -> {"Z_OK", "Z_BUF_ERROR"}
                 [] fate = "corrupt" -> {"Z_DATA_ERROR"}
                 [] fate = "dict"    -> {"Z_NEED_DICT"}
                 [] fate = "memory"  -> {"Z_MEM_ERROR"}

\* What deflate or inflate may return with have bytes in its buffer and left
\* bytes to come. A buffer that is just full with the last byte can hide the end.
Answers(fate, have, left) ==
    IF left > 0 THEN {"Z_OK"}
    ELSE AtEnd(fate) \cup (IF have = Chunk THEN {"Z_OK"} ELSE {})

Outcome(ret, len, copied) == [ret |-> ret, len |-> len, copied |-> copied]

NotSet == -1  \* *dest_len is left as the caller had it

\* k bytes are a number of full chunks.
Chunks(k) == \E q \in 0..k : k = q * Chunk

\* The return value, *dest_len, and the bytes copied to dest: all of them unless an
\* error code comes up, and then all of the chunks before it.
Outcomes(fate, size) ==
    CASE fate = "end"   -> {Outcome("Z_OK", size, size)}
      [] fate = "short" -> {Outcome("Z_DATA_ERROR", size, size)}
      [] OTHER -> {Outcome(IF fate = "memory" THEN "Z_MEM_ERROR" ELSE "Z_DATA_ERROR",
                           NotSet, c) :
                      c \in {k \in 0..size : Chunks(k) /\ size - k <= Chunk}}

\* deflateInit or inflateInit fails.
NoInit == Outcome("Z_MEM_ERROR", NotSet, 0)
=============================================================================
