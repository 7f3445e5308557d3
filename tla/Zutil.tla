------------------------------- MODULE Zutil --------------------------------
(***************************************************************************)
(* mem_def and mem_inf (p1/src/zutil.c): zlib fills a buffer of CHUNK      *)
(* bytes again and again, and each fill is copied behind the last one in   *)
(* the caller's dest. The loop ends when a fill leaves room.               *)
(*                                                                         *)
(* The k-th byte that zlib yields is the number k, 0 is memory that the    *)
(* call has not written.                                                   *)
(***************************************************************************)
EXTENDS Zlib, Sequences

CONSTANT MaxSize  \* bound of the streams' size

ASSUME SizeAssumption == MaxSize \in Nat

VARIABLES
    fn,        \* "mem_def" or "mem_inf"
    fate,      \* what zlib will do
    size,      \*   with this source
    zpc,
    ret,       \* the last return code of zlib, at the end that of the function
    made,      \* bytes zlib has yielded
    out,       \* the bytes in out, a sequence
    dest,      \* the caller's memory, with just the room for size bytes
    p_dest,    \* offset of the first empty slot in dest
    len,       \* def_len, inf_len
    dest_len   \* *dest_len

zvars == <<fn, fate, size, zpc, ret, made, out, dest, p_dest, len, dest_len>>
call == <<fn, fate, size>>

\* deflate gets all of its source and a room of any size: nothing can go wrong.
FatesOf(f) == IF f = "mem_def" THEN {"end"} ELSE Fates

ZTypeOK ==
    /\ fn \in {"mem_def", "mem_inf"} /\ fate \in FatesOf(fn)
    /\ size \in 0..MaxSize
    /\ zpc \in {"init", "loop", "copy", "leave", "done", "aborted", "overrun"}
    /\ ret \in IF zpc = "done" THEN {"Z_OK", "Z_DATA_ERROR", "Z_MEM_ERROR"} ELSE Returns
    /\ made \in 0..size
    /\ out \in Seq(Nat)
    /\ dest \in [1..size -> Nat]
    /\ p_dest \in Nat /\ len \in Nat
    /\ dest_len \in Nat \cup {NotSet}

ZInit ==
    /\ fn \in {"mem_def", "mem_inf"} /\ fate \in FatesOf(fn)
    /\ size \in (IF fate = "dict" THEN {0} ELSE 0..MaxSize)
    /\ zpc = "init" /\ ret = "Z_OK"
    /\ made = 0 /\ out = <<>>
    /\ dest = [k \in 1..size |-> 0]
    /\ p_dest = 0 /\ len = 0
    /\ dest_len = NotSet

\* deflateInit, inflateInit.
InitStream ==
    /\ zpc = "init"
    /\ \/ ret' = "Z_OK" /\ zpc' = "loop"
       \/ ret' = "Z_MEM_ERROR" /\ zpc' = "done"
    /\ UNCHANGED <<call, made, out, dest, p_dest, len, dest_len>>

\* The bytes that the next call of zlib puts into out.
NextFill == LET have == IF size - made < Chunk THEN size - made ELSE Chunk
            IN  [k \in 1..have |-> made + k]

\* One call of deflate(Z_FINISH) or inflate(Z_NO_FLUSH) into an empty buffer.
CallZlib ==
    /\ zpc = "loop"
    /\ out' = NextFill
    /\ made' = made + Len(out')
    /\ ret' \in Answers(fate, Len(out'), size - made')
    /\ zpc' = "copy"
    /\ UNCHANGED <<call, dest, p_dest, len, dest_len>>

Errors == {"Z_NEED_DICT", "Z_DATA_ERROR", "Z_MEM_ERROR"}

\* The switch of mem_inf: what is in out is dropped.
GiveUp ==
    /\ zpc = "copy" /\ fn = "mem_inf"
    /\ ret \in Errors
    /\ ret' = IF ret = "Z_NEED_DICT" THEN "Z_DATA_ERROR" ELSE ret
    /\ zpc' = "done"
    /\ UNCHANGED <<call, made, out, dest, p_dest, len, dest_len>>

BugMore == ret # "Z_STREAM_END"  \* a stream that is cut off never gets there

\* while (strm.avail_out == 0)
More == Len(out) = Chunk

BugCopy ==  \* p_dest is not advanced
    /\ zpc = "copy"
    /\ ~(fn = "mem_inf" /\ ret \in Errors)
    /\ dest' = [k \in DOMAIN dest |-> IF k \in 1..Len(out) THEN out[k] ELSE dest[k]]
    /\ p_dest' = p_dest
    /\ len' = len + Len(out)
    /\ zpc' = IF More THEN "loop" ELSE "leave"
    /\ UNCHANGED <<call, ret, made, out, dest_len>>

\* memcpy to the first empty slot.
Copy ==
    /\ zpc = "copy"
    /\ ~(fn = "mem_inf" /\ ret \in Errors)
    /\ p_dest' = p_dest + Len(out)
    /\ len' = len + Len(out)
    /\ dest' = [k \in DOMAIN dest |-> IF k \in (p_dest + 1)..p_dest' THEN out[k - p_dest]
                                      ELSE dest[k]]
    /\ zpc' = IF p_dest' > size THEN "overrun" ELSE IF More THEN "loop" ELSE "leave"
    /\ UNCHANGED <<call, ret, made, out, dest_len>>

BugLeave ==  \* a stream that is cut off passes for a whole one
    /\ zpc = "leave"
    /\ dest_len' = len
    /\ ret' = "Z_OK"
    /\ zpc' = "done"
    /\ UNCHANGED <<call, made, out, dest, p_dest, len>>

\* Behind the loop: mem_def asserts that the stream is complete, mem_inf looks.
Leave ==
    /\ zpc = "leave"
    /\ \/ /\ fn = "mem_def" /\ ret # "Z_STREAM_END"
          /\ zpc' = "aborted"
          /\ UNCHANGED <<ret, dest_len>>
       \/ /\ fn = "mem_inf" \/ ret = "Z_STREAM_END"
          /\ dest_len' = len
          /\ ret' = IF ret = "Z_STREAM_END" THEN "Z_OK" ELSE "Z_DATA_ERROR"
          /\ zpc' = "done"
    /\ UNCHANGED <<call, made, out, dest, p_dest, len>>

ZNext == InitStream \/ CallZlib \/ GiveUp \/ Copy \/ Leave

ZSpec == ZInit /\ [][ZNext]_zvars
ZFairSpec == ZSpec /\ WF_zvars(ZNext)

(***************************************************************************)
(* What a call promises its caller.                                        *)
(***************************************************************************)

\* dest holds the beginning of the stream, in order, as far as the chunks were
\* copied, and nothing else: no fill is lost, repeated, misplaced or written
\* behind the room the caller gave.
Copied ==
    /\ zpc # "overrun"
    /\ p_dest <= made
    /\ \A k \in DOMAIN dest : dest[k] = IF k <= p_dest THEN k ELSE 0

\* The function keeps the contract that its caller counts on: success means the
\* whole stream and its length, an error leaves *dest_len alone or tells how far
\* it came. mem_def's assertions hold.
Contract ==
    /\ zpc # "aborted"
    /\ zpc = "done" => Outcome(ret, dest_len, p_dest) \in Outcomes(fate, size) \cup {NoInit}

\* The loop ends, also for streams whose size is a multiple of CHUNK.
Termination == <>(zpc = "done")
=============================================================================
