------------------------------- MODULE RecvBuf -------------------------------
(***************************************************************************)
(* The receive buffer of a transfer (curl_helper.c of p4 and p5): memory   *)
(* that recv_buf_init allocates, libcurl's write callback write_cb_curl3   *)
(* fills and enlarges, and recv_buf_cleanup frees. The parser and is_png   *)
(* read it as a text of size bytes with a terminating 0 behind it.         *)
(*                                                                         *)
(* received is a history variable: the bytes libcurl has handed over in    *)
(* calls that did not fail.                                                *)
(***************************************************************************)
EXTENDS Integers, Sequences

CONSTANTS
    BufSize,   \* BUF_SIZE, what recv_buf_init is called with
    BufInc,    \* BUF_INC, the least enlargement
    Bytes,     \* the byte values
    Zero,      \* the terminator
    Junk,      \* what a byte of fresh memory may hold
    MaxChunk   \* the largest chunk libcurl hands over (CURL_MAX_WRITE_SIZE)

ASSUME SizeAssumption ==
    /\ BufSize \in Nat \ {0}
    /\ BufInc \in Nat
    /\ MaxChunk \in Nat

VARIABLES
    state,     \* "none", "live", "broken" (a callback failed) or "freed"
    buf,       \* the memory, a function on 0..max_size - 1
    size,      \* the bytes of data in it
    max_size,  \* its capacity
    received

vars == <<state, buf, size, max_size, received>>

Cells == Bytes \cup {Zero, Junk}

\* Chunks of one to MaxChunk bytes, or none at all.
Chunks == UNION {[1..n -> Bytes] : n \in 0..MaxChunk}

TypeOK ==
    /\ state \in {"none", "live", "broken", "freed"}
    /\ size \in Nat
    /\ max_size \in Nat
    /\ buf \in [0..(max_size - 1) -> Cells]
    /\ received \in Seq(Bytes)

Init == /\ state = "none"
        /\ size = 0
        /\ max_size = 0
        /\ buf = [k \in 0..(max_size - 1) |-> Junk]
        /\ received = <<>>

\* recv_buf_init with memory to be had.
RecvBufInit ==
    /\ state = "none"
    /\ state' = "live"
    /\ size' = 0
    /\ max_size' = BufSize
    /\ buf' = [k \in 0..(max_size' - 1) |-> Junk]
    /\ UNCHANGED received

\* n more bytes and a terminator fit as it is.
Fits(n) == size + n + 1 <= max_size

Larger(a, b) == IF a > b THEN a ELSE b

BugNewSize(n) == max_size + BufInc  \* a chunk above BUF_INC is not provided for

NewSize(n) == max_size + Larger(BufInc, n + 1)

\* The chunk behind the data, and a 0 behind the chunk.
Fill(b, chunk) ==
    [k \in DOMAIN b |-> IF k \in size..(size + Len(chunk) - 1) THEN chunk[k - size + 1]
                        ELSE IF k = size + Len(chunk) THEN Zero
                        ELSE b[k]]

\* realloc keeps the old bytes.
Enlarged(n) == [k \in 0..(n - 1) |-> IF k < max_size THEN buf[k] ELSE Junk]

\* write_cb_curl3: the chunk is stored, in a larger buffer if need be.
Store(chunk) ==
    /\ state = "live"
    /\ \/ /\ Fits(Len(chunk))
          /\ max_size' = max_size
          /\ buf' = Fill(buf, chunk)
       \/ /\ ~Fits(Len(chunk))
          /\ max_size' = NewSize(Len(chunk))
          /\ buf' = Fill(Enlarged(max_size'), chunk)
    /\ size' = size + Len(chunk)
    /\ received' = received \o chunk
    /\ UNCHANGED state

\* write_cb_curl3 without the memory to enlarge: it returns -1, which is not the
\* chunk's length, and libcurl ends the transfer.
OutOfMemory(chunk) ==
    /\ state = "live"
    /\ ~Fits(Len(chunk))
    /\ state' = "broken"
    /\ UNCHANGED <<buf, size, max_size, received>>

\* recv_buf_cleanup.
RecvBufCleanup ==
    /\ state \in {"live", "broken"}
    /\ state' = "freed"
    /\ size' = 0
    /\ max_size' = 0
    /\ buf' = [k \in 0..(max_size' - 1) |-> Junk]
    /\ UNCHANGED received

Next == \/ RecvBufInit
        \/ \E chunk \in Chunks : Store(chunk) \/ OutOfMemory(chunk)
        \/ RecvBufCleanup

Spec == Init /\ [][Next]_vars

Held == state \in {"live", "broken"}

\* The callback never writes outside the buffer: there is room for the data and
\* for its terminator at all times.
InBounds == Held => size + 1 <= max_size

\* The data is what libcurl handed over, in order and complete, and ends in a 0
\* once there is any, however often the buffer was enlarged.
Intact ==
    Held => /\ size = Len(received)
            /\ \A k \in 0..(size - 1) : buf[k] = received[k + 1]
            /\ size > 0 => buf[size] = Zero
===============================================================================
