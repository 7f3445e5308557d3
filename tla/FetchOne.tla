------------------------------ MODULE FetchOne -------------------------------
(***************************************************************************)
(* The programs that fetch a single url through a receive buffer:          *)
(*   write_callback   p2/starter/cURL/main_write_callback.c                *)
(*   write_header_cb  p2/starter/cURL/main_write_header_cb.c               *)
(*   curl_xml         p4/starter/curl_xml/main.c, from which findpng2 has  *)
(*                    its helpers                                          *)
(* Each sets up a buffer and a curl handle, lets libcurl fill the buffer,  *)
(* saves what came and releases everything. The buffer is that of RecvBuf, *)
(* which this module extends: every step is a step of the buffer or leaves *)
(* it alone.                                                               *)
(*                                                                         *)
(* A byte of the model is an element of a page: one of HttpLinks is a link *)
(* that is or resolves to an http address.                                 *)
(***************************************************************************)
EXTENDS RecvBuf

CONSTANTS
    HttpLinks,    \* the elements that find_http prints
    Fragments,    \* what atoi makes of the fragment headers
    MaxRedirs,    \* CURLOPT_MAXREDIRS
    MaxReceived   \* bound: no server sends more

ASSUME FetchAssumption ==
    /\ HttpLinks \subseteq Bytes
    /\ Fragments \subseteq Int
    /\ MaxRedirs \in Nat
    /\ MaxReceived \in Nat

VARIABLES
    program,   \* which of the three this is
    pc,        \* where it is
    globals,   \* curl_global_init has been called and curl_global_cleanup not
    handle,    \* the curl handle: "none", "open" or "closed"
    seq,       \* RECV_BUF's seq
    hops,      \* redirections followed so far
    answer,    \* the answer that is being received, or the last one
    printed,   \* the links that find_http has printed
    file,      \* the file that was written
    exit       \* how the process ended: "none", "ok", "error" or "abort"

fetchVars == <<vars, program, pc, globals, handle, seq, hops, answer, printed, file, exit>>

Programs == {"write_callback", "write_header_cb", "curl_xml"}
HasSeq   == program # "write_callback"
Follows  == program = "curl_xml"   \* sets CURLOPT_FOLLOWLOCATION

\* code is "ok" (below 300), "moved" (with a Location) or "error" (400 and above);
\* lines are the fragment headers; ctype is the Content-Type.
Answers == [code  : {"ok", "moved", "error"},
            ctype : {"html", "png", "other", "none"},
            lines : {<<>>} \cup {<<f>> : f \in Fragments}]

NoAnswer == [code |-> "none", ctype |-> "none", lines |-> <<>>]

\* seq in the name is -1 in names without one.
NoFile == [kind |-> "none", seq |-> -1, data |-> <<>>, whole |-> FALSE, closed |-> TRUE]

FetchTypeOK ==
    /\ TypeOK
    /\ program \in Programs
    /\ pc \in {"start", "perform", "body", "performed", "failed", "stalled", "clean",
               "ended", "undefined"}
    /\ globals \in BOOLEAN
    /\ handle \in {"none", "open", "closed"}
    /\ seq \in Fragments \cup {-1}
    /\ hops \in 0..MaxRedirs
    /\ answer \in Answers \cup {NoAnswer}
    /\ printed \in Seq(HttpLinks)
    /\ file \in [kind : {"none", "html", "png", "plain"}, seq : Fragments \cup {-1},
                 data : Seq(Cells), whole : BOOLEAN, closed : BOOLEAN]
    /\ exit \in {"none", "ok", "error", "abort"}

FetchInit ==
    /\ Init
    /\ program \in Programs
    /\ pc = "start"
    /\ globals = FALSE
    /\ handle = "none"
    /\ seq = -1
    /\ hops = 0
    /\ answer = NoAnswer
    /\ printed = <<>>
    /\ file = NoFile
    /\ exit = "none"

-----------------------------------------------------------------------------
(* Setting up. *)

\* curl_easy_init gives a handle, or the process gives up.
OpenHandle(giveUp) ==
    \/ /\ handle' = "open"
       /\ pc' = "perform"
       /\ exit' = exit
    \/ /\ handle' = handle
       /\ pc' = "ended"
       /\ exit' = giveUp

\* recv_buf_init is not looked at: without memory buf, size and max_size are
\* uninitialized, and what happens then is not followed any further.
Unbuffered ==
    /\ pc' = "undefined"
    /\ UNCHANGED <<vars, globals, handle, exit>>

\* main of main_write_callback.c up to curl_easy_perform.
SetUpWriteCallback ==
    /\ program = "write_callback" /\ pc = "start"
    /\ \/ /\ RecvBufInit
          /\ globals' = TRUE
          /\ OpenHandle("error")
       \/ Unbuffered
    /\ UNCHANGED <<program, seq, hops, answer, printed, file>>

\* main of main_write_header_cb.c up to curl_easy_perform.
SetUpWriteHeaderCb ==
    /\ program = "write_header_cb" /\ pc = "start"
    /\ \/ /\ RecvBufInit
          /\ globals' = TRUE
          /\ OpenHandle("error")
       \/ Unbuffered
    /\ UNCHANGED <<program, seq, hops, answer, printed, file>>

\* easy_handle_init as main of curl_xml calls it; without a handle main cleans up
\* libcurl and aborts.
EasyHandleInit ==
    /\ program = "curl_xml" /\ pc = "start"
    /\ \/ /\ RecvBufInit
          /\ OpenHandle("abort")
          /\ globals' = (handle' = "open")
       \/ /\ pc' = "ended"   \* recv_buf_init failed
          /\ exit' = "abort"
          /\ UNCHANGED <<vars, globals, handle>>
    /\ UNCHANGED <<program, seq, hops, answer, printed, file>>

-----------------------------------------------------------------------------
(* curl_easy_perform. *)

BugHeaderCb(lines) ==  \* the first number stays
    IF lines # <<>> /\ HasSeq /\ seq = -1 THEN lines[Len(lines)] ELSE seq

\* header_cb_curl over an answer's header lines: each fragment header sets seq.
HeaderCb(lines) ==
    IF lines # <<>> /\ HasSeq THEN lines[Len(lines)] ELSE seq

BugRedirected ==  \* no limit is set
    /\ hops' = hops
    /\ pc' = "perform"

\* A redirection is followed to the next answer, MaxRedirs times.
Redirected ==
    \/ hops < MaxRedirs /\ hops' = hops + 1 /\ pc' = "perform"
    \/ hops = MaxRedirs /\ hops' = hops /\ pc' = "failed"

\* The header of an answer. libcurl drops the body of one that it follows.
ReceiveHeader(a) ==
    /\ pc = "perform"
    /\ answer' = a
    /\ seq' = HeaderCb(a.lines)
    /\ IF a.code = "moved" /\ Follows THEN Redirected
                                      ELSE hops' = hops /\ pc' = "body"
    /\ UNCHANGED <<vars, program, globals, handle, printed, file, exit>>

\* Body data, for write_cb_curl3; libcurl fails a transfer whose callback does.
ReceiveBody(chunk) ==
    /\ pc = "body"
    /\ chunk # <<>>
    /\ Len(received) + Len(chunk) <= MaxReceived
    /\ \/ Store(chunk) /\ pc' = pc
       \/ OutOfMemory(chunk) /\ pc' = "failed"
    /\ UNCHANGED <<program, globals, handle, seq, hops, answer, printed, file, exit>>

\* The transfer is over. A connection may break at any time.
PerformReturns ==
    /\ \/ pc = "body" /\ pc' = "performed"
       \/ pc \in {"perform", "body"} /\ pc' = "failed"
    /\ UNCHANGED <<vars, program, globals, handle, seq, hops, answer, printed, file, exit>>

\* The server does not answer any more. The timeouts are commented out in curl_xml
\* and not set in the others: curl_easy_perform waits for good.
Stall ==
    /\ pc \in {"perform", "body"}
    /\ pc' = "stalled"
    /\ UNCHANGED <<vars, program, globals, handle, seq, hops, answer, printed, file, exit>>

-----------------------------------------------------------------------------
(* Saving what came, and releasing everything. *)

\* The data of the buffer, as a sequence.
Data == [k \in 1..size |-> buf[k - 1]]

BugWriteFile(kind, s) ==  \* the capacity is taken for the length
    file' = [kind |-> kind, seq |-> s, data |-> [k \in 1..max_size |-> buf[k - 1]],
             whole |-> TRUE, closed |-> TRUE]

\* write_file: fopen may fail; an incomplete fwrite leaves the file open, and an
\* fclose that fails loses what it had not written yet.
WriteFile(kind, s) ==
    \/ file' = file
    \/ file' = [kind |-> kind, seq |-> s, data |-> Data, whole |-> TRUE, closed |-> TRUE]
    \/ \E n \in 0..(size - 1), closed \in BOOLEAN :
          file' = [kind |-> kind, seq |-> s, data |-> SubSeq(Data, 1, n),
                   whole |-> FALSE, closed |-> closed]

\* write_callback saves whatever came, also of a transfer that failed.
SaveWriteCallback ==
    /\ program = "write_callback" /\ pc \in {"performed", "failed"}
    /\ WriteFile("png", -1)
    /\ pc' = "clean"
    /\ exit' = "ok"
    /\ UNCHANGED <<vars, program, globals, handle, seq, hops, answer, printed>>

\* So does write_header_cb, under a name with the sequence number.
SaveWriteHeaderCb ==
    /\ program = "write_header_cb" /\ pc \in {"performed", "failed"}
    /\ WriteFile("png", seq)
    /\ pc' = "clean"
    /\ exit' = "ok"
    /\ UNCHANGED <<vars, program, globals, handle, seq, hops, answer, printed>>

\* The links of a page, in order, that are or resolve to http addresses.
Links(page) == SelectSeq(page, LAMBDA x : x \in HttpLinks)

\* find_http, which is given the buffer and its size.
FindHttp == Links(Data)

\* find_http, then write_file.
ProcessHtml ==
    /\ printed' = FindHttp
    /\ WriteFile("html", -1)

ProcessPng ==
    /\ WriteFile("png", seq)
    /\ UNCHANGED printed

BugProcessData ==  \* the response code is not looked at
    \/ answer.ctype = "none" /\ UNCHANGED <<printed, file>>
    \/ answer.ctype = "html" /\ ProcessHtml
    \/ answer.ctype = "png" /\ ProcessPng
    \/ answer.ctype = "other" /\ WriteFile("plain", -1) /\ UNCHANGED printed

\* process_data: nothing is done with an error page or without a Content-Type.
ProcessData ==
    \/ /\ answer.code = "error" \/ answer.ctype = "none"
       /\ UNCHANGED <<printed, file>>
    \/ /\ answer.code # "error"
       /\ \/ answer.ctype = "html" /\ ProcessHtml
          \/ answer.ctype = "png" /\ ProcessPng
          \/ answer.ctype = "other" /\ WriteFile("plain", -1) /\ UNCHANGED printed

\* main of curl_xml: a failed transfer ends the program with status 1.
FailedTransfer ==
    /\ program = "curl_xml" /\ pc = "failed"
    /\ pc' = "clean"
    /\ exit' = "error"
    /\ UNCHANGED <<vars, program, globals, handle, seq, hops, answer, printed, file>>

\* process_data's result is ignored: the status is 0.
ProcessTransfer ==
    /\ program = "curl_xml" /\ pc = "performed"
    /\ ProcessData
    /\ pc' = "clean"
    /\ exit' = "ok"
    /\ UNCHANGED <<vars, program, globals, handle, seq, hops, answer>>

BugCleanUp ==  \* the failed transfer's exit skips the handle
    /\ pc = "clean"
    /\ RecvBufCleanup
    /\ handle' = IF exit = "error" THEN handle ELSE "closed"
    /\ globals' = FALSE
    /\ pc' = "ended"
    /\ UNCHANGED <<program, seq, hops, answer, printed, file, exit>>

\* cleanup, and the same three calls at the end of the other programs.
CleanUp ==
    /\ pc = "clean"
    /\ handle' = "closed"
    /\ globals' = FALSE
    /\ RecvBufCleanup
    /\ pc' = "ended"
    /\ UNCHANGED <<program, seq, hops, answer, printed, file, exit>>

-----------------------------------------------------------------------------
Transfer == \/ \E a \in Answers : ReceiveHeader(a)
            \/ \E chunk \in Chunks : ReceiveBody(chunk)
            \/ PerformReturns

Progress == \/ SetUpWriteCallback \/ SetUpWriteHeaderCb \/ EasyHandleInit
            \/ Transfer
            \/ SaveWriteCallback \/ SaveWriteHeaderCb
            \/ FailedTransfer \/ ProcessTransfer
            \/ CleanUp

FetchNext == Progress \/ Stall

\* The process runs, and libcurl goes on with a transfer that has not stalled.
FetchSpec == FetchInit /\ [][FetchNext]_fetchVars /\ WF_fetchVars(Progress)

-----------------------------------------------------------------------------
\* What is saved is what libcurl handed over, complete or, when the disk fails,
\* the beginning of it; no byte of the buffer that is not data gets into a file,
\* and what find_http printed are the links of the page that was saved.
SavedIsReceived ==
    file.kind # "none" =>
        /\ Len(file.data) <= Len(received)
        /\ file.data = SubSeq(received, 1, Len(file.data))
        /\ file.whole => file.data = received
        /\ file.kind = "html" => printed = Links(received)

\* curl_xml saves and prints only what a complete and accepted transfer brought,
\* whatever answers led to it; the other two also keep failed ones, with status 0.
OnlyWholeSaved ==
    file.kind # "none" /\ program = "curl_xml" =>
        exit = "ok" /\ answer.code = "ok" /\ answer.ctype # "none"

\* The number in a file's name is that of the last fragment header: the one that
\* came with the data, if it had one.
NamedByFragment ==
    file.kind = "png" /\ HasSeq /\ answer.lines # <<>> => file.seq = answer.lines[1]

\* A process that got as far as fetching gives back the handle, libcurl and the
\* buffer; only an incomplete write leaves a file open. One that did not aborts or
\* ends with an error.
Released ==
    pc = "ended" =>
        /\ handle # "open"
        /\ handle = "closed" => state = "freed" /\ ~globals
        /\ handle = "none" => exit \in {"error", "abort"} /\ file.kind = "none"
        /\ file.whole => file.closed

\* Unless the server stops answering, which no timeout guards against, every
\* program ends, also when it is redirected over and over.
Ends == <>(pc \in {"ended", "stalled", "undefined"})
===============================================================================
