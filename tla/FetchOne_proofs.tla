--------------------------- MODULE FetchOne_proofs ---------------------------
(***************************************************************************)
(* The write callback stays inside its buffer and keeps the data, for      *)
(* every buffer size, increment and chunk size. The capacity bounds the    *)
(* data only because an enlargement provides for the chunk at hand, so the *)
(* three invariants are proved together.                                   *)
(*                                                                         *)
(* The programs that fetch one url use the buffer as it is meant to be     *)
(* used, so what is proved of the buffer holds in them; what they save is  *)
(* what they received; and they release what they acquired. For every      *)
(* buffer size, chunk size, limit of redirections and body.                *)
(***************************************************************************)
EXTENDS FetchOne, TLAPS

-------------------------------------------------------------------------------
(* The buffer, under its own specification. *)

\* Nothing is received before the buffer is there.
Fresh == state = "none" => received = <<>>

RecvInv == TypeOK /\ InBounds /\ Intact /\ Fresh

\* A chunk is a sequence of bytes.
LEMMA ChunkType ==
    ASSUME NEW chunk \in Chunks
    PROVE  chunk \in Seq(Bytes) /\ Len(chunk) \in Nat
<1>1. PICK n \in 0..MaxChunk : chunk \in [1..n -> Bytes]
  BY DEF Chunks
<1>2. n \in Nat
  BY SizeAssumption
<1> QED BY <1>1, <1>2

\* A buffer of a given capacity, filled, is a buffer of that capacity.
LEMMA FillType ==
    ASSUME NEW m \in Nat, NEW b \in [0..(m - 1) -> Cells], size \in Nat,
           NEW chunk \in Seq(Bytes)
    PROVE  Fill(b, chunk) \in [0..(m - 1) -> Cells]
<1> SUFFICES ASSUME NEW k \in 0..(m - 1)
             PROVE  Fill(b, chunk)[k] \in Cells
  BY DEF Fill
<1>1. CASE k \in size..(size + Len(chunk) - 1)
  <2>1. k - size + 1 \in 1..Len(chunk)
    BY <1>1
  <2>2. chunk[k - size + 1] \in Bytes
    BY <2>1
  <2> QED BY <1>1, <2>2 DEF Fill, Cells
<1>2. CASE k \notin size..(size + Len(chunk) - 1)
  BY <1>2 DEF Fill, Cells
<1> QED BY <1>1, <1>2

\* What Fill writes is the chunk behind the data and a 0 behind the chunk, if
\* there is room for both; the data stays.
LEMMA FillKeeps ==
    ASSUME NEW m \in Nat, NEW b \in [0..(m - 1) -> Cells], size \in Nat,
           NEW chunk \in Seq(Bytes), size + Len(chunk) + 1 <= m
    PROVE  /\ \A k \in 0..(size - 1) : Fill(b, chunk)[k] = b[k]
           /\ \A k \in size..(size + Len(chunk) - 1) :
                 Fill(b, chunk)[k] = chunk[k - size + 1]
           /\ Fill(b, chunk)[size + Len(chunk)] = Zero
<1>1. Len(chunk) \in Nat /\ DOMAIN b = 0..(m - 1)
  OBVIOUS
<1>2. ASSUME NEW k \in 0..(size - 1)
      PROVE  Fill(b, chunk)[k] = b[k]
  BY <1>1 DEF Fill
<1>3. ASSUME NEW k \in size..(size + Len(chunk) - 1)
      PROVE  Fill(b, chunk)[k] = chunk[k - size + 1]
  BY <1>1 DEF Fill
<1>4. Fill(b, chunk)[size + Len(chunk)] = Zero
  BY <1>1 DEF Fill
<1> QED BY <1>2, <1>3, <1>4

\* An enlargement leaves room for the chunk and its terminator.
LEMMA Room ==
    ASSUME max_size \in Nat, size \in Nat, size + 1 <= max_size, NEW n \in Nat
    PROVE  /\ NewSize(n) \in Nat
           /\ max_size <= NewSize(n)
           /\ size + n + 1 <= NewSize(n)
BY SizeAssumption DEF NewSize, Larger

\* An enlarged buffer is a buffer, with the old bytes at their place.
LEMMA EnlargedType ==
    ASSUME max_size \in Nat, buf \in [0..(max_size - 1) -> Cells], NEW n \in Nat
    PROVE  /\ Enlarged(n) \in [0..(n - 1) -> Cells]
           /\ \A k \in 0..(n - 1) : k < max_size => Enlarged(n)[k] = buf[k]
<1>1. ASSUME NEW k \in 0..(n - 1), k < max_size
      PROVE  buf[k] \in Cells
  BY <1>1
<1> QED BY <1>1 DEF Enlarged, Cells

\* Whatever buffer the chunk goes to, if it holds the old data and has room,
\* then the invariant holds of the result.
LEMMA Stored ==
    ASSUME RecvInv, state = "live", NEW chunk \in Chunks,
           NEW m \in Nat, NEW b \in [0..(m - 1) -> Cells],
           max_size' = m, buf' = Fill(b, chunk),
           size + Len(chunk) + 1 <= m,
           \A k \in 0..(size - 1) : b[k] = buf[k],
           size' = size + Len(chunk), received' = received \o chunk,
           state' = state
    PROVE  RecvInv'
<1>1. chunk \in Seq(Bytes) /\ Len(chunk) \in Nat
  BY ChunkType
<1>2. /\ size \in Nat
      /\ received \in Seq(Bytes)
      /\ size = Len(received)
      /\ \A k \in 0..(size - 1) : buf[k] = received[k + 1]
  BY DEF RecvInv, TypeOK, Intact, Held
<1>3. TypeOK'
  <2>1. buf' \in [0..(m - 1) -> Cells]
    BY <1>1, <1>2, FillType
  <2> QED BY <2>1, <1>1, <1>2 DEF TypeOK
<1>4. InBounds'
  BY <1>1, <1>2 DEF InBounds
<1>5. Intact'
  <2>1. size' = Len(received')
    BY <1>1, <1>2
  <2>2. /\ \A k \in 0..(size - 1) : buf'[k] = b[k]
        /\ \A k \in size..(size + Len(chunk) - 1) : buf'[k] = chunk[k - size + 1]
        /\ buf'[size + Len(chunk)] = Zero
    BY <1>1, <1>2, FillKeeps
  <2>3. ASSUME NEW k \in 0..(size' - 1)
        PROVE  buf'[k] = received'[k + 1]
    <3>1. CASE k < size
      <4>1. k \in 0..(size - 1)
        BY <3>1, <1>2
      <4>2. received'[k + 1] = received[k + 1]
        BY <4>1, <1>1, <1>2
      <4>3. buf'[k] = buf[k] /\ buf[k] = received[k + 1]
        BY <4>1, <2>2, <1>2
      <4> QED BY <4>2, <4>3
    <3>2. CASE ~(k < size)
      <4>1. k \in size..(size + Len(chunk) - 1)
        BY <3>2, <1>1, <1>2
      <4>2. received'[k + 1] = chunk[k - size + 1]
        BY <4>1, <1>1, <1>2
      <4> QED BY <4>1, <4>2, <2>2
    <3> QED BY <3>1, <3>2
  <2> QED BY <2>1, <2>2, <2>3 DEF Intact
<1>6. Fresh'
  BY DEF Fresh
<1> QED BY <1>3, <1>4, <1>5, <1>6 DEF RecvInv

LEMMA StorePreserves ==
    ASSUME RecvInv, NEW chunk \in Chunks, Store(chunk)
    PROVE  RecvInv'
<1>1. /\ state = "live" /\ max_size \in Nat /\ size \in Nat
      /\ buf \in [0..(max_size - 1) -> Cells]
      /\ size + 1 <= max_size
  BY DEF RecvInv, TypeOK, InBounds, Held, Store
<1>2. Len(chunk) \in Nat
  BY ChunkType
<1>3. /\ size' = size + Len(chunk)
      /\ received' = received \o chunk
      /\ state' = state
  BY DEF Store
<1>4. CASE Fits(Len(chunk))
  <2>1. max_size' = max_size /\ buf' = Fill(buf, chunk)
    BY <1>4 DEF Store
  <2>2. size + Len(chunk) + 1 <= max_size
    BY <1>4 DEF Fits
  <2> QED BY <1>1, <1>3, <2>1, <2>2, Stored
<1>5. CASE ~Fits(Len(chunk))
  <2> DEFINE m == NewSize(Len(chunk))
             b == Enlarged(m)
  <2>1. max_size' = m /\ buf' = Fill(b, chunk)
    BY <1>5 DEF Store
  <2>2. m \in Nat /\ max_size <= m /\ size + Len(chunk) + 1 <= m
    BY <1>1, <1>2, Room
  <2>3. /\ b \in [0..(m - 1) -> Cells]
        /\ \A k \in 0..(m - 1) : k < max_size => b[k] = buf[k]
    BY <1>1, <2>2, EnlargedType
  <2>4. \A k \in 0..(size - 1) : b[k] = buf[k]
    <3> HIDE DEF m, b
    <3> QED BY <1>1, <2>2, <2>3
  <2> HIDE DEF m, b
  <2> QED BY <1>1, <1>3, <2>1, <2>2, <2>3, <2>4, Stored
<1> QED BY <1>4, <1>5

LEMMA RecvNext ==
    ASSUME RecvInv, [Next]_vars
    PROVE  RecvInv'
<1>1. CASE RecvBufInit
  <2>1. received = <<>>
    BY <1>1 DEF RecvInv, Fresh, RecvBufInit
  <2> QED BY <1>1, <2>1, SizeAssumption
       DEF RecvInv, TypeOK, InBounds, Intact, Fresh, Held, RecvBufInit, Cells
<1>2. ASSUME NEW chunk \in Chunks, Store(chunk)
      PROVE  RecvInv'
  BY <1>2, StorePreserves
<1>3. ASSUME NEW chunk \in Chunks, OutOfMemory(chunk)
      PROVE  RecvInv'
  BY <1>3 DEF RecvInv, TypeOK, InBounds, Intact, Fresh, Held, OutOfMemory
<1>4. CASE RecvBufCleanup
  BY <1>4 DEF RecvInv, TypeOK, InBounds, Intact, Fresh, Held, RecvBufCleanup
<1>5. CASE UNCHANGED vars
  BY <1>5 DEF RecvInv, TypeOK, InBounds, Intact, Fresh, Held, vars
<1> QED BY <1>1, <1>2, <1>3, <1>4, <1>5 DEF Next

\* The invariant holds of every behaviour.
THEOREM RecvInvariant == Spec => []RecvInv
<1>1. Init => RecvInv
  BY DEF Init, RecvInv, TypeOK, InBounds, Intact, Fresh, Held
<1>2. RecvInv /\ [Next]_vars => RecvInv'
  BY RecvNext
<1> QED BY <1>1, <1>2, PTL DEF Spec

\* write_cb_curl3 never writes outside its buffer.
THEOREM InBoundsHolds == Spec => []InBounds
<1>1. RecvInv => InBounds
  BY DEF RecvInv
<1> QED BY <1>1, RecvInvariant, PTL

\* The buffer holds what libcurl handed over, in order and complete.
THEOREM IntactHolds == Spec => []Intact
<1>1. RecvInv => Intact
  BY DEF RecvInv
<1> QED BY <1>1, RecvInvariant, PTL

-------------------------------------------------------------------------------
(* The programs use it as it is meant to be used. *)

LEMMA StepsOfTheBuffer ==
    ASSUME [FetchNext]_fetchVars
    PROVE  [Next]_vars
<1>1. ASSUME NEW chunk \in Chunks, ReceiveBody(chunk)
      PROVE  [Next]_vars
  BY <1>1 DEF ReceiveBody, Next
<1>2. CASE SetUpWriteCallback
  BY <1>2 DEF SetUpWriteCallback, Unbuffered, Next
<1>3. CASE SetUpWriteHeaderCb
  BY <1>3 DEF SetUpWriteHeaderCb, Unbuffered, Next
<1>4. CASE EasyHandleInit
  BY <1>4 DEF EasyHandleInit, Next
<1>5. CASE CleanUp
  BY <1>5 DEF CleanUp, Next
<1>6. ASSUME NEW a \in Answers, ReceiveHeader(a)
      PROVE  UNCHANGED vars
  BY <1>6 DEF ReceiveHeader
<1>7. CASE PerformReturns \/ Stall
  BY <1>7 DEF PerformReturns, Stall
<1>8. CASE SaveWriteCallback \/ SaveWriteHeaderCb
  BY <1>8 DEF SaveWriteCallback, SaveWriteHeaderCb
<1>9. CASE FailedTransfer \/ ProcessTransfer
  BY <1>9 DEF FailedTransfer, ProcessTransfer
<1>10. CASE UNCHANGED fetchVars
  BY <1>10 DEF fetchVars
<1> QED BY <1>1, <1>2, <1>3, <1>4, <1>5, <1>6, <1>7, <1>8, <1>9, <1>10
     DEF FetchNext, Progress, Transfer

\* Every step of these programs is a step of their buffer, or leaves it alone.
THEOREM UsesTheBuffer == FetchSpec => Spec
<1>1. FetchInit => Init
  BY DEF FetchInit
<1>2. [FetchNext]_fetchVars => [Next]_vars
  BY StepsOfTheBuffer
<1> QED BY <1>1, <1>2, PTL DEF FetchSpec, Spec

\* So they never write outside it.
THEOREM FetchInBounds == FetchSpec => []InBounds
BY UsesTheBuffer, InBoundsHolds, PTL

-----------------------------------------------------------------------------
(* What is acquired and saved at each place. *)

Fetching == {"perform", "body", "performed", "failed", "stalled", "clean"}

Stages ==
    /\ program \in Programs
    /\ pc \in {"start", "ended", "undefined"} \cup Fetching
    /\ pc = "start" => state = "none" /\ handle = "none"
    /\ pc \in Fetching => Held /\ handle = "open"
    /\ pc \in {"body", "performed"} =>
          answer \in Answers /\ (program = "curl_xml" => answer.code # "moved")
    /\ pc \notin {"clean", "ended"} => file = NoFile

AtTheEnd ==
    pc = "ended" =>
        \/ handle = "closed" /\ state = "freed" /\ ~globals
        \/ handle = "none" /\ exit \in {"error", "abort"} /\ file = NoFile

WholeIsClosed == file.whole => file.closed

\* The buffer's invariant makes the data that which was received; the stages tell
\* that it is still there when it is saved, and what has been released at the end.
FetchInv == /\ RecvInv /\ Stages /\ AtTheEnd
            /\ WholeIsClosed /\ OnlyWholeSaved /\ SavedIsReceived

LEMMA DataIsReceived ==
    ASSUME RecvInv, Held
    PROVE  Data = received
<1>1. /\ received \in Seq(Bytes)
      /\ size \in Nat /\ size = Len(received)
      /\ \A k \in 0..(size - 1) : buf[k] = received[k + 1]
  BY DEF RecvInv, TypeOK, Intact
<1>2. ASSUME NEW k \in 1..size
      PROVE  buf[k - 1] = received[k]
  <2>1. k - 1 \in 0..(size - 1) /\ (k - 1) + 1 = k
    BY <1>1
  <2> QED BY <1>1, <2>1
<1>3. received = [k \in 1..size |-> received[k]]
  BY <1>1
<1> QED BY <1>2, <1>3 DEF Data

\* A file that is written has what was received, or the beginning of it.
LEMMA WriteFileSaves ==
    ASSUME RecvInv, Held, file = NoFile, NEW kind, NEW s, WriteFile(kind, s)
    PROVE  /\ file'.whole => file'.closed
           /\ \/ file' = NoFile
              \/ /\ file'.kind = kind
                 /\ Len(file'.data) <= Len(received)
                 /\ file'.data = SubSeq(received, 1, Len(file'.data))
                 /\ file'.whole => file'.data = received
<1>1. /\ received \in Seq(Bytes)
      /\ size \in Nat /\ size = Len(received)
      /\ Data = received
  BY DataIsReceived DEF RecvInv, TypeOK, Intact
<1>2. CASE file' = file
  BY <1>2 DEF NoFile
<1>3. CASE file' = [kind |-> kind, seq |-> s, data |-> Data, whole |-> TRUE, closed |-> TRUE]
  BY <1>1, <1>3
<1>4. ASSUME NEW n \in 0..(size - 1), NEW closed \in BOOLEAN,
             file' = [kind |-> kind, seq |-> s, data |-> SubSeq(Data, 1, n),
                      whole |-> FALSE, closed |-> closed]
      PROVE  /\ file'.kind = kind /\ ~file'.whole
             /\ Len(file'.data) <= Len(received)
             /\ file'.data = SubSeq(received, 1, Len(file'.data))
  <2>1. file'.data = SubSeq(received, 1, n) /\ file'.kind = kind /\ ~file'.whole
    BY <1>1, <1>4
  <2>2. Len(SubSeq(received, 1, n)) = n
    BY <1>1
  <2> QED BY <2>1, <2>2, <1>1
<1> QED BY <1>2, <1>3, <1>4 DEF WriteFile

LEMMA NothingSaved ==
    ASSUME file' = NoFile
    PROVE  WholeIsClosed' /\ OnlyWholeSaved' /\ SavedIsReceived'
BY DEF WholeIsClosed, OnlyWholeSaved, SavedIsReceived, NoFile

LEMMA SetUpPreserves ==
    ASSUME FetchInv, SetUpWriteCallback \/ SetUpWriteHeaderCb \/ EasyHandleInit
    PROVE  Stages' /\ AtTheEnd' /\ WholeIsClosed' /\ OnlyWholeSaved' /\ SavedIsReceived'
<1>1. /\ pc = "start" /\ file = NoFile /\ handle = "none" /\ state = "none"
      /\ program \in Programs /\ program' = program /\ file' = file
  BY DEF FetchInv, Stages, Fetching, SetUpWriteCallback, SetUpWriteHeaderCb, EasyHandleInit
<1>2. \/ pc' = "perform" /\ handle' = "open" /\ state' = "live"
      \/ pc' = "ended" /\ handle' = "none" /\ exit' \in {"error", "abort"}
      \/ pc' = "undefined"
  BY <1>1 DEF SetUpWriteCallback, SetUpWriteHeaderCb, EasyHandleInit, OpenHandle,
              Unbuffered, RecvBufInit
<1>3. Stages' /\ AtTheEnd'
  BY <1>1, <1>2 DEF Stages, AtTheEnd, Fetching, Held
<1> QED BY <1>1, <1>3, NothingSaved

LEMMA TransferPreserves ==
    ASSUME FetchInv,
           \/ \E a \in Answers : ReceiveHeader(a)
           \/ \E chunk \in Chunks : ReceiveBody(chunk)
           \/ PerformReturns
           \/ Stall
    PROVE  Stages' /\ AtTheEnd' /\ WholeIsClosed' /\ OnlyWholeSaved' /\ SavedIsReceived'
<1>1. /\ pc \in {"perform", "body"} /\ file = NoFile /\ handle = "open" /\ Held
      /\ program \in Programs
      /\ program' = program /\ file' = file /\ handle' = handle
  BY DEF FetchInv, Stages, Fetching, ReceiveHeader, ReceiveBody, PerformReturns, Stall
<1>2. Held' /\ pc' \in {"perform", "body", "performed", "failed", "stalled"}
  BY <1>1 DEF Held, ReceiveHeader, Redirected, ReceiveBody, Store, OutOfMemory,
              PerformReturns, Stall, vars
<1>3. pc' \in {"body", "performed"} =>
          answer' \in Answers /\ (program = "curl_xml" => answer'.code # "moved")
  <2>1. ASSUME NEW a \in Answers, ReceiveHeader(a), pc' \in {"body", "performed"}
        PROVE  answer' = a /\ (program = "curl_xml" => a.code # "moved")
    BY <2>1 DEF ReceiveHeader, Redirected, Follows
  <2>2. ASSUME NEW chunk \in Chunks, ReceiveBody(chunk)
        PROVE  pc = "body" /\ answer' = answer
    BY <2>2 DEF ReceiveBody
  <2>3. ASSUME PerformReturns \/ Stall, pc' \in {"body", "performed"}
        PROVE  pc = "body" /\ answer' = answer
    BY <2>3 DEF PerformReturns, Stall
  <2> QED BY <2>1, <2>2, <2>3 DEF FetchInv, Stages
<1>4. Stages' /\ AtTheEnd'
  BY <1>1, <1>2, <1>3 DEF Stages, AtTheEnd, Fetching
<1> QED BY <1>1, <1>4, NothingSaved

\* The starter programs save without asking how the transfer went.
LEMMA SavePreserves ==
    ASSUME FetchInv, SaveWriteCallback \/ SaveWriteHeaderCb
    PROVE  Stages' /\ AtTheEnd' /\ WholeIsClosed' /\ OnlyWholeSaved' /\ SavedIsReceived'
<1>1. /\ pc \in {"performed", "failed"} /\ pc' = "clean"
      /\ program # "curl_xml" /\ program' = program
      /\ UNCHANGED vars /\ handle' = handle
      /\ \E s : WriteFile("png", s)
  BY DEF SaveWriteCallback, SaveWriteHeaderCb
<1>2. RecvInv /\ Held /\ file = NoFile /\ handle = "open" /\ program \in Programs
  BY <1>1 DEF FetchInv, Stages, Fetching
<1>3. Stages' /\ AtTheEnd'
  BY <1>1, <1>2 DEF Stages, AtTheEnd, Fetching, Held, vars
<1>4. /\ file'.whole => file'.closed
      /\ \/ file' = NoFile
         \/ /\ file'.kind = "png"
            /\ Len(file'.data) <= Len(received)
            /\ file'.data = SubSeq(received, 1, Len(file'.data))
            /\ file'.whole => file'.data = received
  BY <1>1, <1>2, WriteFileSaves
<1>5. OnlyWholeSaved'
  BY <1>1 DEF OnlyWholeSaved
<1>6. received' = received
  BY <1>1 DEF vars
<1>7. SavedIsReceived'
  BY <1>4, <1>6 DEF SavedIsReceived, NoFile
<1> QED BY <1>3, <1>4, <1>5, <1>7 DEF WholeIsClosed

\* curl_xml processes the data of a transfer that went well, and only it.
LEMMA ProcessPreserves ==
    ASSUME FetchInv, FailedTransfer \/ ProcessTransfer
    PROVE  Stages' /\ AtTheEnd' /\ WholeIsClosed' /\ OnlyWholeSaved' /\ SavedIsReceived'
<1>1. /\ pc \in {"performed", "failed"} /\ pc' = "clean"
      /\ program = "curl_xml" /\ program' = program /\ answer' = answer
      /\ UNCHANGED vars /\ handle' = handle
  BY DEF FailedTransfer, ProcessTransfer
<1>2. RecvInv /\ Held /\ file = NoFile /\ handle = "open" /\ program \in Programs
  BY <1>1 DEF FetchInv, Stages, Fetching
<1>3. Stages' /\ AtTheEnd'
  BY <1>1, <1>2 DEF Stages, AtTheEnd, Fetching, Held, vars
<1>4. CASE file' = file
  BY <1>2, <1>3, <1>4, NothingSaved
<1>5. CASE file' # file
  <2>1. ProcessTransfer /\ pc = "performed" /\ exit' = "ok"
    BY <1>5 DEF FailedTransfer, ProcessTransfer
  <2>2. /\ answer.code # "error" /\ answer.ctype # "none"
        /\ \E kind, s : WriteFile(kind, s) /\ (kind = "html" => printed' = FindHttp)
    BY <1>5, <2>1 DEF ProcessTransfer, ProcessData, ProcessHtml, ProcessPng
  <2>3. answer \in Answers /\ answer.code # "moved"
    BY <1>1, <2>1 DEF FetchInv, Stages
  <2>4. answer.code = "ok"
    BY <2>2, <2>3 DEF Answers
  <2>5. PICK kind, s : WriteFile(kind, s) /\ (kind = "html" => printed' = FindHttp)
    BY <2>2
  <2>6. /\ file'.whole => file'.closed
        /\ file'.kind = kind
        /\ Len(file'.data) <= Len(received)
        /\ file'.data = SubSeq(received, 1, Len(file'.data))
        /\ file'.whole => file'.data = received
    BY <1>2, <1>5, <2>5, WriteFileSaves
  <2>7. received' = received /\ FindHttp = Links(received)
    BY <1>1, <1>2, DataIsReceived DEF vars, FindHttp
  <2>8. SavedIsReceived'
    BY <2>5, <2>6, <2>7 DEF SavedIsReceived
  <2>9. OnlyWholeSaved'
    BY <1>1, <2>1, <2>2, <2>4 DEF OnlyWholeSaved
  <2> QED BY <1>3, <2>6, <2>8, <2>9 DEF WholeIsClosed
<1> QED BY <1>4, <1>5

LEMMA CleanUpPreserves ==
    ASSUME FetchInv, CleanUp
    PROVE  Stages' /\ AtTheEnd' /\ WholeIsClosed' /\ OnlyWholeSaved' /\ SavedIsReceived'
<1>1. /\ pc = "clean" /\ pc' = "ended"
      /\ state' = "freed" /\ handle' = "closed" /\ ~globals'
      /\ received' = received
      /\ UNCHANGED <<program, answer, printed, file, exit>>
  BY DEF CleanUp, RecvBufCleanup
<1>2. Stages' /\ AtTheEnd'
  BY <1>1 DEF FetchInv, Stages, AtTheEnd, Fetching
<1>3. WholeIsClosed' /\ OnlyWholeSaved' /\ SavedIsReceived'
  BY <1>1 DEF FetchInv, WholeIsClosed, OnlyWholeSaved, SavedIsReceived
<1> QED BY <1>2, <1>3

LEMMA FetchStep ==
    ASSUME FetchInv, [FetchNext]_fetchVars
    PROVE  FetchInv'
<1>1. RecvInv'
  BY StepsOfTheBuffer, RecvNext DEF FetchInv
<1>2. CASE FetchNext
  <2>1. Stages' /\ AtTheEnd' /\ WholeIsClosed' /\ OnlyWholeSaved' /\ SavedIsReceived'
    BY <1>2, SetUpPreserves, TransferPreserves, SavePreserves, ProcessPreserves,
       CleanUpPreserves DEF FetchNext, Progress, Transfer
  <2> QED BY <1>1, <2>1 DEF FetchInv
<1>3. CASE UNCHANGED fetchVars
  BY <1>1, <1>3 DEF FetchInv, Stages, AtTheEnd, Fetching, Held, WholeIsClosed,
                   OnlyWholeSaved, SavedIsReceived, fetchVars, vars
<1> QED BY <1>2, <1>3

\* The invariant holds of every behaviour of the three programs.
THEOREM FetchInvariant == FetchSpec => []FetchInv
<1>1. FetchInit => FetchInv
  <2>1. Init => RecvInv
    BY DEF Init, RecvInv, TypeOK, InBounds, Intact, Fresh, Held
  <2> QED BY <2>1 DEF FetchInit, Init, FetchInv, Stages, AtTheEnd, Fetching, Programs,
                      NoFile, WholeIsClosed, OnlyWholeSaved, SavedIsReceived
<1>2. FetchInv /\ [FetchNext]_fetchVars => FetchInv'
  BY FetchStep
<1> QED BY <1>1, <1>2, PTL DEF FetchSpec

\* What is saved and printed is what was received.
THEOREM SavedIsReceivedHolds == FetchSpec => []SavedIsReceived
<1>1. FetchInv => SavedIsReceived
  BY DEF FetchInv
<1> QED BY <1>1, FetchInvariant, PTL

\* curl_xml saves nothing of a transfer that failed or was refused.
THEOREM OnlyWholeSavedHolds == FetchSpec => []OnlyWholeSaved
<1>1. FetchInv => OnlyWholeSaved
  BY DEF FetchInv
<1> QED BY <1>1, FetchInvariant, PTL

\* What a program acquired is released when it ends.
THEOREM ReleasedHolds == FetchSpec => []Released
<1>1. FetchInv => Released
  BY DEF FetchInv, AtTheEnd, WholeIsClosed, Released, NoFile
<1> QED BY <1>1, FetchInvariant, PTL

-----------------------------------------------------------------------------
(* What a file is called. *)

\* The number of the answer being received, if it came with one, is in seq, and a file
\* written under a number has that of the answer.
NameInv == /\ answer \in Answers \cup {NoAnswer}
           /\ HasSeq /\ answer.lines # <<>> => seq = answer.lines[1]
           /\ NamedByFragment

LEMMA HeaderNumbers ==
    ASSUME NEW a \in Answers, HasSeq, a.lines # <<>>
    PROVE  HeaderCb(a.lines) = a.lines[1]
<1>1. PICK f \in Fragments : a.lines = <<f>>
  BY DEF Answers
<1>2. Len(<<f>>) = 1
  OBVIOUS
<1> QED BY <1>1, <1>2 DEF HeaderCb

LEMMA NamedNext ==
    ASSUME FetchInv, NameInv, [FetchNext]_fetchVars
    PROVE  NameInv'
<1>1. ASSUME NEW a \in Answers, ReceiveHeader(a)
      PROVE  NameInv'
  <2>1. file = NoFile /\ file' = file /\ answer' = a /\ program' = program
        /\ seq' = HeaderCb(a.lines)
    BY <1>1 DEF ReceiveHeader, FetchInv, Stages
  <2>2. HasSeq' /\ answer'.lines # <<>> => seq' = answer'.lines[1]
    BY <2>1, HeaderNumbers DEF HasSeq
  <2> QED BY <2>1, <2>2 DEF NameInv, NamedByFragment, NoFile
<1>2. CASE SaveWriteCallback
  BY <1>2 DEF SaveWriteCallback, NameInv, NamedByFragment, HasSeq
<1>3. CASE SaveWriteHeaderCb
  <2>1. /\ file' = file \/ file'.seq = seq
        /\ UNCHANGED <<program, answer, seq>>
    BY <1>3 DEF SaveWriteHeaderCb, WriteFile
  <2> QED BY <2>1 DEF NameInv, NamedByFragment, HasSeq
<1>4. CASE ProcessTransfer
  <2>1. /\ file' = file \/ file'.seq = seq \/ file'.kind # "png"
        /\ UNCHANGED <<program, answer, seq>>
    <3>1. /\ UNCHANGED <<program, answer, seq>>
          /\ \/ file' = file
             \/ \E kind, s : WriteFile(kind, s) /\ (kind = "png" => s = seq)
      BY <1>4 DEF ProcessTransfer, ProcessData, ProcessHtml, ProcessPng
    <3>2. ASSUME NEW kind, NEW s, WriteFile(kind, s), kind = "png" => s = seq
          PROVE  file' = file \/ file'.seq = seq \/ file'.kind # "png"
      BY <3>2 DEF WriteFile
    <3> QED BY <3>1, <3>2
  <2> QED BY <2>1 DEF NameInv, NamedByFragment, HasSeq
<1>5. CASE \/ SetUpWriteCallback \/ SetUpWriteHeaderCb \/ EasyHandleInit
           \/ FailedTransfer \/ CleanUp \/ PerformReturns \/ Stall
           \/ UNCHANGED fetchVars
  <2>1. UNCHANGED <<program, answer, seq, file>>
    BY <1>5 DEF SetUpWriteCallback, SetUpWriteHeaderCb, EasyHandleInit, FailedTransfer,
                CleanUp, PerformReturns, Stall, fetchVars
  <2> QED BY <2>1 DEF NameInv, NamedByFragment, HasSeq
<1>6. ASSUME NEW chunk \in Chunks, ReceiveBody(chunk)
      PROVE  NameInv'
  <2>1. UNCHANGED <<program, answer, seq, file>>
    BY <1>6 DEF ReceiveBody
  <2> QED BY <2>1 DEF NameInv, NamedByFragment, HasSeq
<1> QED BY <1>1, <1>2, <1>3, <1>4, <1>5, <1>6 DEF FetchNext, Progress, Transfer

\* A fragment is saved under the number that came with it: not under that of an answer
\* that was redirected, although seq stays set from one answer to the next.
THEOREM NamedByFragmentHolds == FetchSpec => []NamedByFragment
<1>1. FetchInit => NameInv
  BY DEF FetchInit, NameInv, NamedByFragment, NoFile, NoAnswer
<1>2. FetchInv /\ NameInv /\ [FetchNext]_fetchVars => NameInv'
  BY NamedNext
<1>3. NameInv => NamedByFragment
  BY DEF NameInv
<1> QED BY <1>1, <1>2, <1>3, FetchInvariant, PTL DEF FetchSpec
===============================================================================
