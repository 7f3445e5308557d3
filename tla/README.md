# A specification of the concurrent PNG crawlers

The repository holds programs about PNG images on disk and on the web: the
single-threaded tools of `p1` (`findpng`, `pnginfo`, `catpng`), the two
crawlers that are its subject, `findpng2` (`p4`, a pool of threads) and
`findpng3` (`p5`, one thread and a `curl_multi` loop), the programs that fetch one
url from which the crawlers grew (`p2/starter/cURL`, `p4/starter/curl_xml`), and the
scripts that time all of them (`p3`, `p4` and `p5`, `starter/tools`). This directory
specifies them and the two data structures they stand on, checks
the specifications with TLC and proves theorems about them with TLAPS.

Line numbers refer to `src/p4/src/findpng2.c`, `src/p5/src/findpng3.c`, the files
beside them, and `src/p1/src` for the tools, unless a path is given.

## 1. The system

| Component | State | Operations | Interacts with |
|---|---|---|---|
| `findpng2` main | threads, seed | crawl the seed, create and join the pool, tear down | everything below |
| `findpng2` pool thread | a url, a transfer, an index into a page's links | wait for work, check the quota, take a url, crawl it | frontier, `visted_url`, `png_count`, file, parser, other threads |
| idle detection | `num_working`, `url_frontier_cond` | count down, wait, broadcast, count up | guarded by `url_frontier_mutex` |
| frontier | a linked list | enqueue, dequeue | both crawlers; `url_frontier_mutex` in p4 |
| visited urls | hash table and array `visted_url` | `process_url`: search and enter | `visted_url_mutex` in p4 |
| results | `png_urls.txt`, `png_count` | `process_png`, `write_url` | two mutexes in p4, and one test without |
| parser | libxml2's global state | `find_http` | `xml_mutex` in p4 |
| `findpng3` main | frontier, pool queue, flags `in_use`, `curl_multi`'s list | fill, wait, perform, read messages, release, tear down | libcurl |
| receive buffer | `buf`, `size`, `max_size` | `recv_buf_init`, `write_cb_curl3`, `recv_buf_cleanup` | libcurl's callbacks, parser, `is_png` |
| programs that fetch one url | a handle, the buffer and its `seq`, a file | set up, `header_cb_curl`, perform, `process_data`, `write_file`, `cleanup` | libcurl, receive buffer, parser, file system |
| `p1` `findpng` | the calls of `findpng`, open files | read an entry, search it, return | file system |
| `p1` `pnginfo` | a position in the file, three chunks, a running CRC | `is_png`, the chunk readers, `copy_IHDR`, `update_crc`, `crc_check` | a file |
| `p1` `catpng` | the list of images, `inf_png`, `cur_ind` | read, inflate, deflate and write | files, `zutil.c` |
| `p1` `zutil.c` | a zlib stream, a fill, the caller's memory | `mem_def`, `mem_inf` | zlib |
| measuring scripts | the `.dat` files of a directory, two tables | `exec_producer`, `gen_data`, `gen_table`, `gen_stat_per_pair` | the programs, each other through the directory |

What is hard in it:

* *Idle detection* (163-180). The thread whose wait would leave nobody at work
  broadcasts after it has given up the mutex; waiting threads leave on
  `num_working == 0`; the wait is not in a loop, so a spurious wakeup or a url
  taken by another thread sends a thread on with an empty frontier; and a
  thread that leaves at the quota (183-186) stays counted.
* *Deduplication* (244-263). The same url stands in the frontier many times and
  is reached through redirections too.
* *The quota* is tested at 183 under `png_count_mutex`, but at 269 without it, and
  a url is written (271) before it is counted (275).
* *Pool accounting* in `findpng3` (87-105, 149-168). The end of the crawl is
  read off the size of the queue of free handles, and the teardown off a flag.
* *Failures* that the code passes over: `fopen` (271), a transfer that broke off
  (findpng3 124), a reply without a content type (findpng3 143), `malloc`,
  `pthread_create`, and servers that never answer (the timeouts are commented
  out); in the tools the results of `mem_inf`, `readpng` and `crc_check`.
* *One step of many failing* in the programs that fetch one url: what was acquired
  must be given back, and what was saved must be what came, by redirections too.
* *Sizes* in the tools: chunks that are just full, data that gets longer when it is
  deflated, products in 32 bits, files that are opened and never closed; lengths
  in a file, which move all that is read after them.
* *Results of several processes* in the files that the scripts append to.

`PROJECT.json` lists each of these at its line, with the properties that would
notice it going wrong, or a note where none does.

## 2. The modules

    Web ──────┬── FindPng2 ── FindPng2_proofs
              ├── FindPng3 ── FindPng3_proofs
              ├── Crawl   (implemented by FindPng2 and FindPng3)
              └── MCSites ── MCFindPng2, MCFindPng3
    RecvBuf ──── FetchOne ──┬── FetchOne_proofs
                            └── MCFetchOne
    UrlQueue ─── UrlQueue_proofs   (implements Fifo)
    Zlib ─────┬── Zutil ────── CatPng_proofs
              └── CatPng ──┬── CatPng_proofs
                           └── MCCatPng
    FindPng ──┬── PngTools_proofs
              └── MCFindPng
    Crc ── PngInfo ──┬── PngTools_proofs
                     └── MCPngInfo
    RunLab ───┬── RunLab_proofs
              └── MCRunLab
    SeqLemmas   (used by the proofs about sequences)

**Web** is the site as the crawlers see it through libcurl and libxml2. A reply
is a record of what the code looks at: did the transfer complete, was the
response code accepted, the effective url, was it redirected, the content type,
the verdict of `is_png`, and the hrefs. `Responses` gives each url the set of
replies it may return; each transfer picks one, so a site may answer differently
every time.

**FindPng2** has an action per critical section, and one for every step that
runs outside a lock: `CheckFrontier` (163-172), `Broadcast` (168-170, after the
unlock), `Wake` (the return from `pthread_cond_wait`), `SpuriousWakeup`,
`CheckQuota` (182-187), `Take` (189-196), then a crawl: `Admit` (`process_url`),
`Perform` (the transfer and its classification in `process_data`), `Redirect`
(217-227), `LockXml`, `EnqueueLink` (one turn of the loop in `find_http`, with its
signal), `UnlockXml`, `TestPng` (269, unlocked), `WritePng` (with `WriteUrl`), `CountPng`,
`Cleanup`. `Spawn` and `Join` are main's. Main's crawl of the seed uses the same
actions; it differs in ignoring `process_url`'s result, and pool threads do not
exist while it runs. `pc` says where each actor is, and the other variables have
the code's names.

**FindPng3** has the steps of one event loop: `CheckQuota`, `Skip` and `Start`
(the inner loop 87-101), `EndFill`, `Poll` (wait and perform), `Receive` (one
message), `EndRead`, `Redirect`, `ProcessHtml` with `EnqueueLink` and `EndLinks`,
`ProcessPng`, `Other`, `NoContentType`, `Release`, `Teardown`. The only
nondeterminism is libcurl's: which transfers complete during a call (`done`), in
what order they are reported, and what they bring.

**Crawl** is what both promise: nothing is visited that is not known, each url
is visited once at most, fetched only when visited, what is listed was fetched and
is a PNG, the quota is passed by at most `Slack` PNGs, and the crawl finishes
with nothing known left unvisited, unless the quota has been reached. `FindPng2`
implements it with a slack of one less than the number of threads, `FindPng3`
with none.

**RecvBuf** is the buffer of a transfer, with its bytes. **FetchOne** composes it with
the three programs that fetch one url: `write_callback`, `write_header_cb` and
`curl_xml`, which `program` tells apart. `SetUpWriteCallback`, `SetUpWriteHeaderCb` and
`EasyHandleInit` acquire buffer, libcurl and handle, any of which may fail;
`ReceiveHeader` is `header_cb_curl` over the headers of an answer, which is
followed if it is a redirection and the program follows them; `ReceiveBody` is
`write_cb_curl3`; `PerformReturns` ends the transfer, well or not, and `Stall` is
a server that answers no more; then `SaveWriteCallback`, `SaveWriteHeaderCb`,
`FailedTransfer` and `ProcessTransfer` (`process_data` with `find_http` and
`write_file`), and `CleanUp`. Every step is a step of RecvBuf or leaves the
buffer alone (`UsesTheBuffer`).

**UrlQueue** is `queue.c` with the heap made explicit, as the `Queue` of urls that is
the frontier and as the `VQueue` of pointers that is the pool of handles, and
implements **Fifo**; it justifies the plain sequences that the crawlers' modules use
for both. The size of a node's data (256 bytes) is not modelled: urls have no
length here.

**Zlib** is what `deflate` and `inflate` may answer, and the contract of `mem_def`
and `mem_inf`: what a call returns, stores in `*dest_len` and leaves in `dest`.
**Zutil** has the loops themselves: `InitStream`, `CallZlib`, `GiveUp` (the switch of
`mem_inf`), `Copy` and `Leave`. Every byte of the stream has its number, so that a
lost, repeated or misplaced fill shows. **CatPng** takes a call for one step with an
outcome of the contract, which `ContractHolds` justifies (the names of Zutil that CatPng has
too begin with a z, so that one module can prove things about both): `ReadPng` and `Inflate` are
the turns of main's two loops (64-76, 81-87), `DeflateAndWrite` the rest. Where the
program leaves what C defines (writing behind a buffer, reading behind one, uninitialized
pointers) the state is "undefined" and the model says nothing more. `Inflated` says what
a call may come to, given that `mem_inf` is told of as many bytes as the image has pixels
(catpng.c:85, zutil.c:108) and not of as many as there are of IDAT data: a stream is cut off
unless `inflate` is done with it by then (`Fits`), and one that ends before it is complete, and
before that number, is read behind its end (`ReadsBehind`), which is undefined.

**FindPng** has the calls of `findpng` as a stack and the directories and files that
are open; `ReadEntry` is one turn of the loop (44-64), in an order that `readdir`
chooses. **Crc** has `crc.c` with words as sets of bits, next to the polynomial
division by which the PNG standard defines the CRC: a power after the other is removed from the
message, a bit at a time and without a table. **PngInfo** has a whole file as a
sequence of bytes, in which bits were flipped or which was cut off: `IsPng`,
`ReadChunk` (the three readers, each from where the one before stopped),
`ShowDimensions` (`copy_IHDR`), `UpdateByte` (a turn of `update_crc`) and `Compare` (the
end of `crc_check`). A reader that finds too little tells nobody; the state is
then "undefined".

**RunLab** has the three measuring scripts as processes in one directory. Nested
loops over lists are at a tuple of positions in them: `GenData3`, `GenTable3` and so on are the
tuples that the loops come to (`Within` is the condition of a `break`), in the order
`Before`; a step of the loops goes to the first of those that are left. `Touch`
and `RunProgram` are `exec_producer` for the setting that the loops of `gen_data` are
at, `GenTable` is a row of `gen_table`; a program may hang (`Hang`) and a script may be
killed at any time (`Kill`) and leave its files to the next one.

Operators whose name starts with `Bug` are faulty variants of the definition
that follows them: a forgotten increment, an unlocked parser, an off-by-one, an
unnoted capacity. They are used by no specification. Each property below has one
that breaks it when it takes the place of the definition it varies.

## 3. What is checked

Most runs take seconds; `multi_pool` takes about half a minute.

| Run | Instance | Question |
|---|---|---|
| `pool_races` (MCPool) | 3 threads, gallery of PNGs, quota 1 | idle detection, deduplication, listing in every interleaving; FindPng2 implements Crawl with a slack of two |
| `pool_ends` (MCSite) | 2 threads, mixed site, quota 2, `fopen` may fail | main returns unless a thread that left at the quota strands a sleeper; below the quota every queued url is visited; file against count |
| `quota_hangs` (MCHang) | 2 threads, gallery, quota 3 | main returns: **violated** |
| `quota_overshoots` (MCQuota) | 2 threads, gallery, quota 1 | the quota is exact: **violated** |
| `multi_pool` (MCMulti) | 3 handles, wide site, quota 2, `curl_multi_wait` may fail | accounting of handles, deduplication, exact quota, clean teardown; FindPng3 implements Crawl with no slack; unless it breaks off main returns, and every queued url is visited or the quota reached |
| `fetch_one` (MCFetchOne) | buffer of 2 bytes enlarged by 3 or more, bodies up to 5, 2 redirections, 2 fragment numbers | no write leaves the buffer; what is saved is what was received, whole, accepted and under its own number; what was acquired is released; only a stalled server keeps a program from ending |
| `queue` (MCUrlQueue) | 4 nodes, 3 urls or handles | well linked, no leak, FIFO, destruction ends |
| `zlib_chunks` (MCZutil) | chunks of 3, streams of up to 10 | what is copied, the contract, the loop ends |
| `concatenation` (MCCatPng) | up to 3 of 12 images, 5 of them whole with a size that fits, deflating may lengthen | order of rows, header, damage contained, room |
| `directory_search` (MCFindPng) | 4 trees, 3, 6 or 16 descriptors | nothing twice; enough descriptors find all |
| `chunk_check` (MCPngInfo) | 2 files, bursts of three shapes at every third bit, every cut | CRC against the division; damage is reported, that to a length included |
| `measuring` (MCRunLab) | two `run_lab3.sh`, or `run_lab4.sh` and `run_lab5.sh`, 2 runs per setting | complete tables; whose results a row holds |

*Idle detection.* `WorkingCount` ties the counter to the threads' positions.
`SleeperHasWaker`: there is never a thread asleep with nobody left to wake it,
other than one that left at the quota. `LeaveTogether`: a thread leaves for lack
of work only with the frontier empty and nobody crawling. `FrozenAtZero`: once
the counter is 0 nothing more is found. *Visiting.* `VisitedOnce`,
`OneFetchPerUrl`. *Listing.* `QuotaSlack` bounds how far the
quota is passed (one PNG for each thread but one, which the code reaches);
`FileMatchesCount` relates the file to the counter (in the run `fopen` may fail, so that the file
may be shorter; that they are equal if it never fails is the theorem); `ListedPerVisit` says how
often one PNG can be in the file: once for each visited url that leads to it.

*The tools.* `Copied` and `Contract`: whatever zlib answers, `dest` holds a beginning
of the stream, and success means all of it. `DamageContained`: in an output that is written,
images that are corrupt, cut off or of another size than their headers say leave every whole
image that inflated in its place, since `cur_ind` follows the headers and not `mem_inf`'s
length. `StaysInRoom` says which images take the program out of what C defines: files that
are no PNG, images with more rows than their headers say or of a size that wraps around, and
incomplete streams that are read behind. All others, damaged ones too, stay within it.
`Concatenated` says what the output is under the conditions under which the code is
right. The images of the run include some that do not meet each condition. `EnoughFindsAll` says how
many descriptors `findpng` needs. `Divides` compares the table-driven CRC with the
division at every byte; `DataChecked` says that a damaged chunk, and no other, is
reported, that the dimensions of a chunk without error are right, and that nothing but a
damaged length or a file cut off takes the program out of what C defines. Most damaged
lengths do, and of them it says no more.

*Fetching one url.* `SavedIsReceived` relates the file, and what `find_http`
printed, to all that libcurl handed over; `OnlyWholeSaved` says that `curl_xml`
saves and prints nothing of a failed, refused or untyped transfer. The other two do, with
status 0. `NamedByFragment`: a chain of redirections has many headers that set the
sequence number, and the file gets that of the data. `Released` covers every way out.

*Measuring.* `TableComplete`: the loops of `gen_table` are a copy of those of
`gen_data`, which break out for combinations that make no sense; were they to
differ, a row would find no file. `RowHasOwnRuns` says which results a row may
hold. It does not say "its own only", which does not hold (7).

Type invariants are not listed among the runs' properties where they are theorems;
UrlQueue's and FindPng's are conjuncts of `WellLinked` and `PrintedOnce`.

### What does not hold

1. *The crawl may hang at the quota.* One thread finds the quota reached and
   leaves its loop without lowering `num_working` (183-186). Another then finds the
   frontier empty and waits. The counter cannot reach 0, nobody broadcasts, and
   main waits in `pthread_join` for ever, where line 98 says "Wait for all
   threads to exit" (`quota_hangs`). `OnlyQuotaStrands` shows there is no other way to
   hang: a crawl in which no thread leaves at the quota returns.
2. *The quota may be passed.* Two threads test `png_count` before either counts
   (269-275), so the file holds more urls than asked for
   (`quota_overshoots`; `p4/starter/tools/run_lab4.sh:43`: "number of valid png links"). `findpng3`
   does not have this fault (`QuotaExactHolds`).

The tools are right only under conditions, which the properties state:

3. *Small images are lost.* `catpng` tells `mem_inf` that the IDAT data is as long as
   the pixels (catpng.c:85). Deflated data that is longer, as for an image of one
   pixel, is cut off, and the result of `mem_inf` is ignored. `Concatenated` requires `Fits`.
   Of a shorter stream that is not complete, as the first of several IDAT chunks or one that was
   cut off, `inflate` reads on behind the memory that holds it. `StaysInRoom` excludes
   `ReadsBehind`.
4. *The deflated data may not fit.* `def_png` has the size of the inflated data
   (catpng.c:91), which `zutil.c:27` warns may be too little. The
   model then stops in the state "overrun".
5. *Files are left open.* `ftype` (findpng.c:23) closes nothing, so a directory of more
   entries than the process may open files is not searched to its end. `EnoughFindsAll` requires
   a descriptor for every entry.
6. *A damaged type is not reported.* `crc_check` prints only for types it knows, and
   `pnginfo` does not look at its result. `DataChecked` requires `KnownType`. A damaged
   length is not reported either: the readers go on from a wrong place, and of what
   `fread` did not deliver they use what `malloc` left.
7. *Results are mixed.* The scripts append to files named after the setting. Started
   again after it was killed, or next to another one, a script averages in lines it
   did not measure: `run_lab4.sh` and `run_lab5.sh` in one directory
   have the same names, `run_lab3.sh` has the image in the name and mixes results of one image
   only. A run that prints no time leaves an empty line, which awk takes for 0.
8. *A buffer may leak.* When `curl_easy_init` fails, `curl_xml` aborts with the buffer
   allocated, and an incomplete `fwrite` leaves its file open. `Released` states both.

### Bounds

The sites have five to seven urls. They are chosen so that each kind of reply,
a link back, a link that occurs twice, a redirection to a url visited before and
a reply that differs from one transfer to the next all occur; two levels of
pages are enough for the frontier to run empty and fill again. Three threads are
the fewest with which one broadcasts while a second sleeps and a third is being
woken; with two, one strands the other. Three handles let two transfers
complete in one round while a third is in flight. Quotas of 1 to 3 are reached
in the middle of the crawl (in `pool_ends` for some of the replies only, so that both
ends of a crawl occur), a quota of 9 never. Threads and handles are
interchangeable (symmetry sets in the safety runs only). No counter needs a
bound: `png_count` and `visted_url` are bounded by the site. In `fetch_one` no server
sends more than `MaxReceived` = 5 bytes, in chunks of up to 4, and `BufInc` is 3: a buffer of 2
bytes is then enlarged by its increment for chunks of one or two bytes and by more for longer ones,
and more than once. Two redirections
let a number be set, kept and overwritten. The queue has four
addresses, the last of which shows `malloc` failing.

A chunk of 3 bytes and streams of 0 to 10 have every way in which a stream can end
in a fill: empty, part of one, exactly one to three of them. Three images make one
with neighbours on both sides; sizes are scaled down (`Word` = 32 lets one image's
size wrap around). Of streams that `mem_inf` is told too little of there is one that it does not
get to the end of, one whose end comes before, and one whose corruption does; of incomplete
ones, one that ends just where it should for `mem_inf`, and one that is read behind. The trees have directories within directories, an entry that
cannot be opened, and more entries than the smallest limits. In `chunk_check` the
bursts lie at every third bit, so that every byte of the files is hit, lengths and
signature included; one file has no data in IDAT. In `measuring` the lists are the ends of
the scripts' own, so that the inner loops break for the smaller buffer and not
for the larger; two runs show an order of results.

Deadlock is not checked: all of these programs end.

### Fairness

*FindPng2*: weak fairness for each thread's steps, for each actor's crawl and for
main, that is, the scheduler runs every thread that can run, a mutex is handed
on, and a transfer ends. The last is an assumption about servers, since the code
sets no timeout. A spurious wakeup is never owed, and a run does not consist of
them for ever: with infinitely many, two idle threads can wake and wait in turn
without ever being idle together. *FindPng3*: main runs, and a transfer that is
in flight in infinitely many calls of `curl_multi_perform` completes in one.
`Termination` and `FrontierServed` are about crawls that are not broken off by
`curl_multi_wait` or a reply without a content type.
*FetchOne*: the process runs, and libcurl goes on with a transfer until it ends or
stalls; `Ends` counts a stall as an end, since no timeout guards against it.
*UrlQueue*: the loop of `destroy_queue` goes on. *Zutil*: the loop goes on, and zlib
answers each call. The other modules assume no fairness.

## 4. What is proved

Everything here holds for every number of threads or handles, every site and
reply, every quota, under the named assumptions of the modules: the pool is
finite and not empty, `Main` is no pool thread, the quota is a natural number, the
seed is a url and replies are replies.

RunLab assumes that the scripts' lists ascend, are not empty and begin with something
small enough, as theirs do (`ListAssumption`). Three modules have assumptions about
data: a beginning of an image's data yields no more than all of it and an incomplete
stream is read to its end (`FileAssumption` of CatPng, what inflating is), and a
directory and what is below it form a finite tree (`TreeAssumption` of FindPng: no entry
is in two directories, no link leads back up), and the header of a picture has 13 bytes
(`PictureAssumption` of PngInfo).

*FindPng2_proofs.* `WorkingCount` alone is no invariant that a step preserves on
its own, and `SleeperHasWaker` even less: to know that a sleeper has a waker one
must know what the counter means, and what it means that it is 0. `IdleInv` is
the conjunction that carries itself:

* `TypeOK` and `WorkingCount`;
* `MainFirst`: no pool thread exists while main crawls the seed;
* `EmptyAtZero`: with the counter at 0 the frontier is empty;
* `ZeroWhenLeaving`: a thread about to broadcast, or gone for lack of work,
  implies the counter at 0;
* `BroadcastDue`: with the counter at 0 and a thread asleep, somebody is about to
  broadcast.

From it follow `NoLostWakeup`, `LeavingIsSafe` and `FrozenAtZeroHolds`. The proof
goes by the actions: those of a crawl do not move a thread in or out of the idle
ones, so they cannot disturb the count; those of the pool move one thread, and
the cardinality changes by one.

`VisitedOnceHolds` rests on the only two actions that change
`visted_url`. `OneFetchHolds` adds that `Admit` lets a url through only when it
enters it. `QuotaSlackHolds` is the counting argument: a thread that passes the
test with the count below the quota is one of the `Cardinality(Threads)` that can
be listing, and main lists nothing once the pool exists. `XmlExclusiveHolds`,
`FileMatchesCountHolds`, and `ArrayBound`: on a finite site the array needs no
more slots than there are urls (the code has 1000).

`ImplementsCrawl`: FindPng2 implements Crawl with a slack of one PNG for each thread but
one, under the condition that every `fopen` succeeds (where it does not, the
crawl ends at a quota that the file does not show). Several threads are in the middle of a crawl at
once, so what Crawl knows is more than the frontier: urls that are in hand (`InHand`),
links of a page not yet queued (`Unread`), and replies not yet dealt with (`Replies`).
`HandInv` says that each actor's reply is one of the url it crawls and of the kind that its place in
the code is about; `OneFetchPerUrl` makes a reply close exactly one of Crawl's open urls, and the
theorems about the counter give that main ends only with nothing left or at the quota.

`ListedPerVisitHolds` counts positions of a sequence. A url that has been
visited and whose reply nobody has in hand is `Settled`; `OnePerSettled` is the invariant that a
PNG has no more lines than there are settled urls that lead to it. A step that writes
a line settles a url that was not settled before, since nobody else fetches it (`OneFetchPerUrl`).

*FindPng3_proofs.* `PoolInv` adds to the types and to `PoolAccounting` that the
handle whose message is processed is still in `curl_multi` and reported
(`Current`), without which `Release` could queue a free handle again. It gives
`CleanEndHolds`; `QuotaExactHolds` and `OneTransferHolds` use it.

`ImplementsCrawl`: FindPng3 implements Crawl with no slack, under the same
condition on `fopen`. `CrawlInv` adds to the theorems above what the mapping
needs: the reply in hand is one of the url that `conn` fetches (`ReplyInHand`), and the loop is
left at the quota or with nothing queued and no handle in flight (`LoopLeft`, by the
size of the pool queue). Then each action is a step of Crawl (`StartVisits`,
`ReceiveFetches`, `RedirectFollows`, `ProcessPngLists`, `TeardownFinishes`) or leaves what
Crawl sees alone (`Same`); that two handles never fetch one url makes a reply close
exactly one of Crawl's open urls.

*FetchOne_proofs.* `InBoundsHolds` and `IntactHolds` of RecvBuf, for every buffer size,
increment and chunk size, with the fact that an enlargement provides for the chunk at
hand (`Room`). `UsesTheBuffer`: FetchOne implements RecvBuf, so that what is proved of the
buffer holds in all three programs (`FetchInBounds`). `FetchInvariant` ties the position
of a program to what it holds and to what has been printed and saved; it gives
`SavedIsReceivedHolds`, `OnlyWholeSavedHolds` and `ReleasedHolds` for every size, chunk,
answer and number of redirections. `SavedIsReceived` also needs that the first `size`
cells of the buffer are what was received (RecvBuf's `Intact`). `NamedByFragmentHolds`
rests on `NameInv`: once the answer at hand has a number, `seq` is that number.

*UrlQueue_proofs.* `QueueInv`: there is a sequence that lists the allocated nodes, each
once, from `front` along the pointers to `rear` (`ListedBy`). The specification's `Chain` follows
`size` pointers and is defined by recursion; `ChainLists` shows by induction that it is
the only function that does, and so that it is that sequence. `PutAppends` and `UnlinkTakesHead` say
what the operations do to it. `WellLinkedHolds` (no node is leaked, none reached after
it was freed) and `ImplementsFifo` follow, for every memory and every kind of data.

*CatPng_proofs.* `CatInv` says where the images lie. Their places are sums of sizes, which the
specification defines by recursion over the arguments; `Sums` shows that the sums exist,
add the sizes and do not fall. In the first loop the total is the sum of the images read, in
the second `cur_ind` is that of the images inflated (`Reading`, `Laid`); an image that
was put in its place stays there, since those that follow begin behind it, whatever
came of them (`InPlace`); the heights of sound images of one width add up to the rows, in
32 bits (`HeightsAdd`). `InflatedSound` is what the contract of `mem_inf` gives: no more than its rows
of an image that is tame (no more of them than its header says, and a size that fits), all of
them of a sound one that inflated. `StaysInRoom` is part of the invariant: the state
"undefined" is entered by images that are not tame and by `ReadsBehind`, and by nothing else.
`DamageContainedHolds`, `ConcatenatedHolds` and `StaysInRoomHolds` follow for any number of images
of any sizes and any `Word`.

The same module has the theorems about Zutil. `CopiedHolds` and `ContractHolds` for every CHUNK and stream, from
`ZInv`: between two fills everything zlib has yielded is in `dest` and is a number
of full chunks; a fill at hand and `dest` make up what it has yielded, and only the
last fill leaves room. The proof goes by the actions.

*PngTools_proofs* has the theorems about the two tools of `p1` that look at PNG files, and
about the CRC.

`TableDivides`: for every sequence of bytes, of whatever length, `update_crc` with the table of
`make_crc_table` computes the remainder of the division (`Reference`). `OneTurn` is the
heart of it: a turn of the inner loop and a step of the division do the same, seen from the two ends
of the word (`Flip`: the constant of `crc.c` is the standard's generator, the other way round).
`Stands` says how the two go together when some bits of the message are still to come, eight turns
make it true of the next byte (`OneByte`, where the shift by 8 and the look-up of the low
byte are taken apart again), and so it holds at the end by induction.

`BurstsDetected`: messages of one length that differ only within 32 consecutive bits have
different CRCs. The difference of their two divisions stays within a window of 32 powers that moves
down with them, and never vanishes: a step that takes its highest power away sets the one
32 below, since the generator has the power 0 (`StepDiffers`).

`PngInv` relates what pnginfo has read to the file: the running value is `UpdateCrc` of the bytes
so far (`Running`), the errors are those of the chunks checked so far whose CRC is another than
that of type and data, and whose type is known (`Reported`), and while the length fields are
as they were written the chunks are read from where they were written (`InPlace`, with the layout of
a sound file from `FileLaidOut`). It gives `DividesHolds` for every picture and
every damage, and `LengthsSuffice`: nothing but a damaged length or a file cut off leaves the
program without defined behaviour. `BurstsReported` says that `DataChecked` holds in every state of a file in which
the lengths are as they were written and in each chunk (`BurstAt`) either nothing of type and data
is damaged, or nothing of the CRC is and the damage of type and data is within 32 bits; any number of
chunks may be damaged. The assumptions are that a picture has the 13 bytes of an IHDR and less than 256
bytes of data (`PictureAssumption`: lengths have one byte in the model), and that files are
cut to a length (`DamageAssumption`).

`SearchInv` says that there is a set `S` of the entries read so far such
that (`Read`) the calls on the stack are for different directories of it, are to read entries outside
it, nothing below an entry outside it is in it, and it has as many elements as files were opened,
and the root. Reading an entry adds it to `S`. A path printed is in `S`, so none is printed
twice (`PrintedOnceHolds`). With enough descriptors (`Complete`) nothing is lost on the way: calls are no
more than directories and open files no more than entries (`EnoughLeft`), so `S`
is closed under entries when the search returns, and a set with the root that is closed
under entries is the whole tree (`EnoughFindsAllHolds`).

*RunLab_proofs.* `TableCompleteHolds` and `RowHasOwnRunsHolds`, for any lists, number of runs and
scripts in a directory. The order of nested loops is total (`Ordered`), and a step of the loops
leaves behind exactly the place they were at and those before it (`Advance`). `LabInv`
says how many lines a script has in the file of each setting: all `NN` for those behind,
those of the runs so far for the one it is at, none for those to come (`Written`). A line is
appended to one file; that the counts of the other settings stay as they are is because two
settings have two names (`Names`), and those of other scripts because a line has one
writer. `Named`: whoever has a line in a file names that file for one of its
settings, so it measures the same thing (`SameName`). The rows are those of the places
behind, and where the loops break is where a combination makes no sense (`AllWanted`).

*SeqLemmas.* Append, Head and Tail and the elements of a sequence; counting positions;
`Induction` over the natural numbers, in terms of a set, from the library's theorem that `<` is
well-founded (the library's own induction theorem takes an operator, which the provers cannot
instantiate); from it, that functions defined by recursion exist (`IteratesExist`): the sums of the
first elements of a sequence (`SumsExist`, `SumsGrow`), the division, the loops of `crc.c`.

Model-checked only: liveness (`Termination`, `FrontierServed`, `OnlyQuotaStrands`,
`Destroyed`, `Ends`), which the prover does not reach; and `DataChecked` for the damage that
`BurstsReported` leaves out. It cannot be a theorem for every file. The file has the CRC with its
highest byte first, so that a burst from the data into the CRC is none in the order of the division:
to flip the last bit of the data and, behind it, the bits of `0xedb88320` in the CRC is a burst of 31 bits
that no CRC of this kind shows. And where a damaged length moves the chunks that follow, a CRC may fit by
chance. The run has every cut, and bursts of three shapes across all fields, lengths included, of two small files.

## 5. What is not modelled

* Texts: urls, headers, the log of `-v`, timing, messages, the parsing of options.
  A url is a value without length, so the 256-byte buffers are outside the model.
  `read_args` is the values that `NumPngs`, `Threads` and `Conns` may take; it compares
  unsigned numbers with 0, so that a negative `-m` asks for more PNGs than there are,
  which in the models is a quota that is never reached.
* The 1000 slots of `visted_url` and the 10000 entries of `hcreate` as limits:
  the models' array grows; `ArrayBound` says how far.
* `pthread_create`, `recv_buf_init` (in the crawlers) and `curl_easy_init` failing.
* Torn reads: `png_count` is read without a lock at 269. The read is an action of
  its own, between any two steps of other threads, and sees the counter's value;
  an aligned int is read whole on the machines the program is built for.
* The chunk readers and the CRC of `png_helper.c` and `crc.c` in `p4` and `p5`, which are linked
  into the crawlers and never called; the same code is modelled where it is used, in `p1`.
* The course's other starter programs (`times`, `fork`, `pthreads`, `getopt`, `ls`,
  `fn_ptr`, `png_util`, `pointer`, `segfault`, `cmd_arg`, `curl_multi`,
  the first of `cURL`): examples of one call each, without state that outlives it. `clean_ipcs.sh`
  removes the shared memory of a program that is not in the repository.
* In the scripts: the formulas of awk, formats and labels.
* In `p1`: lengths of paths, files that cannot be opened (`pnginfo`, `catpng`), damaged
  lengths in `catpng`, sizes beyond 2 GiB, symbolic links that lead back up.

## 6. Plan

Done, in the order of their weight: FindPng2 with its runs and idle-detection
theorems, its visiting and listing theorems, Crawl, FindPng3, its theorems and its
refinement, RecvBuf and its theorems, UrlQueue, Zutil and its theorems, CatPng, FindPng, Crc and
PngInfo, FetchOne and its theorems, RunLab.

The proofs of the refinements by both crawlers, of UrlQueue's, of `ListedPerVisit` and
`NamedByFragment`, and those about CatPng, FindPng, RunLab, the CRC and PngInfo are done as well.

To come:

1. *FindPng2Locks*: the mutexes of findpng2 as such, one action per lock and
   unlock, shown to implement FindPng2; the order of locks.
