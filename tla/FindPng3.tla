------------------------------- MODULE FindPng3 -------------------------------
(***************************************************************************)
(* The event-driven crawler p5/src/findpng3.c: one thread, a pool of       *)
(* num_conn curl handles and one curl_multi loop. The thread's steps are   *)
(* atomic; what is open is which transfers libcurl completes during a call *)
(* of curl_multi_perform, and in what order it reports them.               *)
(*                                                                         *)
(* pc says where main is:                                                  *)
(*   head      the quota test          redirect  process_url of the        *)
(*   fill      starting transfers                effective url             *)
(*   poll      curl_multi_wait and     body      looking at Content-Type   *)
(*             curl_multi_perform      release   giving the handle back    *)
(*   read      curl_multi_info_read    links     in find_http              *)
(*   teardown  after the loop          failed    left on a curl_multi_wait *)
(*   end       returned                          error                     *)
(*   crashed   strstr(NULL, ...)                                           *)
(*                                                                         *)
(* Definitions whose name starts with Bug are faulty variants of the       *)
(* definition that follows them, as in FindPng2.                           *)
(***************************************************************************)
EXTENDS Web, Naturals, FiniteSets

CONSTANTS
    Conns,        \* the handles of the pool (option -t)
    NumPngs,      \* the PNGs asked for (option -m)
    FopenResults, \* may fopen of png_urls.txt succeed, may it fail
    WaitResults   \* may curl_multi_wait succeed, may it fail

ASSUME ConnAssumption ==
    /\ IsFiniteSet(Conns)
    /\ Conns # {}
ASSUME OptionAssumption ==
    /\ NumPngs \in Nat
    /\ FopenResults \in (SUBSET BOOLEAN) \ {{}}
    /\ WaitResults \in (SUBSET BOOLEAN) \ {{}}

VARIABLES
    pc,            \* where main is
    url_frontier,  \* the queue of urls to visit
    visted_url,    \* the array of visited urls, and the hash table's keys
    free,          \* curl_recv_buf_queue: the handles that wait for a url
    in_use,        \* the flag of each handle
    buffer,        \* the handles whose receive buffer is allocated
    added,         \* the handles that curl_multi has
    done,          \* those of them it has completed and not yet reported
    url,           \* the url a handle fetches (Seed when it has none)
    conn,          \* the handle whose message is being processed
    resp,          \* its reply (NoResponse when there is none)
    i,             \* the loop index in find_http
    png_count,     \* the PNGs found
    png_urls       \* the lines of png_urls.txt

vars == <<pc, url_frontier, visted_url, free, in_use, buffer, added, done, url,
          conn, resp, i, png_count, png_urls>>

pool    == <<free, in_use, buffer, added, done, url>>
message == <<conn, resp, i>>
files   == <<png_count, png_urls>>

Labels == {"head", "fill", "poll", "read", "redirect", "body", "links",
           "release", "teardown", "end", "failed", "crashed"}

TypeOK ==
    /\ pc \in Labels
    /\ url_frontier \in Seq(Urls)
    /\ visted_url \in Seq(Urls)
    /\ free \in Seq(Conns)
    /\ in_use \in [Conns -> BOOLEAN]
    /\ buffer \in SUBSET Conns
    /\ added \in SUBSET Conns
    /\ done \in SUBSET added
    /\ url \in [Conns -> Urls]
    /\ conn \in Conns
    /\ resp \in Response
    /\ i \in Nat
    /\ png_count \in Nat
    /\ png_urls \in Seq(Urls)

-------------------------------------------------------------------------------
\* Everything is set up, the seed is in the frontier and every handle is free.
Init ==
    /\ pc = "head"
    /\ url_frontier = <<Seed>>
    /\ visted_url = <<>>
    /\ free \in [1..Cardinality(Conns) -> Conns] /\ IsInjective(free)
    /\ in_use = [c \in Conns |-> FALSE]
    /\ buffer = {}
    /\ added = {}
    /\ done = {}
    /\ url = [c \in Conns |-> Seed]
    /\ conn = free[1]
    /\ resp = NoResponse
    /\ i = 0
    /\ png_count = 0
    /\ png_urls = <<>>

Visited == Range(visted_url)
BugIsNew(u) == TRUE  \* the hash table is not searched

IsNew(u) == u \notin Visited

\* process_url: the hash table is searched and, for a new url, extended.
ProcessUrl(u) ==
    visted_url' = IF IsNew(u) THEN Append(visted_url, u) ELSE visted_url

\* curl_multi_perform completes some of the transfers it runs, or none.
MultiPerform(running) == \E s \in SUBSET running : done' = done \cup s

CheckQuota ==
    /\ pc = "head"
    /\ pc' = IF png_count >= NumPngs THEN "teardown" ELSE "fill"
    /\ UNCHANGED <<url_frontier, visted_url, pool, message, files>>
CanFill == url_frontier # <<>> /\ free # <<>>

\* A url taken off the frontier has been visited already: the handle stays free.
Skip ==
    /\ pc = "fill" /\ CanFill
    /\ ~IsNew(Head(url_frontier))
    /\ url_frontier' = Tail(url_frontier)
    /\ UNCHANGED <<pc, visted_url, pool, message, files>>

BugStart ==  \* the handle is not marked in use
    LET u == Head(url_frontier)
        c == Head(free)
    IN  /\ pc = "fill" /\ CanFill
        /\ IsNew(u)
        /\ ProcessUrl(u)
        /\ url_frontier' = Tail(url_frontier)
        /\ free' = Tail(free)
        /\ buffer' = buffer \cup {c}
        /\ added' = added \cup {c}
        /\ url' = [url EXCEPT ![c] = u]
        /\ MultiPerform(added' \ done)
        /\ UNCHANGED <<pc, in_use, message, files>>

\* A new url gets the first free handle, a fresh buffer and a transfer.
Start ==
    LET u == Head(url_frontier)
        c == Head(free)
    IN  /\ pc = "fill" /\ CanFill
        /\ IsNew(u)
        /\ ProcessUrl(u)
        /\ url_frontier' = Tail(url_frontier)
        /\ free' = Tail(free)
        /\ in_use' = [in_use EXCEPT ![c] = TRUE]
        /\ buffer' = buffer \cup {c}
        /\ added' = added \cup {c}
        /\ url' = [url EXCEPT ![c] = u]
        /\ MultiPerform(added' \ done)
        /\ UNCHANGED <<pc, message, files>>

BugEndFill ==  \* an empty frontier is taken for the end
    /\ pc = "fill" /\ ~CanFill
    /\ pc' = IF url_frontier = <<>> THEN "teardown" ELSE "poll"
    /\ UNCHANGED <<url_frontier, visted_url, pool, message, files>>

\* No more to start: the loop is left when nothing is queued or in flight.
EndFill ==
    /\ pc = "fill" /\ ~CanFill
    /\ pc' = IF url_frontier = <<>> /\ Len(free) = Cardinality(Conns)
             THEN "teardown" ELSE "poll"
    /\ UNCHANGED <<url_frontier, visted_url, pool, message, files>>

\* curl_multi_wait fails and main returns at once, or it does not (with
\* activity or after MAX_WAIT_MSECS) and curl_multi_perform is called.
Poll ==
    /\ pc = "poll"
    /\ \E ok \in WaitResults :
          \/ ok /\ pc' = "read" /\ MultiPerform(added \ done)
          \/ ~ok /\ pc' = "failed" /\ UNCHANGED done
    /\ UNCHANGED <<url_frontier, visted_url, free, in_use, buffer, added, url,
                   message, files>>

\* A completed transfer is reported. The transfer's own result is not looked at,
\* only the response code.
Receive(c) ==
    /\ pc = "read"
    /\ c \in done
    /\ done' = done \ {c}
    /\ conn' = c
    /\ \E r \in Responses[url[c]] :
          /\ resp' = r
          /\ pc' = CASE ~r.accepted  -> "release"
                     [] IsRedirect(r) -> "redirect"
                     [] OTHER         -> "body"
    /\ UNCHANGED <<url_frontier, visted_url, free, in_use, buffer, added, url, i, files>>

\* All completed transfers have been reported.
EndRead ==
    /\ pc = "read"
    /\ done = {}
    /\ pc' = "head"
    /\ UNCHANGED <<url_frontier, visted_url, pool, message, files>>

\* The effective url of a redirection is marked visited.
Redirect ==
    /\ pc = "redirect"
    /\ ProcessUrl(resp.eff)
    /\ pc' = "body"
    /\ UNCHANGED <<url_frontier, pool, message, files>>

\* process_html goes through the hrefs of the page.
ProcessHtml ==
    /\ pc = "body" /\ resp.ctype = "html"
    /\ pc' = "links"
    /\ i' = 0
    /\ UNCHANGED <<url_frontier, visted_url, pool, conn, resp, files>>

BugEnqueueLink ==  \* the link replaces what was queued
    /\ pc = "links"
    /\ i < Len(resp.links)
    /\ LET href == resp.links[i + 1]
       IN  url_frontier' = IF href = NotHttp THEN url_frontier ELSE <<href>>
    /\ i' = i + 1
    /\ UNCHANGED <<pc, visted_url, pool, conn, resp, files>>

\* One turn of the loop in find_http: an http url joins the frontier.
EnqueueLink ==
    /\ pc = "links"
    /\ i < Len(resp.links)
    /\ LET href == resp.links[i + 1]
       IN  url_frontier' = IF href = NotHttp THEN url_frontier
                           ELSE Append(url_frontier, href)
    /\ i' = i + 1
    /\ UNCHANGED <<pc, visted_url, pool, conn, resp, files>>

EndLinks ==
    /\ pc = "links"
    /\ i >= Len(resp.links)
    /\ i' = 0
    /\ pc' = "release"
    /\ UNCHANGED <<url_frontier, visted_url, pool, conn, resp, files>>

\* write_url: the url becomes the last line of png_urls.txt. Nothing is written when
\* fopen fails, and no caller looks at the result.
WriteUrl(u) ==
    \E opened \in FopenResults :
        png_urls' = IF opened THEN Append(png_urls, u) ELSE png_urls

BugProcessPng ==  \* the quota is not tested again for the replies of one round
    /\ pc = "body" /\ resp.ctype = "png"
    /\ \/ /\ resp.sig
          /\ WriteUrl(resp.eff)
          /\ png_count' = png_count + 1
       \/ ~resp.sig /\ UNCHANGED files
    /\ pc' = "release"
    /\ UNCHANGED <<url_frontier, visted_url, pool, message>>

\* process_png: a PNG below the quota is listed, if that succeeds, and counted.
ProcessPng ==
    /\ pc = "body" /\ resp.ctype = "png"
    /\ \/ /\ resp.sig /\ png_count < NumPngs
          /\ WriteUrl(resp.eff)
          /\ png_count' = png_count + 1
       \/ /\ ~(resp.sig /\ png_count < NumPngs)
          /\ UNCHANGED files
    /\ pc' = "release"
    /\ UNCHANGED <<url_frontier, visted_url, pool, message>>

Other ==
    /\ pc = "body" /\ resp.ctype = "other"
    /\ pc' = "release"
    /\ UNCHANGED <<url_frontier, visted_url, pool, message, files>>

\* A reply without Content-Type: strstr is called on a null pointer.
NoContentType ==
    /\ pc = "body" /\ resp.ctype = "none"
    /\ pc' = "crashed"
    /\ UNCHANGED <<url_frontier, visted_url, pool, message, files>>

BugRelease ==  \* the handle is not queued again
    /\ pc = "release"
    /\ added' = added \ {conn}
    /\ buffer' = buffer \ {conn}
    /\ in_use' = [in_use EXCEPT ![conn] = FALSE]
    /\ url' = [url EXCEPT ![conn] = Seed]
    /\ resp' = NoResponse
    /\ pc' = "read"
    /\ UNCHANGED <<url_frontier, visted_url, free, done, conn, i, files>>

\* The handle leaves curl_multi, its buffer is freed, and it is free again.
Release ==
    /\ pc = "release"
    /\ added' = added \ {conn}
    /\ buffer' = buffer \ {conn}
    /\ in_use' = [in_use EXCEPT ![conn] = FALSE]
    /\ free' = Append(free, conn)
    /\ url' = [url EXCEPT ![conn] = Seed]
    /\ resp' = NoResponse
    /\ pc' = "read"
    /\ UNCHANGED <<url_frontier, visted_url, done, conn, i, files>>

\* After the loop: the free queue is emptied, transfers still in flight are
\* dropped with their buffers, and main returns.
Teardown ==
    LET flying == {c \in Conns : in_use[c]}
    IN  /\ pc = "teardown"
        /\ free' = <<>>
        /\ added' = added \ flying
        /\ done' = done \ flying
        /\ buffer' = buffer \ flying
        /\ in_use' = [c \in Conns |-> FALSE]
        /\ pc' = "end"
        /\ UNCHANGED <<url_frontier, visted_url, url, message, files>>

Next == \/ CheckQuota \/ Skip \/ Start \/ EndFill \/ Poll
        \/ \E c \in Conns : Receive(c)
        \/ EndRead \/ Redirect \/ ProcessHtml \/ EnqueueLink \/ EndLinks
        \/ ProcessPng \/ Other \/ NoContentType
        \/ Release \/ Teardown

Spec == Init /\ [][Next]_vars

\* main runs, and a transfer in flight is completed by some call of
\* curl_multi_perform if there is no end of them.
Fairness == /\ WF_vars(Next)
            /\ \A c \in Conns : SF_vars(Poll /\ c \in done')

FairSpec == Spec /\ Fairness

-------------------------------------------------------------------------------
\* While main is in its loop a handle is either free, once, or added to curl_multi
\* with its buffer allocated and its flag set. The test of the queue's size at
\* findpng3.c:103 and the test of in_use at findpng3.c:162 rest on it.
PoolAccounting ==
    pc # "end" => /\ IsInjective(free)
                  /\ Range(free) = Conns \ added
                  /\ buffer = added
                  /\ added = {c \in Conns : in_use[c]}

\* When main returns, no handle is left in curl_multi and no buffer allocated.
CleanEnd == pc = "end" => added = {} /\ done = {} /\ buffer = {}

\* No url is visited twice, ...
VisitedOnce == IsInjective(visted_url)

\* ... and two transfers in flight never fetch the same one.
OneTransferPerUrl ==
    \A c, d \in added : url[c] \in Visited /\ (url[c] = url[d] => c = d)

\* The quota is exact, however many PNGs one round of messages holds, and the
\* file has a line per PNG counted, or fewer when fopen failed.
QuotaExact ==
    /\ png_count <= NumPngs
    /\ Len(png_urls) <= png_count
    /\ FALSE \notin FopenResults => Len(png_urls) = png_count

\* curl_multi_wait failed, or a reply had no Content-Type.
BrokenOff == pc \in {"failed", "crashed"}

\* main gets to its end, unless the crawl breaks off: the handles all come back and
\* the loop ends, whatever the order in which transfers complete.
Termination == <>(pc = "end" \/ BrokenOff)

\* Every url that enters the frontier is visited, unless the quota is reached or
\* the crawl breaks off.
FrontierServed ==
    \A u \in Urls :
        u \in Range(url_frontier) ~>
            (u \in Visited \/ png_count >= NumPngs \/ BrokenOff)

\* The reply of conn has arrived; the other transfers are still open.
Handling == pc \in {"redirect", "body", "links", "release", "crashed"}

\* What find_http has still to queue of the page in hand, ...
Unqueued == IF pc \in {"redirect", "body", "links"} /\ IsHtml(resp)
            THEN LinksFrom(resp, i) ELSE {}

\* ... which the crawler has learnt of, as of all that it visited or queued.
Known == Visited \cup Range(url_frontier) \cup Unqueued

\* The urls whose reply has not arrived.
Open == {url[c] : c \in added \ {d \in {conn} : Handling}}

\* The crawler implements Crawl with no slack at all. A transfer that broke off
\* counts as a reply here.
Promise == INSTANCE Crawl WITH
    Quota    <- NumPngs,
    Slack    <- 0,
    known    <- Known,
    visited  <- Visited,
    open     <- Open,
    listed   <- png_urls,
    finished <- (pc = "end")

Refinement == Promise!Spec
===============================================================================
