------------------------------- MODULE FindPng2 -------------------------------
(***************************************************************************)
(* The multithreaded crawler p4/src/findpng2.c. One action is one critical *)
(* section of the code together with the thread-local steps around it;     *)
(* what the code does outside a lock is an action of its own, so every     *)
(* interleaving that a lock does not exclude is a behaviour of the model.  *)
(*                                                                         *)
(* pc says where an actor is. Pool threads:                                *)
(*   unborn   not yet created         bcast   num_working is 0, broadcast  *)
(*   loop     head of while (1)               is due                       *)
(*   wait     in pthread_cond_wait    drained left: frontier exhausted     *)
(*   woken    signalled, wants the    full    left: quota reached          *)
(*            mutex back              take    about to dequeue             *)
(*   quota    about to check png_count                                     *)
(* A crawl, by a pool thread or, for the seed, by main:                    *)
(*   admit (process_url), perform (the transfer), redirect (process_url of *)
(*   the effective url), parse (wants xml_mutex), links (in find_http),    *)
(*   test, write, count (process_png), cleanup                             *)
(* main after the seed: spawn (creating and joining threads), end.         *)
(*                                                                         *)
(* Definitions whose name starts with Bug are faulty variants of the       *)
(* definition that follows them; they stand for slips a later change of    *)
(* the code could make and show that each property below can fail.         *)
(***************************************************************************)
EXTENDS Web, Naturals, FiniteSets

CONSTANTS
    Threads,      \* the pool (option -t)
    Main,         \* the main thread
    NumPngs,      \* the PNGs asked for (option -m)
    FopenResults  \* may fopen of png_urls.txt succeed, may it fail

Actors == Threads \cup {Main}

ASSUME PoolAssumption ==
    /\ IsFiniteSet(Threads)
    /\ Threads # {}
    /\ Main \notin Threads
ASSUME OptionAssumption ==
    /\ NumPngs \in Nat
    /\ FopenResults \in (SUBSET BOOLEAN) \ {{}}

VARIABLES
    pc,            \* where each actor is
    url,           \* the url an actor is crawling (Seed when it has none)
    resp,          \* the reply it is processing (NoResponse when it has none)
    i,             \* its loop index in find_http
    url_frontier,  \* the queue of urls to visit
    visted_url,    \* the array of visited urls, and the hash table's keys
    num_working,   \* the idle-detection counter
    png_count,     \* the PNGs found
    png_urls,      \* the lines of png_urls.txt
    xml_locked     \* xml_mutex is held

locals == <<url, resp, i>>
vars == <<pc, url, resp, i, url_frontier, visted_url, num_working,
          png_count, png_urls, xml_locked>>

Go(a, label) == pc' = [pc EXCEPT ![a] = label]

Idle     == {"wait", "woken", "bcast", "drained"}
Exited   == {"drained", "full"}
Fetched  == {"redirect", "parse", "links", "test", "write", "count", "cleanup"}
Crawling == {"admit", "perform"} \cup Fetched
Pooled   == {"unborn", "loop", "quota", "take", "full"} \cup Idle \cup Crawling

TypeOK ==
    /\ pc \in [Actors -> Pooled \cup {"spawn", "end"}]
    /\ \A t \in Threads : pc[t] \in Pooled
    /\ pc[Main] \in Crawling \cup {"spawn", "end"}
    /\ url \in [Actors -> Urls]
    /\ resp \in [Actors -> Response]
    /\ i \in [Actors -> Nat]
    /\ url_frontier \in Seq(Urls)
    /\ visted_url \in Seq(Urls)
    /\ num_working \in Nat
    /\ png_count \in Nat
    /\ png_urls \in Seq(Urls)
    /\ xml_locked \in BOOLEAN

-------------------------------------------------------------------------------
(* Start: main is about to call process_url(seed_url). *)

Init ==
    /\ pc = [a \in Actors |-> IF a = Main THEN "admit" ELSE "unborn"]
    /\ url = [a \in Actors |-> Seed]
    /\ resp = [a \in Actors |-> NoResponse]
    /\ i = [a \in Actors |-> 0]
    /\ url_frontier = <<>>
    /\ visted_url = <<>>
    /\ num_working = Cardinality(Threads)
    /\ png_count = 0
    /\ png_urls = <<>>
    /\ xml_locked = FALSE

-------------------------------------------------------------------------------
(* thread_process_url: waiting for work and leaving. *)

\* The frontier is looked at and, when it is empty, the thread goes to sleep
\* unless it was the last one at work: one hold of url_frontier_mutex.
CheckFrontier(t) ==
    /\ pc[t] = "loop"
    /\ \/ /\ url_frontier # <<>>
          /\ Go(t, "quota")
          /\ UNCHANGED num_working
       \/ /\ url_frontier = <<>>
          /\ num_working' = num_working - 1
          /\ Go(t, IF num_working' = 0 THEN "bcast" ELSE "wait")
    /\ UNCHANGED <<locals, url_frontier, visted_url, png_count, png_urls, xml_locked>>

BugBroadcast(t) ==  \* the last thread leaves silently
    /\ pc[t] = "bcast"
    /\ Go(t, "drained")
    /\ UNCHANGED <<locals, url_frontier, visted_url, num_working, png_count,
                   png_urls, xml_locked>>

\* The last thread at work wakes the sleepers, after it gave up the mutex.
Broadcast(t) ==
    /\ pc[t] = "bcast"
    /\ pc' = [a \in Actors |-> CASE a = t           -> "drained"
                                 [] pc[a] = "wait"  -> "woken"
                                 [] OTHER           -> pc[a]]
    /\ UNCHANGED <<locals, url_frontier, visted_url, num_working, png_count,
                   png_urls, xml_locked>>

BugWake(t) ==  \* num_working++ is forgotten
    /\ pc[t] = "woken"
    /\ Go(t, IF num_working = 0 THEN "drained" ELSE "quota")
    /\ UNCHANGED <<locals, url_frontier, visted_url, num_working, png_count,
                   png_urls, xml_locked>>

\* Back from pthread_cond_wait with the mutex: leave if nobody is at work,
\* else count as working again, without a second look at the frontier.
Wake(t) ==
    /\ pc[t] = "woken"
    /\ \/ /\ num_working = 0
          /\ Go(t, "drained")
          /\ UNCHANGED num_working
       \/ /\ num_working # 0
          /\ num_working' = num_working + 1
          /\ Go(t, "quota")
    /\ UNCHANGED <<locals, url_frontier, visted_url, png_count, png_urls, xml_locked>>

\* POSIX lets pthread_cond_wait return without a signal.
SpuriousWakeup(t) ==
    /\ pc[t] = "wait"
    /\ Go(t, "woken")
    /\ UNCHANGED <<locals, url_frontier, visted_url, num_working, png_count,
                   png_urls, xml_locked>>
BugQuotaReached == png_count > NumPngs  \* off by one

QuotaReached == png_count >= NumPngs

\* The quota is checked; a thread that leaves here leaves num_working alone.
CheckQuota(t) ==
    /\ pc[t] = "quota"
    /\ Go(t, IF QuotaReached THEN "full" ELSE "take")
    /\ UNCHANGED <<locals, url_frontier, visted_url, num_working, png_count,
                   png_urls, xml_locked>>

BugTake(t) ==  \* dequeue empties the queue as if it held one node
    /\ pc[t] = "take"
    /\ \/ /\ url_frontier = <<>>
          /\ Go(t, "loop")
          /\ UNCHANGED <<url, url_frontier>>
       \/ /\ url_frontier # <<>>
          /\ url' = [url EXCEPT ![t] = Head(url_frontier)]
          /\ url_frontier' = <<>>
          /\ Go(t, "admit")
    /\ UNCHANGED <<resp, i, visted_url, num_working, png_count, png_urls, xml_locked>>

\* A url is taken off the frontier, which may have been emptied meanwhile.
Take(t) ==
    /\ pc[t] = "take"
    /\ \/ /\ url_frontier = <<>>
          /\ Go(t, "loop")
          /\ UNCHANGED <<url, url_frontier>>
       \/ /\ url_frontier # <<>>
          /\ url' = [url EXCEPT ![t] = Head(url_frontier)]
          /\ url_frontier' = Tail(url_frontier)
          /\ Go(t, "admit")
    /\ UNCHANGED <<resp, i, visted_url, num_working, png_count, png_urls, xml_locked>>

-------------------------------------------------------------------------------
(* crawl: visiting one url. *)

Visited == Range(visted_url)

BugProcessUrl(u) ==  \* no search before the url is entered
    visted_url' = Append(visted_url, u)

\* process_url: the hash table is searched and extended under one hold of
\* visted_url_mutex. TRUE for a url that had not been visited.
ProcessUrl(u) ==
    visted_url' = IF u \in Visited THEN visted_url ELSE Append(visted_url, u)

BugAdmit(a) ==  \* the result of process_url is ignored
    /\ pc[a] = "admit"
    /\ ProcessUrl(url[a])
    /\ Go(a, "perform")
    /\ UNCHANGED <<url, resp, i, url_frontier, num_working, png_count, png_urls,
                   xml_locked>>

\* A pool thread drops a url that was visited before; main crawls the seed
\* whatever process_url says.
Admit(a) ==
    /\ pc[a] = "admit"
    /\ ProcessUrl(url[a])
    /\ \/ /\ a = Main \/ url[a] \notin Visited
          /\ Go(a, "perform")
          /\ UNCHANGED url
       \/ /\ a # Main /\ url[a] \in Visited
          /\ Go(a, "loop")
          /\ url' = [url EXCEPT ![a] = Seed]
    /\ UNCHANGED <<resp, i, url_frontier, num_working, png_count, png_urls, xml_locked>>

\* What process_data does with a reply once a redirection is dealt with.
ByContentType(r) == CASE r.ctype = "html" -> "parse"
                      [] r.ctype = "png"  -> "test"
                      [] OTHER            -> "cleanup"

\* curl_easy_perform returns with some reply and process_data classifies it.
Perform(a) ==
    /\ pc[a] = "perform"
    /\ \E r \in Responses[url[a]] :
          /\ resp' = [resp EXCEPT ![a] = r]
          /\ Go(a, CASE ~(r.complete /\ r.accepted) -> "cleanup"
                     [] r.complete /\ IsRedirect(r)  -> "redirect"
                     [] OTHER                        -> ByContentType(r))
    /\ UNCHANGED <<url, i, url_frontier, visted_url, num_working, png_count,
                   png_urls, xml_locked>>

\* The effective url of a redirection is marked visited; the reply is used
\* even if it had been visited before.
Redirect(a) ==
    /\ pc[a] = "redirect"
    /\ ProcessUrl(resp[a].eff)
    /\ Go(a, ByContentType(resp[a]))
    /\ UNCHANGED <<locals, url_frontier, num_working, png_count, png_urls, xml_locked>>

\* process_html: xml_mutex is held for the whole of find_http.
LockXml(a) ==
    /\ pc[a] = "parse"
    /\ ~xml_locked
    /\ xml_locked' = TRUE
    /\ Go(a, "links")
    /\ UNCHANGED <<locals, url_frontier, visted_url, num_working, png_count, png_urls>>

\* pthread_cond_signal: one sleeper, if there is one.
Signal ==
    LET sleepers == {t \in Threads : pc[t] = "wait"}
    IN  \/ sleepers = {} /\ UNCHANGED pc
        \/ \E t \in sleepers : Go(t, "woken")

\* One turn of the loop in find_http: an href that is an http url goes to the
\* frontier and a sleeper is signalled, under url_frontier_mutex.
EnqueueLink(a) ==
    /\ pc[a] = "links"
    /\ i[a] < Len(resp[a].links)
    /\ i' = [i EXCEPT ![a] = @ + 1]
    /\ LET href == resp[a].links[i[a] + 1]
       IN  \/ /\ href = NotHttp
              /\ UNCHANGED <<pc, url_frontier>>
           \/ /\ href # NotHttp
              /\ url_frontier' = Append(url_frontier, href)
              /\ Signal
    /\ UNCHANGED <<url, resp, visted_url, num_working, png_count, png_urls, xml_locked>>

BugUnlockXml(a) ==  \* the loop may stop one href early
    /\ pc[a] = "links"
    /\ i[a] + 1 >= Len(resp[a].links)
    /\ xml_locked' = FALSE
    /\ Go(a, "cleanup")
    /\ UNCHANGED <<locals, url_frontier, visted_url, num_working, png_count, png_urls>>

\* The loop is over and xml_mutex is given up.
UnlockXml(a) ==
    /\ pc[a] = "links"
    /\ i[a] >= Len(resp[a].links)
    /\ xml_locked' = FALSE
    /\ Go(a, "cleanup")
    /\ UNCHANGED <<locals, url_frontier, visted_url, num_working, png_count, png_urls>>

\* process_png: the signature and the quota are tested without a lock.
TestPng(a) ==
    /\ pc[a] = "test"
    /\ Go(a, IF resp[a].sig /\ ~QuotaReached THEN "write" ELSE "cleanup")
    /\ UNCHANGED <<locals, url_frontier, visted_url, num_working, png_count,
                   png_urls, xml_locked>>

\* write_url: the url becomes the last line of png_urls.txt. Nothing is written when
\* fopen fails, and no caller looks at the result.
WriteUrl(u) ==
    \E opened \in FopenResults :
        png_urls' = IF opened THEN Append(png_urls, u) ELSE png_urls

\* The url is appended to png_urls.txt under png_url_file_mutex.
WritePng(a) ==
    /\ pc[a] = "write"
    /\ WriteUrl(resp[a].eff)
    /\ Go(a, "count")
    /\ UNCHANGED <<locals, url_frontier, visted_url, num_working, png_count, xml_locked>>

BugCountPng(a) ==  \* the increment is lost
    /\ pc[a] = "count"
    /\ Go(a, "cleanup")
    /\ UNCHANGED <<locals, url_frontier, visted_url, num_working, png_count,
                   png_urls, xml_locked>>

\* The PNG is counted under png_count_mutex.
CountPng(a) ==
    /\ pc[a] = "count"
    /\ png_count' = png_count + 1
    /\ Go(a, "cleanup")
    /\ UNCHANGED <<locals, url_frontier, visted_url, num_working, png_urls, xml_locked>>

\* The transfer's handle and buffer are released: a pool thread goes round
\* its loop, main goes on to create the pool.
Cleanup(a) ==
    /\ pc[a] = "cleanup"
    /\ Go(a, IF a = Main THEN "spawn" ELSE "loop")
    /\ url' = [url EXCEPT ![a] = Seed]
    /\ resp' = [resp EXCEPT ![a] = NoResponse]
    /\ i' = [i EXCEPT ![a] = 0]
    /\ UNCHANGED <<url_frontier, visted_url, num_working, png_count, png_urls, xml_locked>>

-------------------------------------------------------------------------------
(* main after the seed. *)

Spawn(t) ==
    /\ pc[Main] = "spawn"
    /\ pc[t] = "unborn"
    /\ Go(t, "loop")
    /\ UNCHANGED <<locals, url_frontier, visted_url, num_working, png_count,
                   png_urls, xml_locked>>

\* All threads are joined; main tears down and returns.
Join ==
    /\ pc[Main] = "spawn"
    /\ \A t \in Threads : pc[t] \in Exited
    /\ Go(Main, "end")
    /\ UNCHANGED <<locals, url_frontier, visted_url, num_working, png_count,
                   png_urls, xml_locked>>

CrawlStep(a) == \/ Admit(a) \/ Perform(a) \/ Redirect(a)
                \/ LockXml(a) \/ EnqueueLink(a) \/ UnlockXml(a)
                \/ TestPng(a) \/ WritePng(a) \/ CountPng(a)
                \/ Cleanup(a)

PoolStep(t) == \/ CheckFrontier(t) \/ Broadcast(t) \/ Wake(t)
               \/ CheckQuota(t) \/ Take(t)

MainStep == Join \/ \E t \in Threads : Spawn(t)

Next == \/ \E a \in Actors : CrawlStep(a)
        \/ \E t \in Threads : PoolStep(t) \/ SpuriousWakeup(t)
        \/ MainStep

Spec == Init /\ [][Next]_vars

\* The scheduler runs every thread that can take a step, a mutex is handed on,
\* and every transfer ends. A spurious wakeup is never owed, and a run does not
\* consist of them for ever.
Fairness == /\ \A a \in Actors : WF_vars(CrawlStep(a))
            /\ \A t \in Threads : WF_vars(PoolStep(t))
            /\ WF_vars(MainStep)
            /\ <>[][\A t \in Threads : ~SpuriousWakeup(t)]_vars

FairSpec == Spec /\ Fairness

-------------------------------------------------------------------------------
(* Idle detection. *)

Working == {t \in Threads : pc[t] \notin Idle}

\* num_working, which main sets to num_threads and the threads count down and
\* up, is the number of threads that are not waiting or gone for lack of work.
\* A thread that left at the quota stays counted (findpng2.c:183-186).
WorkingCount == num_working = Cardinality(Working)

\* No lost wakeup: while a thread sleeps on url_frontier_cond there is a thread
\* that is at work, is about to broadcast, or left at the quota.
SleeperHasWaker ==
    (\E t \in Threads : pc[t] = "wait")
        => \E t \in Threads : pc[t] \notin {"wait", "woken", "drained"}

\* A thread leaves for lack of work only when there is none: the frontier is
\* empty, nobody is crawling and so nobody can fill it again, and nobody has
\* left at the quota.
LeaveTogether ==
    (\E t \in Threads : pc[t] \in {"bcast", "drained"})
        => /\ url_frontier = <<>>
           /\ \A a \in Actors : pc[a] \notin Crawling \cup {"full"}

\* From the moment num_working is 0 nothing is found, visited or listed.
FrozenAtZero ==
    [][num_working = 0
          => UNCHANGED <<url_frontier, visted_url, png_urls, png_count>>]_vars

-------------------------------------------------------------------------------
(* Visiting. *)

\* No url is in visted_url twice, so the array needs a slot per url of the site
\* and the log of -v names each once.
VisitedOnce == IsInjective(visted_url)

\* No two actors fetch the same url at the same time, although it may have been
\* in the frontier many times, and what is being fetched is marked visited.
OneFetchPerUrl ==
    \A a, b \in Actors :
        pc[a] \in {"perform"} \cup Fetched =>
            /\ url[a] \in Visited
            /\ a # b /\ pc[b] \in {"perform"} \cup Fetched => url[a] # url[b]

Parsing == {a \in Actors : pc[a] = "links"}

\* find_http, with libxml2's parser and its cleanup, runs in one actor at a time.
XmlExclusive == Cardinality(Parsing) = IF xml_locked THEN 1 ELSE 0

-------------------------------------------------------------------------------
(* Listing. *)

Listing  == {a \in Actors : pc[a] \in {"write", "count"}}
Counting == {a \in Actors : pc[a] = "count"}

\* The unlocked quota test lets each thread but one run past the quota once.
QuotaSlack ==
    png_count + Cardinality(Listing) <= NumPngs + Cardinality(Threads) - 1

FopenReliable == FALSE \notin FopenResults

\* The file has a line for every PNG counted or about to be, and no other; it
\* has fewer when fopen failed.
FileMatchesCount ==
    LET found == png_count + Cardinality(Counting)
    IN  /\ Len(png_urls) <= found
        /\ FopenReliable => Len(png_urls) = found

\* A url is listed once for each visited url that leads to it, at most: its
\* own visit and those of the urls redirected to it.
ListedPerVisit ==
    \A p \in Range(png_urls) :
        Cardinality({k \in DOMAIN png_urls : png_urls[k] = p})
            <= Cardinality({u \in Visited : \E r \in Responses[u] :
                              r.complete /\ IsPng(r) /\ r.eff = p})

\* The number of PNGs asked for is the number found, at most (the "number of
\* valid png links" of p4/starter/tools/run_lab4.sh:43).
QuotaExact == png_count <= NumPngs

-------------------------------------------------------------------------------
(* Progress, under FairSpec. *)

\* main joins every thread and returns (findpng2.c:98, "Wait for all threads
\* to exit").
Termination == <>(pc[Main] = "end")

\* main returns, unless a thread that left at the quota leaves another asleep.
OnlyQuotaStrands ==
    <>(\/ pc[Main] = "end"
       \/ /\ \E t \in Threads : pc[t] = "full"
          /\ \E t \in Threads : pc[t] = "wait")

\* Every url that enters the frontier is visited, unless the quota is reached.
FrontierServed ==
    \A u \in Urls : u \in Range(url_frontier) ~> (u \in Visited \/ QuotaReached)

-------------------------------------------------------------------------------
(* The abstract crawler this one implements. *)

\* The urls between a queue and their visit: taken off the frontier but not yet
\* admitted, or links of a page that is still to be parsed.
InHand == {url[a] : a \in {b \in Actors : pc[b] = "admit"}}
Unread == UNION {LinksFrom(resp[a], i[a]) :
                   a \in {b \in Actors : /\ pc[b] \in {"redirect", "parse", "links"}
                                        /\ IsHtml(resp[b])}}

\* The urls the crawler has learnt of, and those whose reply has not arrived.
Known == Visited \cup Range(url_frontier) \cup InHand \cup Unread
Open  == {url[a] : a \in {b \in Actors : pc[b] = "perform"}}

\* What a transfer of a url amounts to: one that broke off brings nothing.
Replies == [u \in Urls |->
              {IF r.complete THEN r ELSE NoResponse : r \in Responses[u]}]

Promise == INSTANCE Crawl WITH
    Responses <- Replies,
    Quota     <- NumPngs,
    Slack     <- Cardinality(Threads) - 1,
    known     <- Known,
    visited   <- Visited,
    open      <- Open,
    listed    <- png_urls,
    finished  <- (pc[Main] = "end")

\* Every behaviour is one of Crawl, with a slack of one PNG per further thread.
Refinement == Promise!Spec
===============================================================================
