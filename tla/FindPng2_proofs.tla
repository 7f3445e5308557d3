--------------------------- MODULE FindPng2_proofs ---------------------------
(***************************************************************************)
(* Theorems about FindPng2 for every pool, site and quota: types and idle  *)
(* detection first, then visiting, fetching, listing and the parser, then  *)
(* that it implements Crawl, with a slack of one PNG per thread but one,   *)
(* as long as png_urls.txt can be opened, and last that a url gets as many *)
(* lines as there are visits that lead to it.                              *)
(***************************************************************************)
EXTENDS FindPng2, SeqLemmas, FiniteSetTheorems

-------------------------------------------------------------------------------
(* Types. *)

LEMMA NoResponseType == NoResponse \in Response
BY SiteAssumption DEF NoResponse, Response

LEMMA TypeInit == Init => TypeOK
<1> USE SiteAssumption, PoolAssumption, OptionAssumption, NoResponseType
<1> SUFFICES ASSUME Init PROVE TypeOK
  OBVIOUS
<1>1. Cardinality(Threads) \in Nat
  BY FS_CardinalityType
<1>2. /\ pc \in [Actors -> Pooled \cup {"spawn", "end"}]
      /\ \A t \in Threads : pc[t] \in Pooled
      /\ pc[Main] \in Crawling \cup {"spawn", "end"}
  BY DEF Init, Actors, Pooled, Crawling
<1>3. /\ url \in [Actors -> Urls]
      /\ resp \in [Actors -> Response]
      /\ i \in [Actors -> Nat]
  BY DEF Init
<1>4. /\ url_frontier \in Seq(Urls)
      /\ visted_url \in Seq(Urls)
      /\ png_urls \in Seq(Urls)
      /\ png_count \in Nat
  BY DEF Init
<1>5. xml_locked \in BOOLEAN
  BY DEF Init
<1>6. num_working \in Nat
  BY <1>1 DEF Init
<1> QED
  BY <1>2, <1>3, <1>4, <1>5, <1>6 DEF TypeOK

\* A crawl keeps the types.
LEMMA TypeCrawl ==
  ASSUME NEW a \in Actors, CrawlStep(a), TypeOK
  PROVE  TypeOK'
<1> USE PoolAssumption
    DEF TypeOK, Actors, Pooled, Crawling, Fetched, Idle, locals, Go
<1>1. CASE Admit(a)
  <2>1. visted_url' \in Seq(Urls)
    BY <1>1 DEF Admit, ProcessUrl
  <2>2. /\ pc' \in [Actors -> Pooled \cup {"spawn", "end"}]
        /\ \A t \in Threads : pc'[t] \in Pooled
        /\ pc'[Main] \in Crawling \cup {"spawn", "end"}
    BY <1>1 DEF Admit
  <2> QED
    BY <1>1, <2>1, <2>2, SiteAssumption DEF Admit
<1>2. CASE Perform(a)
  <2>1. PICK r \in Responses[url[a]] : resp' = [resp EXCEPT ![a] = r]
    BY <1>2 DEF Perform
  <2>2. r \in Response
    BY <2>1, SiteAssumption
  <2> QED
    BY <1>2, <2>1, <2>2 DEF Perform, ByContentType
<1>3. CASE Redirect(a)
  <2>1. resp[a].eff \in Urls
    BY DEF Response
  <2> QED
    BY <1>3, <2>1 DEF Redirect, ProcessUrl, ByContentType
<1>4. CASE LockXml(a)
  BY <1>4 DEF LockXml
<1>5. CASE EnqueueLink(a)
  <2>1. /\ i[a] \in Nat
        /\ resp[a].links \in Seq(Urls \cup {NotHttp})
    BY DEF Response
  <2>2. resp[a].links[i[a] + 1] \in Urls \cup {NotHttp}
    BY <1>5, <2>1 DEF EnqueueLink
  <2>3. url_frontier' \in Seq(Urls)
    <3> DEFINE href == resp[a].links[i[a] + 1]
    <3>1. \/ url_frontier' = url_frontier
          \/ href # NotHttp /\ url_frontier' = Append(url_frontier, href)
      BY <1>5 DEF EnqueueLink
    <3>2. href \in Urls \cup {NotHttp}
      BY <2>2
    <3>3. href # NotHttp => Append(url_frontier, href) \in Seq(Urls)
      <4> SUFFICES ASSUME href # NotHttp PROVE Append(url_frontier, href) \in Seq(Urls)
        OBVIOUS
      <4>1. href \in Urls /\ url_frontier \in Seq(Urls)
        BY <3>2
      <4> HIDE DEF href
      <4> QED
        BY <4>1
    <3> QED
      BY <3>1, <3>3
  <2>4. /\ pc' \in [Actors -> Pooled \cup {"spawn", "end"}]
        /\ \A t \in Threads : pc'[t] \in Pooled
        /\ pc'[Main] \in Crawling \cup {"spawn", "end"}
    BY <1>5 DEF EnqueueLink, Signal
  <2> QED
    BY <1>5, <2>1, <2>3, <2>4 DEF EnqueueLink
<1>6. CASE UnlockXml(a)
  BY <1>6 DEF UnlockXml
<1>7. CASE TestPng(a)
  BY <1>7 DEF TestPng
<1>8. CASE WritePng(a)
  <2>1. resp[a].eff \in Urls
    BY DEF Response
  <2> QED
    BY <1>8, <2>1 DEF WritePng, WriteUrl
<1>9. CASE CountPng(a)
  BY <1>9 DEF CountPng
<1>10. CASE Cleanup(a)
  BY <1>10, NoResponseType, SiteAssumption DEF Cleanup
<1> QED
  BY <1>1, <1>2, <1>3, <1>4, <1>5, <1>6, <1>7, <1>8, <1>9, <1>10 DEF CrawlStep

\* So does a step of a pool thread between two crawls, or of main after its own.
LEMMA TypePool ==
  ASSUME NEW t \in Threads, PoolStep(t) \/ SpuriousWakeup(t), TypeOK,
         num_working # 0 \/ pc[t] # "loop"
  PROVE  TypeOK'
<1> USE PoolAssumption
    DEF TypeOK, Actors, Pooled, Crawling, Fetched, Idle, locals, Go
<1>1. CASE CheckFrontier(t)
  <2>1. num_working' \in Nat
    BY <1>1 DEF CheckFrontier
  <2>2. /\ pc' \in [Actors -> Pooled \cup {"spawn", "end"}]
        /\ \A s \in Threads : pc'[s] \in Pooled
        /\ pc'[Main] \in Crawling \cup {"spawn", "end"}
    BY <1>1 DEF CheckFrontier
  <2> QED
    BY <1>1, <2>1, <2>2 DEF CheckFrontier
<1>2. CASE Broadcast(t)
  <2>1. /\ pc' \in [Actors -> Pooled \cup {"spawn", "end"}]
        /\ \A s \in Threads : pc'[s] \in Pooled
        /\ pc'[Main] \in Crawling \cup {"spawn", "end"}
    BY <1>2 DEF Broadcast
  <2> QED
    BY <1>2, <2>1 DEF Broadcast
<1>3. CASE Wake(t)
  <2>1. num_working' \in Nat
    BY <1>3 DEF Wake
  <2>2. /\ pc' \in [Actors -> Pooled \cup {"spawn", "end"}]
        /\ \A s \in Threads : pc'[s] \in Pooled
        /\ pc'[Main] \in Crawling \cup {"spawn", "end"}
    BY <1>3 DEF Wake
  <2> QED
    BY <1>3, <2>1, <2>2 DEF Wake
<1>4. CASE CheckQuota(t)
  BY <1>4 DEF CheckQuota
<1>5. CASE Take(t)
  <2>1. /\ url_frontier' \in Seq(Urls)
        /\ url' \in [Actors -> Urls]
    <3>1. CASE url_frontier = <<>>
      BY <1>5, <3>1 DEF Take
    <3>2. CASE url_frontier # <<>>
      <4>1. Head(url_frontier) \in Urls /\ Tail(url_frontier) \in Seq(Urls)
        BY <3>2, HeadTail
      <4>2. url' = [url EXCEPT ![t] = Head(url_frontier)] /\ url_frontier' = Tail(url_frontier)
        BY <1>5, <3>2 DEF Take
      <4> QED
        BY <4>1, <4>2
    <3> QED
      BY <3>1, <3>2
  <2>2. /\ pc' \in [Actors -> Pooled \cup {"spawn", "end"}]
        /\ \A s \in Threads : pc'[s] \in Pooled
        /\ pc'[Main] \in Crawling \cup {"spawn", "end"}
    BY <1>5 DEF Take
  <2> QED
    BY <1>5, <2>1, <2>2 DEF Take
<1>6. CASE SpuriousWakeup(t)
  BY <1>6 DEF SpuriousWakeup
<1> QED
  BY <1>1, <1>2, <1>3, <1>4, <1>5, <1>6 DEF PoolStep

LEMMA TypeMain ==
  ASSUME MainStep, TypeOK
  PROVE  TypeOK'
<1> USE PoolAssumption
    DEF TypeOK, Actors, Pooled, Crawling, Fetched, Idle, locals, Go
<1>1. CASE Join
  BY <1>1 DEF Join
<1>2. ASSUME NEW t \in Threads, Spawn(t)
      PROVE  TypeOK'
  BY <1>2 DEF Spawn
<1> QED
  BY <1>1, <1>2 DEF MainStep

-------------------------------------------------------------------------------
(* Idle detection. *)

\* Main crawls only before the pool exists.
MainFirst == pc[Main] \in Crawling => \A t \in Threads : pc[t] = "unborn"

\* The counter reaches zero over an empty frontier, which then stays empty.
EmptyAtZero == num_working = 0 => url_frontier = <<>>

\* Only the zero counter makes a thread leave for lack of work.
ZeroWhenLeaving ==
    \A t \in Threads : pc[t] \in {"bcast", "drained"} => num_working = 0

\* At zero the broadcast is still due as long as a thread sleeps.
BroadcastDue ==
    num_working = 0 /\ (\E t \in Threads : pc[t] = "wait")
        => \E t \in Threads : pc[t] = "bcast"

\* The inductive invariant behind the idle detection.
IdleInv == /\ TypeOK
           /\ WorkingCount
           /\ MainFirst
           /\ EmptyAtZero
           /\ ZeroWhenLeaving
           /\ BroadcastDue

LEMMA WorkingFinite == IsFiniteSet(Working) /\ Cardinality(Working) \in Nat
BY PoolAssumption, FS_Subset, FS_CardinalityType DEF Working

\* A thread that is not idle keeps the counter above zero, ...
LEMMA BusyCounts ==
  ASSUME TypeOK, WorkingCount, NEW t \in Threads, pc[t] \notin Idle
  PROVE  num_working # 0
<1>1. t \in Working
  BY DEF Working
<1>2. Cardinality(Working) # 0
  BY <1>1, WorkingFinite, FS_EmptySet
<1> QED
  BY <1>2 DEF WorkingCount

\* ... and so does a crawl, main's included.
LEMMA CrawlCounts ==
  ASSUME TypeOK, WorkingCount, MainFirst,
         NEW a \in Actors, pc[a] \in Crawling
  PROVE  num_working # 0
<1>1. CASE a \in Threads
  BY <1>1, BusyCounts DEF Crawling, Fetched, Idle
<1>2. CASE a = Main
  <2>1. PICK t \in Threads : TRUE
    BY PoolAssumption
  <2>2. pc[t] = "unborn"
    BY <1>2 DEF MainFirst
  <2> QED
    BY <2>2, BusyCounts DEF Idle
<1> QED
  BY <1>1, <1>2 DEF Actors

\* A step that moves no thread between idle and working keeps the count.
LEMMA SameWorkers ==
  ASSUME WorkingCount, num_working' = num_working,
         \A t \in Threads : pc'[t] \in Idle <=> pc[t] \in Idle
  PROVE  WorkingCount'
<1>1. Working' = Working
  BY DEF Working
<1> QED
  BY <1>1 DEF WorkingCount

LEMMA IdleInit == Init => IdleInv
<1> SUFFICES ASSUME Init PROVE IdleInv
  OBVIOUS
<1>1. TypeOK
  BY TypeInit
<1>2. \A t \in Threads : pc[t] = "unborn"
  BY PoolAssumption DEF Init, Actors
<1>3. Working = Threads
  BY <1>2 DEF Working, Idle
<1>4. WorkingCount
  BY <1>3 DEF Init, WorkingCount
<1>5. EmptyAtZero
  BY DEF Init, EmptyAtZero
<1> QED
  BY <1>1, <1>2, <1>4, <1>5 DEF IdleInv, MainFirst, ZeroWhenLeaving, BroadcastDue

\* What a step of a crawl does to pc: the actor moves on in its crawl, or ends
\* it, and at most one sleeper is woken.
LEMMA CrawlMoves ==
  ASSUME NEW a \in Actors, CrawlStep(a), TypeOK
  PROVE  /\ pc[a] \in Crawling
         /\ pc'[a] \in Crawling \/ pc'[a] = IF a = Main THEN "spawn" ELSE "loop"
         /\ \A b \in Actors \ {a} :
               \/ pc'[b] = pc[b]
               \/ b \in Threads /\ pc[b] = "wait" /\ pc'[b] = "woken"
         /\ num_working' = num_working
<1> USE PoolAssumption
    DEF TypeOK, Actors, Crawling, Fetched, Idle, locals, Go
<1>1. CASE Admit(a)
  BY <1>1 DEF Admit
<1>2. CASE Perform(a)
  BY <1>2 DEF Perform, ByContentType
<1>3. CASE Redirect(a)
  BY <1>3 DEF Redirect, ByContentType
<1>4. CASE LockXml(a)
  BY <1>4 DEF LockXml
<1>5. CASE EnqueueLink(a)
  <2>1. UNCHANGED pc \/ Signal
    BY <1>5 DEF EnqueueLink
  <2>2. UNCHANGED pc \/ \E t \in Threads : pc[t] = "wait" /\ pc' = [pc EXCEPT ![t] = "woken"]
    BY <2>1 DEF Signal
  <2>3. pc[a] = "links" /\ num_working' = num_working
    BY <1>5 DEF EnqueueLink
  <2> QED
    BY <2>2, <2>3
<1>6. CASE UnlockXml(a)
  BY <1>6 DEF UnlockXml
<1>7. CASE TestPng(a)
  BY <1>7 DEF TestPng
<1>8. CASE WritePng(a)
  BY <1>8 DEF WritePng
<1>9. CASE CountPng(a)
  BY <1>9 DEF CountPng
<1>10. CASE Cleanup(a)
  BY <1>10 DEF Cleanup
<1> QED
  BY <1>1, <1>2, <1>3, <1>4, <1>5, <1>6, <1>7, <1>8, <1>9, <1>10 DEF CrawlStep

LEMMA IdleCrawl ==
  ASSUME NEW a \in Actors, CrawlStep(a), IdleInv
  PROVE  IdleInv'
<1> USE PoolAssumption DEF IdleInv
<1>1. TypeOK'
  BY TypeCrawl
<1>2. /\ pc[a] \in Crawling
      /\ pc'[a] \in Crawling \/ pc'[a] = IF a = Main THEN "spawn" ELSE "loop"
      /\ \A b \in Actors \ {a} :
            \/ pc'[b] = pc[b]
            \/ b \in Threads /\ pc[b] = "wait" /\ pc'[b] = "woken"
      /\ num_working' = num_working
  BY CrawlMoves
<1>3. num_working # 0
  BY <1>2, CrawlCounts
<1>4. \A t \in Threads : pc'[t] \in Idle <=> pc[t] \in Idle
  BY <1>2 DEF Actors, Idle, Crawling, Fetched
<1>5. WorkingCount'
  BY <1>2, <1>4, SameWorkers
<1>6. MainFirst'
  <2> SUFFICES ASSUME pc'[Main] \in Crawling, NEW t \in Threads
               PROVE  pc'[t] = "unborn"
    BY DEF MainFirst
  <2>1. pc[Main] \in Crawling
    BY <1>2 DEF Actors, Crawling, Fetched
  <2>2. pc[t] = "unborn"
    BY <2>1 DEF MainFirst
  <2>3. t # a
    BY <1>2, <2>2 DEF Crawling, Fetched
  <2> QED
    BY <1>2, <2>2, <2>3 DEF Actors
<1>7. EmptyAtZero'
  BY <1>2, <1>3 DEF EmptyAtZero
<1>8. ZeroWhenLeaving'
  <2> SUFFICES ASSUME NEW t \in Threads
               PROVE  pc'[t] \notin {"bcast", "drained"}
    BY DEF ZeroWhenLeaving
  <2>1. pc[t] \notin {"bcast", "drained"}
    BY <1>3 DEF ZeroWhenLeaving
  <2> QED
    BY <1>2, <2>1 DEF Actors, Crawling, Fetched
<1>9. BroadcastDue'
  BY <1>2, <1>3 DEF BroadcastDue
<1> QED
  BY <1>1, <1>5, <1>6, <1>7, <1>8, <1>9

\* A thread that finds the frontier empty stops working, ...
LEMMA CheckFrontierCounts ==
  ASSUME NEW t \in Threads, CheckFrontier(t), TypeOK, WorkingCount
  PROVE  WorkingCount'
<1> USE PoolAssumption DEF TypeOK, Actors, Go
<1>1. CASE url_frontier # <<>>
  <2>1. num_working' = num_working /\ pc' = [pc EXCEPT ![t] = "quota"] /\ pc[t] = "loop"
    BY <1>1 DEF CheckFrontier
  <2>2. \A s \in Threads : pc'[s] \in Idle <=> pc[s] \in Idle
    BY <2>1 DEF Idle
  <2> QED
    BY <2>1, <2>2, SameWorkers
<1>2. CASE url_frontier = <<>>
  <2>1. /\ num_working' = num_working - 1
        /\ pc[t] = "loop"
        /\ pc' = [pc EXCEPT ![t] = IF num_working' = 0 THEN "bcast" ELSE "wait"]
    BY <1>2 DEF CheckFrontier
  <2>2. t \in Working
    BY <2>1 DEF Working, Idle
  <2>3. Working' = Working \ {t}
    BY <2>1 DEF Working, Idle
  <2>4. Cardinality(Working') = Cardinality(Working) - 1
    BY <2>2, <2>3, WorkingFinite, FS_RemoveElement
  <2> QED
    BY <2>1, <2>4 DEF WorkingCount
<1> QED
  BY <1>1, <1>2

\* ... and one that wakes up to a counter above zero works again.
LEMMA WakeCounts ==
  ASSUME NEW t \in Threads, Wake(t), TypeOK, WorkingCount
  PROVE  WorkingCount'
<1> USE PoolAssumption DEF TypeOK, Actors, Go
<1>1. CASE num_working = 0
  <2>1. num_working' = num_working /\ pc' = [pc EXCEPT ![t] = "drained"] /\ pc[t] = "woken"
    BY <1>1 DEF Wake
  <2>2. \A s \in Threads : pc'[s] \in Idle <=> pc[s] \in Idle
    BY <2>1 DEF Idle
  <2> QED
    BY <2>1, <2>2, SameWorkers
<1>2. CASE num_working # 0
  <2>1. /\ num_working' = num_working + 1
        /\ pc[t] = "woken"
        /\ pc' = [pc EXCEPT ![t] = "quota"]
    BY <1>2 DEF Wake
  <2>2. t \notin Working
    BY <2>1 DEF Working, Idle
  <2>3. Working' = Working \cup {t}
    BY <2>1 DEF Working, Idle
  <2>4. Cardinality(Working') = Cardinality(Working) + 1
    BY <2>2, <2>3, WorkingFinite, FS_AddElement
  <2> QED
    BY <2>1, <2>4 DEF WorkingCount
<1> QED
  BY <1>1, <1>2

LEMMA IdlePool ==
  ASSUME NEW t \in Threads, PoolStep(t) \/ SpuriousWakeup(t), IdleInv
  PROVE  IdleInv'
<1> USE PoolAssumption DEF IdleInv
<1>1. TypeOK'
  <2>1. num_working # 0 \/ pc[t] # "loop"
    BY BusyCounts DEF Idle
  <2> QED
    BY <2>1, TypePool
<1> USE DEF TypeOK, Actors, Go
<1>2. WorkingCount'
  <2>1. CASE CheckFrontier(t)
    BY <2>1, CheckFrontierCounts
  <2>2. CASE Wake(t)
    BY <2>2, WakeCounts
  <2>3. CASE Broadcast(t) \/ SpuriousWakeup(t)
    <3>1. /\ num_working' = num_working
          /\ \A s \in Threads : pc'[s] \in Idle <=> pc[s] \in Idle
      BY <2>3 DEF Broadcast, SpuriousWakeup, Idle
    <3> QED
      BY <3>1, SameWorkers
  <2>4. CASE CheckQuota(t) \/ Take(t)
    <3>1. /\ num_working' = num_working
          /\ \A s \in Threads : pc'[s] \in Idle <=> pc[s] \in Idle
      BY <2>4 DEF CheckQuota, Take, Idle
    <3> QED
      BY <3>1, SameWorkers
  <2> QED
    BY <2>1, <2>2, <2>3, <2>4 DEF PoolStep
<1>3. MainFirst'
  <2>1. pc[t] # "unborn" /\ pc'[Main] = pc[Main]
    <3>1. CASE Broadcast(t)
      BY <3>1 DEF Broadcast, Crawling, Fetched
    <3>2. CASE CheckFrontier(t) \/ Wake(t)
      BY <3>2 DEF CheckFrontier, Wake
    <3>3. CASE CheckQuota(t) \/ Take(t) \/ SpuriousWakeup(t)
      BY <3>3 DEF CheckQuota, Take, SpuriousWakeup
    <3> QED
      BY <3>1, <3>2, <3>3 DEF PoolStep
  <2> QED
    BY <2>1 DEF MainFirst
<1>4. EmptyAtZero'
  <2>1. CASE Take(t)
    <3>1. num_working # 0 /\ num_working' = num_working
      BY <2>1, BusyCounts DEF Take, Idle
    <3> QED
      BY <3>1 DEF EmptyAtZero
  <2>2. CASE CheckFrontier(t)
    BY <2>2, BusyCounts DEF CheckFrontier, EmptyAtZero, Idle
  <2>3. CASE Wake(t)
    BY <2>3 DEF Wake, EmptyAtZero
  <2>4. CASE Broadcast(t) \/ CheckQuota(t) \/ SpuriousWakeup(t)
    BY <2>4 DEF Broadcast, CheckQuota, SpuriousWakeup, EmptyAtZero
  <2> QED
    BY <2>1, <2>2, <2>3, <2>4 DEF PoolStep
<1>5. ZeroWhenLeaving'
  <2>1. CASE CheckFrontier(t)
    <3>1. num_working # 0
      BY <2>1, BusyCounts DEF CheckFrontier, Idle
    <3>2. \A s \in Threads : pc[s] \notin {"bcast", "drained"}
      BY <3>1 DEF ZeroWhenLeaving
    <3> QED
      BY <2>1, <3>2 DEF CheckFrontier, ZeroWhenLeaving
  <2>2. CASE Wake(t)
    <3>1. CASE num_working = 0
      BY <2>2, <3>1 DEF Wake, ZeroWhenLeaving
    <3>2. CASE num_working # 0
      BY <2>2, <3>2 DEF Wake, ZeroWhenLeaving
    <3> QED
      BY <3>1, <3>2
  <2>3. CASE Broadcast(t)
    BY <2>3 DEF Broadcast, ZeroWhenLeaving
  <2>4. CASE CheckQuota(t) \/ Take(t) \/ SpuriousWakeup(t)
    BY <2>4 DEF CheckQuota, Take, SpuriousWakeup, ZeroWhenLeaving
  <2> QED
    BY <2>1, <2>2, <2>3, <2>4 DEF PoolStep
<1>6. BroadcastDue'
  <2>1. CASE CheckFrontier(t)
    <3>1. num_working # 0 /\ (num_working' = 0 => pc'[t] = "bcast")
      BY <2>1, BusyCounts DEF CheckFrontier, Idle
    <3> QED
      BY <3>1 DEF BroadcastDue
  <2>2. CASE Wake(t)
    BY <2>2 DEF Wake, BroadcastDue
  <2>3. CASE Broadcast(t)
    <3>1. \A s \in Threads : pc'[s] # "wait"
      BY <2>3 DEF Broadcast
    <3> QED
      BY <3>1 DEF BroadcastDue
  <2>4. CASE CheckQuota(t) \/ Take(t) \/ SpuriousWakeup(t)
    BY <2>4 DEF CheckQuota, Take, SpuriousWakeup, BroadcastDue
  <2> QED
    BY <2>1, <2>2, <2>3, <2>4 DEF PoolStep
<1> QED
  BY <1>1, <1>2, <1>3, <1>4, <1>5, <1>6

LEMMA IdleMain ==
  ASSUME MainStep, IdleInv
  PROVE  IdleInv'
<1> USE PoolAssumption DEF IdleInv
<1>1. TypeOK'
  BY TypeMain
<1>2. UNCHANGED <<num_working, url_frontier>>
  BY DEF MainStep, Join, Spawn
<1>3. /\ pc[Main] = "spawn"
      /\ pc'[Main] \in {"spawn", "end"}
      /\ \A t \in Threads : pc'[t] = pc[t] \/ (pc[t] = "unborn" /\ pc'[t] = "loop")
  BY DEF MainStep, Join, Spawn, TypeOK, Actors, Go
<1>4. WorkingCount'
  <2>1. \A t \in Threads : pc'[t] \in Idle <=> pc[t] \in Idle
    BY <1>3 DEF Idle
  <2> QED
    BY <1>2, <2>1, SameWorkers
<1>5. MainFirst'
  BY <1>3 DEF MainFirst, Crawling, Fetched
<1>6. EmptyAtZero' /\ ZeroWhenLeaving' /\ BroadcastDue'
  BY <1>2, <1>3 DEF EmptyAtZero, ZeroWhenLeaving, BroadcastDue
<1> QED
  BY <1>1, <1>4, <1>5, <1>6

LEMMA IdleNext == IdleInv /\ [Next]_vars => IdleInv'
<1> SUFFICES ASSUME IdleInv, [Next]_vars PROVE IdleInv'
  OBVIOUS
<1>1. ASSUME NEW a \in Actors, CrawlStep(a) PROVE IdleInv'
  BY <1>1, IdleCrawl
<1>2. ASSUME NEW t \in Threads, PoolStep(t) \/ SpuriousWakeup(t) PROVE IdleInv'
  BY <1>2, IdlePool
<1>3. CASE MainStep
  BY <1>3, IdleMain
<1>4. CASE UNCHANGED vars
  BY <1>4 DEF vars, IdleInv, TypeOK, WorkingCount, Working, MainFirst, EmptyAtZero,
              ZeroWhenLeaving, BroadcastDue
<1> QED
  BY <1>1, <1>2, <1>3, <1>4 DEF Next

\* The inductive invariant holds in every reachable state.
THEOREM IdleInvariant == Spec => []IdleInv
BY IdleInit, IdleNext, PTL DEF Spec

\* Every variable keeps its type; the counters, unsigned in the code, never go
\* below zero.
THEOREM TypeCorrect == Spec => []TypeOK
<1>1. IdleInv => TypeOK
  BY DEF IdleInv
<1> QED
  BY <1>1, IdleInvariant, PTL

\* num_working counts the threads that are neither asleep nor gone for lack of
\* work, whatever the interleaving.
THEOREM WorkingCountHolds == Spec => []WorkingCount
<1>1. IdleInv => WorkingCount
  BY DEF IdleInv
<1> QED
  BY <1>1, IdleInvariant, PTL

\* No wakeup is lost: a sleeping thread never finds itself with nobody left who
\* is at work, has the broadcast to do, or left at the quota.
THEOREM NoLostWakeup == Spec => []SleeperHasWaker
<1>1. IdleInv => SleeperHasWaker
  <2> SUFFICES ASSUME IdleInv, NEW t \in Threads, pc[t] = "wait"
               PROVE  \E s \in Threads : pc[s] \notin {"wait", "woken", "drained"}
    BY DEF SleeperHasWaker
  <2>1. CASE num_working = 0
    BY <2>1 DEF IdleInv, BroadcastDue
  <2>2. CASE num_working # 0
    <3>1. Working # {}
      BY <2>2, FS_EmptySet DEF IdleInv, WorkingCount
    <3> QED
      BY <3>1 DEF Working, Idle
  <2> QED
    BY <2>1, <2>2
<1> QED
  BY <1>1, IdleInvariant, PTL

\* A thread leaves for lack of work only when the frontier is empty, nobody can
\* fill it again and nobody has left at the quota.
THEOREM LeavingIsSafe == Spec => []LeaveTogether
<1>1. IdleInv => LeaveTogether
  <2> SUFFICES ASSUME IdleInv, NEW t \in Threads, pc[t] \in {"bcast", "drained"}
               PROVE  /\ url_frontier = <<>>
                      /\ \A a \in Actors : pc[a] \notin Crawling \cup {"full"}
    BY DEF LeaveTogether
  <2>1. num_working = 0
    BY DEF IdleInv, ZeroWhenLeaving
  <2>2. url_frontier = <<>>
    BY <2>1 DEF IdleInv, EmptyAtZero
  <2>3. \A a \in Actors : pc[a] \notin Crawling
    BY <2>1, CrawlCounts DEF IdleInv
  <2>4. \A s \in Threads : pc[s] # "full"
    BY <2>1, BusyCounts DEF IdleInv, Idle
  <2>5. pc[Main] # "full"
    BY DEF IdleInv, TypeOK, Crawling, Fetched
  <2> QED
    BY <2>2, <2>3, <2>4, <2>5 DEF Actors
<1> QED
  BY <1>1, IdleInvariant, PTL

\* Once the counter is zero, nothing is queued, visited, listed or counted.
THEOREM FrozenAtZeroHolds == Spec => FrozenAtZero
<1> DEFINE Still == num_working = 0
                      => UNCHANGED <<url_frontier, visted_url, png_urls, png_count>>
<1>1. ASSUME IdleInv, [Next]_vars PROVE [Still]_vars
  <2> USE <1>1
  <2>1. ASSUME NEW a \in Actors, CrawlStep(a) PROVE Still
    <3>1. pc[a] \in Crawling
      BY <2>1, CrawlMoves DEF IdleInv
    <3>2. num_working # 0
      BY <3>1, CrawlCounts DEF IdleInv
    <3> QED
      BY <3>2
  <2>2. ASSUME NEW t \in Threads, PoolStep(t) \/ SpuriousWakeup(t) PROVE Still
    <3>1. CASE Take(t)
      <4>1. num_working # 0
        BY <3>1, BusyCounts DEF IdleInv, Take, Idle
      <4> QED
        BY <4>1
    <3>2. CASE ~Take(t)
      BY <2>2, <3>2 DEF PoolStep, CheckFrontier, Broadcast, Wake, CheckQuota, SpuriousWakeup
    <3> QED
      BY <3>1, <3>2
  <2>3. CASE MainStep
    BY <2>3 DEF MainStep, Join, Spawn
  <2>4. CASE UNCHANGED vars
    BY <2>4
  <2> QED
    BY <2>1, <2>2, <2>3, <2>4 DEF Next
<1>2. Spec => [][Still]_vars
  BY <1>1, IdleInvariant, PTL DEF Spec
<1> QED
  BY <1>2 DEF FrozenAtZero

-------------------------------------------------------------------------------
(* process_url. *)

\* process_url makes its argument visited, and no slot of the array repeats.
LEMMA ProcessUrlVisits ==
  ASSUME TypeOK, NEW u \in Urls, ProcessUrl(u)
  PROVE  /\ Visited' = Visited \cup {u}
         /\ VisitedOnce => VisitedOnce'
<1>0. visted_url \in Seq(Urls)
  BY DEF TypeOK
<1>1. CASE u \in Visited
  <2>1. visted_url' = visted_url
    BY <1>1 DEF ProcessUrl
  <2> QED
    BY <1>1, <2>1 DEF Visited, VisitedOnce
<1>2. CASE u \notin Visited
  <2>1. visted_url' = Append(visted_url, u)
    BY <1>2 DEF ProcessUrl
  <2> QED
    BY <1>0, <1>2, <2>1, AppendRange, InjectiveAppend DEF Visited, VisitedOnce
<1> QED
  BY <1>1, <1>2

\* No other step touches the array.
LEMMA OnlyProcessUrl ==
  ASSUME IdleInv, [Next]_vars
  PROVE  visted_url' = visted_url \/ \E u \in Urls : ProcessUrl(u)
<1>1. ASSUME NEW a \in Actors, CrawlStep(a)
      PROVE  visted_url' = visted_url \/ \E u \in Urls : ProcessUrl(u)
  <2>1. CASE Admit(a)
    BY <2>1 DEF Admit, IdleInv, TypeOK
  <2>2. CASE Redirect(a)
    BY <2>2 DEF Redirect, IdleInv, TypeOK, Response
  <2>3. CASE ~Admit(a) /\ ~Redirect(a)
    BY <1>1, <2>3 DEF CrawlStep, Perform, LockXml, EnqueueLink, UnlockXml, TestPng,
                      WritePng, CountPng, Cleanup
  <2> QED
    BY <2>1, <2>2, <2>3
<1>2. ASSUME NEW t \in Threads, PoolStep(t) \/ SpuriousWakeup(t)
      PROVE  visted_url' = visted_url
  BY <1>2 DEF PoolStep, CheckFrontier, Broadcast, Wake, CheckQuota, Take, SpuriousWakeup
<1>3. CASE MainStep
  BY <1>3 DEF MainStep, Join, Spawn
<1>4. CASE UNCHANGED vars
  BY <1>4 DEF vars
<1> QED
  BY <1>1, <1>2, <1>3, <1>4 DEF Next

LEMMA VisitedGrows ==
  ASSUME IdleInv, [Next]_vars
  PROVE  Visited \subseteq Visited' /\ (VisitedOnce => VisitedOnce')
<1>1. CASE visted_url' = visted_url
  BY <1>1 DEF Visited, VisitedOnce
<1>2. ASSUME NEW u \in Urls, ProcessUrl(u)
      PROVE  Visited \subseteq Visited' /\ (VisitedOnce => VisitedOnce')
  BY <1>2, ProcessUrlVisits DEF IdleInv
<1> QED
  BY <1>1, <1>2, OnlyProcessUrl

\* visted_url holds no url twice, although the redirections and the frontier
\* offer the same url again and again.
THEOREM VisitedOnceHolds == Spec => []VisitedOnce
<1>1. Init => VisitedOnce
  BY DEF Init, VisitedOnce, IsInjective
<1>2. IdleInv /\ VisitedOnce /\ [Next]_vars => VisitedOnce'
  BY VisitedGrows
<1> QED
  BY <1>1, <1>2, IdleInvariant, PTL DEF Spec

-------------------------------------------------------------------------------
(* Fetching. *)

Fetching(a) == pc[a] \in {"perform"} \cup Fetched

\* An actor that is fetching after a step has been before, the same url, unless
\* the step admitted it.
LEMMA FetchMoves ==
  ASSUME IdleInv, [Next]_vars, NEW b \in Actors, Fetching(b)', ~Admit(b)
  PROVE  Fetching(b) /\ url'[b] = url[b]
<1> USE DEF IdleInv, Fetching, Fetched, Actors
<1>1. ASSUME NEW a \in Actors, CrawlStep(a)
      PROVE  Fetching(b) /\ url'[b] = url[b]
  <2>1. CASE a # b
    <3>1. pc'[b] = pc[b]
      BY <1>1, <2>1, CrawlMoves
    <3>2. url'[b] = url[b]
      BY <1>1, <2>1 DEF CrawlStep, Admit, Perform, Redirect, LockXml, EnqueueLink,
           UnlockXml, TestPng, WritePng, CountPng, Cleanup, locals, TypeOK
    <3> QED
      BY <3>1, <3>2
  <2>2. CASE a = b
    <3>1. CASE Cleanup(b)
      BY <3>1 DEF Cleanup, Go, TypeOK
    <3>2. CASE ~Cleanup(b)
      BY <1>1, <2>2, <3>2 DEF CrawlStep, Perform, Redirect, LockXml, EnqueueLink,
           UnlockXml, TestPng, WritePng, CountPng, locals
    <3> QED
      BY <3>1, <3>2
  <2> QED
    BY <2>1, <2>2
<1>2. ASSUME NEW t \in Threads, PoolStep(t) \/ SpuriousWakeup(t)
      PROVE  Fetching(b) /\ url'[b] = url[b]
  <2>1. CASE Take(t)
    BY <2>1 DEF Take, Go, TypeOK
  <2>2. CASE CheckFrontier(t)
    BY <2>2 DEF CheckFrontier, Go, TypeOK, locals
  <2>3. CASE Broadcast(t)
    BY <2>3 DEF Broadcast, TypeOK, locals
  <2>4. CASE Wake(t)
    BY <2>4 DEF Wake, Go, TypeOK, locals
  <2>5. CASE CheckQuota(t)
    BY <2>5 DEF CheckQuota, Go, TypeOK, locals
  <2>6. CASE SpuriousWakeup(t)
    BY <2>6 DEF SpuriousWakeup, Go, TypeOK, locals
  <2> QED
    BY <1>2, <2>1, <2>2, <2>3, <2>4, <2>5, <2>6 DEF PoolStep
<1>3. CASE MainStep
  BY <1>3 DEF MainStep, Join, Spawn, Go, TypeOK, locals
<1>4. CASE UNCHANGED vars
  BY <1>4 DEF vars
<1> QED
  BY <1>1, <1>2, <1>3, <1>4 DEF Next

LEMMA OneFetchInit == Init => OneFetchPerUrl
BY DEF Init, OneFetchPerUrl, Fetched

LEMMA OneFetchNext ==
  ASSUME IdleInv, OneFetchPerUrl, [Next]_vars
  PROVE  OneFetchPerUrl'
<1>1. \A a \in Actors : Fetching(a) => url[a] \in Visited
  BY DEF OneFetchPerUrl, Fetching
<1>2. \A a, b \in Actors : Fetching(a) /\ Fetching(b) /\ a # b => url[a] # url[b]
  BY DEF OneFetchPerUrl, Fetching
<1>3. CASE \A b \in Actors : ~Admit(b)
  <2>1. \A b \in Actors : Fetching(b)' => Fetching(b) /\ url'[b] = url[b]
    BY <1>3, FetchMoves
  <2>2. Visited \subseteq Visited'
    BY VisitedGrows
  <2> QED
    BY <1>1, <1>2, <2>1, <2>2 DEF OneFetchPerUrl, Fetching
<1>4. ASSUME NEW a \in Actors, Admit(a)
      PROVE  OneFetchPerUrl'
  <2>1. /\ pc[a] = "admit"
        /\ ProcessUrl(url[a])
        /\ \A b \in Actors \ {a} : pc'[b] = pc[b] /\ url'[b] = url[b]
    BY <1>4 DEF Admit, Go, IdleInv, TypeOK
  <2>2. \A b \in Actors \ {a} : Fetching(b)' => Fetching(b) /\ url'[b] = url[b]
    BY <2>1 DEF Fetching
  <2>3. Visited' = Visited \cup {url[a]}
    BY <2>1, ProcessUrlVisits DEF IdleInv, TypeOK
  <2>4. CASE url[a] \notin Visited \/ a = Main
    <3>1. url' = url
      BY <1>4, <2>4 DEF Admit
    <3>2. \A b \in Actors \ {a} : Fetching(b) => url[b] # url[a]
      <4>1. CASE url[a] \notin Visited
        BY <1>1, <4>1
      <4>2. CASE a = Main
        <5>1. \A t \in Threads : pc[t] = "unborn"
          BY <2>1, <4>2 DEF IdleInv, MainFirst, Crawling
        <5> QED
          BY <4>2, <5>1 DEF Actors, Fetching, Fetched
      <4> QED
        BY <2>4, <4>1, <4>2
    <3> QED
      BY <1>1, <1>2, <2>2, <2>3, <3>1, <3>2 DEF OneFetchPerUrl, Fetching
  <2>5. CASE url[a] \in Visited /\ a # Main
    <3>1. ~Fetching(a)'
      BY <1>4, <2>5 DEF Admit, Go, IdleInv, TypeOK, Fetching, Fetched
    <3> QED
      BY <1>1, <1>2, <2>2, <2>3, <3>1 DEF OneFetchPerUrl, Fetching
  <2> QED
    BY <2>4, <2>5
<1> QED
  BY <1>3, <1>4

\* No two actors fetch the same url at the same time, and what an actor fetches
\* is marked visited.
THEOREM OneFetchHolds == Spec => []OneFetchPerUrl
BY OneFetchInit, OneFetchNext, IdleInvariant, PTL DEF Spec

-------------------------------------------------------------------------------
(* Listing. *)

LEMMA ListingFinite == IsFiniteSet(Listing) /\ Cardinality(Listing) \in Nat
<1>1. IsFiniteSet(Actors)
  BY PoolAssumption, FS_AddElement DEF Actors
<1> QED
  BY <1>1, FS_Subset, FS_CardinalityType DEF Listing

\* Only process_png moves an actor in or out of Listing or counts a PNG.
LEMMA ListingMoves ==
  ASSUME IdleInv, [Next]_vars,
         \A a \in Actors : ~TestPng(a) /\ ~CountPng(a)
  PROVE  Listing' = Listing /\ png_count' = png_count
<1> USE DEF IdleInv, TypeOK, Go
<1>1. ASSUME NEW a \in Actors, CrawlStep(a)
      PROVE  /\ \A b \in Actors : pc'[b] \in {"write", "count"} <=> pc[b] \in {"write", "count"}
             /\ png_count' = png_count
  <2>1. \A b \in Actors \ {a} : pc'[b] \in {"write", "count"} <=> pc[b] \in {"write", "count"}
    BY <1>1, CrawlMoves
  <2>2. pc'[a] \in {"write", "count"} <=> pc[a] \in {"write", "count"}
    <3>1. CASE WritePng(a)
      BY <3>1 DEF WritePng
    <3>2. CASE EnqueueLink(a)
      BY <3>2, PoolAssumption DEF EnqueueLink, Signal, Actors
    <3>3. CASE ~WritePng(a) /\ ~EnqueueLink(a)
      BY <1>1, <3>3 DEF CrawlStep, Admit, Perform, Redirect, LockXml, UnlockXml, Cleanup,
                        ByContentType
    <3> QED
      BY <3>1, <3>2, <3>3
  <2>3. png_count' = png_count
    BY <1>1 DEF CrawlStep, Admit, Perform, Redirect, LockXml, EnqueueLink, UnlockXml,
                WritePng, Cleanup
  <2> QED
    BY <2>1, <2>2, <2>3
<1>2. ASSUME NEW t \in Threads, PoolStep(t) \/ SpuriousWakeup(t)
      PROVE  /\ \A b \in Actors : pc'[b] \in {"write", "count"} <=> pc[b] \in {"write", "count"}
             /\ png_count' = png_count
  <2>1. CASE Broadcast(t)
    BY <2>1 DEF Broadcast
  <2>2. CASE CheckFrontier(t) \/ Wake(t)
    BY <2>2 DEF CheckFrontier, Wake
  <2>3. CASE CheckQuota(t) \/ Take(t) \/ SpuriousWakeup(t)
    BY <2>3 DEF CheckQuota, Take, SpuriousWakeup
  <2> QED
    BY <1>2, <2>1, <2>2, <2>3 DEF PoolStep
<1>3. CASE MainStep
  BY <1>3 DEF MainStep, Join, Spawn, Listing
<1>4. CASE UNCHANGED vars
  BY <1>4 DEF vars, Listing
<1> QED
  BY <1>1, <1>2, <1>3, <1>4 DEF Next, Listing

LEMMA QuotaInit == Init => QuotaSlack
<1> SUFFICES ASSUME Init PROVE QuotaSlack
  OBVIOUS
<1>1. Listing = {}
  BY DEF Init, Listing
<1>2. Cardinality(Listing) = 0
  BY <1>1, FS_EmptySet
<1>3. Cardinality(Threads) \in Nat /\ Cardinality(Threads) # 0
  BY PoolAssumption, FS_CardinalityType, FS_EmptySet
<1>4. png_count = 0 /\ NumPngs \in Nat
  BY OptionAssumption DEF Init
<1> QED
  BY <1>2, <1>3, <1>4 DEF QuotaSlack

\* An actor that passes the test does so below the quota, and the others that
\* did are pool threads, or nobody when it is main: that is all the slack.
LEMMA QuotaTest ==
  ASSUME IdleInv, QuotaSlack, NEW a \in Actors, TestPng(a)
  PROVE  QuotaSlack'
<1> USE DEF IdleInv, TypeOK, Go
<1>0. /\ Cardinality(Threads) \in Nat
      /\ Cardinality(Threads) # 0
      /\ NumPngs \in Nat
      /\ png_count' = png_count
  BY PoolAssumption, OptionAssumption, FS_CardinalityType, FS_EmptySet DEF TestPng
<1>1. CASE pc'[a] = "write"
  <2>1. ~QuotaReached /\ pc[a] = "test"
    BY <1>1 DEF TestPng
  <2>2. png_count < NumPngs
    BY <1>0, <2>1 DEF QuotaReached
  <2>3. Cardinality(Listing') <= Cardinality(Threads)
    <3>1. CASE a = Main
      <4>1. \A t \in Threads : pc[t] = "unborn" /\ pc'[t] = pc[t]
        BY <2>1, <3>1, PoolAssumption DEF TestPng, MainFirst, Crawling, Fetched, Actors
      <4>2. Listing' = {Main}
        BY <1>1, <3>1, <4>1 DEF Listing, Actors
      <4>3. Cardinality(Listing') = 1
        BY <4>2, FS_Singleton
      <4> QED
        BY <1>0, <4>3
    <3>2. CASE a # Main
      <4>1. pc[Main] \notin Crawling /\ pc'[Main] = pc[Main]
        BY <2>1, <3>2 DEF TestPng, MainFirst, Actors
      <4>2. Listing' \subseteq Threads
        BY <4>1 DEF Listing, Actors, Crawling, Fetched
      <4> QED
        BY <4>2, PoolAssumption, FS_Subset
    <3> QED
      BY <3>1, <3>2
  <2>4. Cardinality(Listing') \in Nat
    <3>1. Listing' \subseteq Actors /\ IsFiniteSet(Actors)
      BY PoolAssumption, FS_AddElement DEF Actors, Listing
    <3> QED
      BY <3>1, FS_Subset, FS_CardinalityType
  <2>5. png_count + Cardinality(Listing') <= NumPngs + Cardinality(Threads) - 1
    <3> DEFINE L == Cardinality(Listing')
               T == Cardinality(Threads)
    <3>1. L \in Nat /\ T \in Nat /\ L <= T /\ png_count \in Nat
      BY <1>0, <2>3, <2>4
    <3> HIDE DEF L, T
    <3>2. png_count + L <= NumPngs + T - 1
      BY <1>0, <2>2, <3>1
    <3> QED
      BY <3>2 DEF L, T
  <2> QED
    BY <1>0, <2>5 DEF QuotaSlack
<1>2. CASE pc'[a] # "write"
  <2>1. Listing' = Listing
    BY <1>2 DEF TestPng, Listing
  <2> QED
    BY <1>0, <2>1 DEF QuotaSlack
<1> QED
  BY <1>1, <1>2

LEMMA QuotaCount ==
  ASSUME IdleInv, QuotaSlack, NEW a \in Actors, CountPng(a)
  PROVE  QuotaSlack'
<1> USE DEF IdleInv, TypeOK, Go
<1>1. a \in Listing /\ Listing' = Listing \ {a} /\ png_count' = png_count + 1
  BY DEF CountPng, Listing
<1>2. Cardinality(Listing') = Cardinality(Listing) - 1
  BY <1>1, ListingFinite, FS_RemoveElement
<1>3. Cardinality(Listing) \in Nat /\ png_count \in Nat
  BY ListingFinite
<1>4. png_count' + Cardinality(Listing') = png_count + Cardinality(Listing)
  BY <1>1, <1>2, <1>3
<1> QED
  BY <1>4 DEF QuotaSlack

LEMMA QuotaNext == IdleInv /\ QuotaSlack /\ [Next]_vars => QuotaSlack'
<1> SUFFICES ASSUME IdleInv, QuotaSlack, [Next]_vars PROVE QuotaSlack'
  OBVIOUS
<1>1. ASSUME NEW a \in Actors, TestPng(a) \/ CountPng(a) PROVE QuotaSlack'
  BY <1>1, QuotaTest, QuotaCount
<1>2. CASE \A a \in Actors : ~TestPng(a) /\ ~CountPng(a)
  <2>1. Listing' = Listing /\ png_count' = png_count
    BY <1>2, ListingMoves
  <2> QED
    BY <2>1 DEF QuotaSlack
<1> QED
  BY <1>1, <1>2

\* The PNGs counted and about to be counted exceed the quota by at most one per
\* pool thread but one, for every pool and every quota.
THEOREM QuotaSlackHolds == Spec => []QuotaSlack
BY QuotaInit, QuotaNext, IdleInvariant, PTL DEF Spec

-------------------------------------------------------------------------------
(* The parser and the file. *)

LEMMA SubsetFinite ==
  ASSUME NEW S, S \subseteq Actors
  PROVE  IsFiniteSet(S) /\ Cardinality(S) \in Nat
<1>1. IsFiniteSet(Actors)
  BY PoolAssumption, FS_AddElement DEF Actors
<1> QED
  BY <1>1, FS_Subset, FS_CardinalityType

\* Which steps move an actor in or out of find_http, and into or out of the
\* place between its line in the file and its count.
LEMMA OtherMoves ==
  ASSUME IdleInv, [Next]_vars
  PROVE  /\ (\A a \in Actors : ~LockXml(a) /\ ~UnlockXml(a))
               => Parsing' = Parsing /\ xml_locked' = xml_locked
         /\ (\A a \in Actors : ~WritePng(a) /\ ~CountPng(a))
               => /\ Counting' = Counting
                  /\ png_count' = png_count
                  /\ png_urls' = png_urls
<1> USE DEF IdleInv, TypeOK, Go
<1>1. ASSUME NEW a \in Actors, CrawlStep(a), ~LockXml(a), ~UnlockXml(a)
      PROVE  Parsing' = Parsing /\ xml_locked' = xml_locked
  <2>1. \A b \in Actors \ {a} : pc'[b] = "links" <=> pc[b] = "links"
    BY <1>1, CrawlMoves
  <2>2. pc'[a] = "links" <=> pc[a] = "links"
    <3>1. CASE EnqueueLink(a)
      BY <3>1, PoolAssumption DEF EnqueueLink, Signal, Actors
    <3>2. CASE ~EnqueueLink(a)
      BY <1>1, <3>2 DEF CrawlStep, Admit, Perform, Redirect, TestPng, WritePng, CountPng,
                        Cleanup, ByContentType
    <3> QED
      BY <3>1, <3>2
  <2>3. xml_locked' = xml_locked
    BY <1>1 DEF CrawlStep, Admit, Perform, Redirect, EnqueueLink, TestPng, WritePng,
                CountPng, Cleanup
  <2> QED
    BY <2>1, <2>2, <2>3 DEF Parsing
<1>2. ASSUME NEW a \in Actors, CrawlStep(a), ~WritePng(a), ~CountPng(a)
      PROVE  Counting' = Counting /\ png_count' = png_count /\ png_urls' = png_urls
  <2>1. \A b \in Actors \ {a} : pc'[b] = "count" <=> pc[b] = "count"
    BY <1>2, CrawlMoves
  <2>2. pc'[a] = "count" <=> pc[a] = "count"
    <3>1. CASE EnqueueLink(a)
      BY <3>1, PoolAssumption DEF EnqueueLink, Signal, Actors
    <3>2. CASE ~EnqueueLink(a)
      BY <1>2, <3>2 DEF CrawlStep, Admit, Perform, Redirect, LockXml, UnlockXml, TestPng,
                        Cleanup, ByContentType
    <3> QED
      BY <3>1, <3>2
  <2>3. png_count' = png_count /\ png_urls' = png_urls
    BY <1>2 DEF CrawlStep, Admit, Perform, Redirect, LockXml, EnqueueLink, UnlockXml,
                TestPng, Cleanup
  <2> QED
    BY <2>1, <2>2, <2>3 DEF Counting
<1>3. ASSUME NEW t \in Threads, PoolStep(t) \/ SpuriousWakeup(t)
      PROVE  /\ Parsing' = Parsing /\ xml_locked' = xml_locked
             /\ Counting' = Counting /\ png_count' = png_count /\ png_urls' = png_urls
  <2>1. \A b \in Actors : \A l \in {"links", "count"} : pc'[b] = l <=> pc[b] = l
    <3>1. CASE Broadcast(t)
      BY <3>1 DEF Broadcast
    <3>2. CASE CheckFrontier(t) \/ Wake(t)
      BY <3>2 DEF CheckFrontier, Wake
    <3>3. CASE CheckQuota(t) \/ Take(t) \/ SpuriousWakeup(t)
      BY <3>3 DEF CheckQuota, Take, SpuriousWakeup
    <3> QED
      BY <1>3, <3>1, <3>2, <3>3 DEF PoolStep
  <2>2. xml_locked' = xml_locked /\ png_count' = png_count /\ png_urls' = png_urls
    BY <1>3 DEF PoolStep, CheckFrontier, Broadcast, Wake, CheckQuota, Take, SpuriousWakeup
  <2> QED
    BY <2>1, <2>2 DEF Parsing, Counting
<1>4. CASE MainStep
  BY <1>4 DEF MainStep, Join, Spawn, Parsing, Counting
<1>5. CASE UNCHANGED vars
  BY <1>5 DEF vars, Parsing, Counting
<1> QED
  BY <1>1, <1>2, <1>3, <1>4, <1>5 DEF Next

\* find_http runs in at most one actor, exactly when xml_mutex is held.
THEOREM XmlExclusiveHolds == Spec => []XmlExclusive
<1>1. Init => XmlExclusive
  <2> SUFFICES ASSUME Init PROVE XmlExclusive
    OBVIOUS
  <2>1. Parsing = {} /\ ~xml_locked
    BY DEF Init, Parsing
  <2> QED
    BY <2>1, FS_EmptySet DEF XmlExclusive
<1>2. IdleInv /\ XmlExclusive /\ [Next]_vars => XmlExclusive'
  <2> SUFFICES ASSUME IdleInv, XmlExclusive, [Next]_vars PROVE XmlExclusive'
    OBVIOUS
  <2> USE DEF IdleInv, TypeOK, Go
  <2>1. IsFiniteSet(Parsing) /\ Cardinality(Parsing) \in Nat
    BY SubsetFinite DEF Parsing
  <2>2. ASSUME NEW a \in Actors, LockXml(a) PROVE XmlExclusive'
    <3>1. ~xml_locked /\ xml_locked'
      BY <2>2 DEF LockXml
    <3>2. Parsing = {}
      BY <2>1, <3>1, FS_EmptySet DEF XmlExclusive
    <3>3. Parsing' = Parsing \cup {a}
      BY <2>2 DEF LockXml, Parsing
    <3>4. Parsing' = {a}
      BY <3>2, <3>3
    <3>5. Cardinality(Parsing') = 1
      BY <3>4, FS_Singleton
    <3> QED
      BY <3>1, <3>5 DEF XmlExclusive
  <2>3. ASSUME NEW a \in Actors, UnlockXml(a) PROVE XmlExclusive'
    <3>1. a \in Parsing /\ Parsing' = Parsing \ {a} /\ xml_locked' = FALSE
      BY <2>3 DEF UnlockXml, Parsing
    <3>2. Cardinality(Parsing) = 1
      BY <2>1, <3>1, FS_EmptySet DEF XmlExclusive
    <3>3. Cardinality(Parsing') = Cardinality(Parsing) - 1
      BY <2>1, <3>1, FS_RemoveElement
    <3>4. Cardinality(Parsing') = 0
      BY <3>2, <3>3
    <3> QED
      BY <3>1, <3>4 DEF XmlExclusive
  <2>4. CASE \A a \in Actors : ~LockXml(a) /\ ~UnlockXml(a)
    <3>1. Parsing' = Parsing /\ xml_locked' = xml_locked
      BY <2>4, OtherMoves
    <3> QED
      BY <3>1 DEF XmlExclusive
  <2> QED
    BY <2>2, <2>3, <2>4
<1> QED
  BY <1>1, <1>2, IdleInvariant, PTL DEF Spec

\* The file has a line for every PNG counted or about to be, or fewer when fopen
\* can fail, and never one more.
THEOREM FileMatchesCountHolds == Spec => []FileMatchesCount
<1>1. Init => FileMatchesCount
  <2> SUFFICES ASSUME Init PROVE FileMatchesCount
    OBVIOUS
  <2>1. Counting = {} /\ png_count = 0 /\ png_urls = <<>>
    BY DEF Init, Counting
  <2>2. Cardinality(Counting) = 0
    BY <2>1, FS_EmptySet
  <2>3. Len(png_urls) = 0 /\ png_count + Cardinality(Counting) = 0
    BY <2>1, <2>2
  <2> QED
    BY <2>3 DEF FileMatchesCount
<1>2. IdleInv /\ FileMatchesCount /\ [Next]_vars => FileMatchesCount'
  <2> SUFFICES ASSUME IdleInv, FileMatchesCount, [Next]_vars PROVE FileMatchesCount'
    OBVIOUS
  <2> USE DEF IdleInv, TypeOK, Go
  <2>1. /\ IsFiniteSet(Counting)
        /\ Cardinality(Counting) \in Nat
        /\ Len(png_urls) \in Nat
        /\ png_count \in Nat
    BY SubsetFinite DEF Counting
  <2>2. ASSUME NEW a \in Actors, WritePng(a) PROVE FileMatchesCount'
    <3>1. a \notin Counting /\ Counting' = Counting \cup {a} /\ png_count' = png_count
      BY <2>2 DEF WritePng, Counting
    <3>2. Cardinality(Counting') = Cardinality(Counting) + 1
      BY <2>1, <3>1, FS_AddElement
    <3>3. /\ \/ Len(png_urls') = Len(png_urls) + 1
             \/ ~FopenReliable /\ png_urls' = png_urls
          /\ Len(png_urls') \in Nat
      <4>1. PICK opened \in FopenResults :
               png_urls' = IF opened THEN Append(png_urls, resp[a].eff) ELSE png_urls
        BY <2>2 DEF WritePng, WriteUrl
      <4>2. opened \in BOOLEAN
        BY OptionAssumption
      <4>3. CASE opened = TRUE
        BY <4>1, <4>3
      <4>4. CASE opened = FALSE
        BY <2>1, <4>1, <4>4 DEF FopenReliable
      <4> QED
        BY <4>2, <4>3, <4>4
    <3>4. /\ png_count' + Cardinality(Counting') = png_count + Cardinality(Counting) + 1
          /\ png_count + Cardinality(Counting) \in Nat
      BY <2>1, <3>1, <3>2
    <3>5. CASE Len(png_urls') = Len(png_urls) + 1
      BY <2>1, <3>4, <3>5 DEF FileMatchesCount
    <3>6. CASE ~FopenReliable /\ png_urls' = png_urls
      BY <2>1, <3>4, <3>6 DEF FileMatchesCount
    <3> QED
      BY <3>3, <3>5, <3>6
  <2>3. ASSUME NEW a \in Actors, CountPng(a) PROVE FileMatchesCount'
    <3>1. /\ a \in Counting
          /\ Counting' = Counting \ {a}
          /\ png_count' = png_count + 1
          /\ png_urls' = png_urls
      BY <2>3 DEF CountPng, Counting
    <3>2. Cardinality(Counting') = Cardinality(Counting) - 1
      BY <2>1, <3>1, FS_RemoveElement
    <3>3. png_count' + Cardinality(Counting') = png_count + Cardinality(Counting)
      BY <2>1, <3>1, <3>2
    <3> QED
      BY <3>1, <3>3 DEF FileMatchesCount
  <2>4. CASE \A a \in Actors : ~WritePng(a) /\ ~CountPng(a)
    <3>1. Counting' = Counting /\ png_count' = png_count /\ png_urls' = png_urls
      BY <2>4, OtherMoves
    <3> QED
      BY <3>1 DEF FileMatchesCount
  <2> QED
    BY <2>2, <2>3, <2>4
<1> QED
  BY <1>1, <1>2, IdleInvariant, PTL DEF Spec

\* On a finite site the array never needs more slots than the site has urls.
THEOREM ArrayBound ==
  ASSUME IsFiniteSet(Urls)
  PROVE  Spec => [](Len(visted_url) <= Cardinality(Urls))
<1>1. TypeOK /\ VisitedOnce => Len(visted_url) <= Cardinality(Urls)
  <2> SUFFICES ASSUME TypeOK, VisitedOnce PROVE Len(visted_url) <= Cardinality(Urls)
    OBVIOUS
  <2>1. /\ visted_url \in [1..Len(visted_url) -> Urls]
        /\ Len(visted_url) \in Nat
        /\ DOMAIN visted_url = 1..Len(visted_url)
    BY DEF TypeOK
  <2>2. visted_url \in Injection(1..Len(visted_url), Urls)
    BY <2>1 DEF VisitedOnce, IsInjective, Injection
  <2>3. Cardinality(1..Len(visted_url)) = Len(visted_url)
    <3> DEFINE n == Len(visted_url)
    <3>1. n \in Int /\ n >= 0
      BY <2>1
    <3> HIDE DEF n
    <3>2. Cardinality(1..n) = IF 1 > n THEN 0 ELSE n - 1 + 1
      BY <3>1, FS_Interval
    <3>3. Cardinality(1..n) = n
      BY <3>1, <3>2
    <3> QED
      BY <3>3 DEF n
  <2> QED
    BY <2>2, <2>3, FS_Injection
<1> QED
  BY <1>1, TypeCorrect, VisitedOnceHolds, PTL

-------------------------------------------------------------------------------
(* The refinement of Crawl *)


\* A reply is in hand and has not been dealt with yet.
Handled == {"redirect", "parse", "links", "test", "write"}

\* A reply in hand is one of the url being crawled, whole and accepted, and what
\* process_data found it to be; nothing of its page has been queued before find_http.
Hand(a) ==
    /\ pc[a] \in Handled => /\ resp[a] \in Responses[url[a]]
                            /\ resp[a].complete /\ resp[a].accepted
    /\ pc[a] = "redirect" => IsRedirect(resp[a])
    /\ pc[a] \in {"parse", "links"} => IsHtml(resp[a])
    /\ pc[a] = "test" => resp[a].ctype = "png"
    /\ pc[a] = "write" => IsPng(resp[a])
    /\ pc[a] \notin {"links", "cleanup"} => i[a] = 0

ReplyInHand == \A a \in Actors : Hand(a)

\* Nothing has been visited before main admits the seed, ...
SeedFirst == pc[Main] = "admit" => visted_url = <<>>

\* ... the quota is reached for good, ...
LeftAtQuota == \A t \in Threads : pc[t] = "full" => QuotaReached

\* ... and main returns after every thread.
EndsLast == pc[Main] = "end" => \A t \in Threads : pc[t] \in Exited

HandInv == ReplyInHand /\ SeedFirst /\ LeftAtQuota /\ EndsLast

-------------------------------------------------------------------------------
(* What a step leaves alone. *)

\* A step of a crawl leaves what the others hold alone.
LEMMA OthersKeep ==
  ASSUME IdleInv, NEW a \in Actors, CrawlStep(a), NEW b \in Actors \ {a}
  PROVE  /\ url'[b] = url[b] /\ resp'[b] = resp[b] /\ i'[b] = i[b]
         /\ pc'[b] = pc[b] \/ (pc[b] = "wait" /\ pc'[b] = "woken")
<1>1. pc'[b] = pc[b] \/ (pc[b] = "wait" /\ pc'[b] = "woken")
  <2>1. \A c \in Actors \ {a} : pc'[c] = pc[c] \/ (c \in Threads /\ pc[c] = "wait" /\ pc'[c] = "woken")
    BY CrawlMoves DEF IdleInv
  <2> QED
    BY <2>1
<1>2. url'[b] = url[b] /\ resp'[b] = resp[b] /\ i'[b] = i[b]
  <2> USE DEF IdleInv, TypeOK, locals
  <2>1. CASE Admit(a)
    BY <2>1 DEF Admit
  <2>a. CASE Perform(a)
    BY <2>a DEF Perform
  <2>b. CASE EnqueueLink(a)
    BY <2>b DEF EnqueueLink
  <2>c. CASE Cleanup(a)
    BY <2>c DEF Cleanup
  <2>2. CASE Redirect(a) \/ LockXml(a) \/ UnlockXml(a)
    BY <2>2 DEF Redirect, LockXml, UnlockXml
  <2>3. CASE TestPng(a) \/ WritePng(a) \/ CountPng(a)
    BY <2>3 DEF TestPng, WritePng, CountPng
  <2> QED
    BY <2>1, <2>a, <2>b, <2>c, <2>2, <2>3 DEF CrawlStep
<1> QED
  BY <1>1, <1>2

\* The places of a thread between two crawls.
Between == {"unborn", "loop", "quota", "take"} \cup Idle

\* A pool thread between two crawls and main after its own move nobody in or out of a
\* crawl, but for the thread that takes a url to admit, and change no reply.
LEMMA PoolKeeps ==
  ASSUME IdleInv, NEW t \in Threads, PoolStep(t) \/ SpuriousWakeup(t), NEW b \in Actors
  PROVE  /\ resp'[b] = resp[b] /\ i'[b] = i[b]
         /\ \/ pc'[b] = pc[b] /\ url'[b] = url[b]
            \/ /\ b \in Threads /\ pc[b] \in Between
               /\ \/ pc'[b] \in Between \cup {"full"} /\ url'[b] = url[b]
                  \/ pc'[b] = "admit" /\ b = t /\ Take(t)
<1> USE DEF IdleInv, TypeOK, Go, Idle, Between, locals
<1>1. CASE Broadcast(t)
  <2>1. /\ pc[t] = "bcast"
        /\ pc'[b] = CASE b = t         -> "drained"
                     [] pc[b] = "wait" -> "woken"
                     [] OTHER          -> pc[b]
    BY <1>1 DEF Broadcast
  <2>2. b \notin Threads => pc[b] # "wait" /\ b # t
    BY DEF Actors, Crawling, Fetched
  <2>3. pc'[b] = pc[b] \/ (b \in Threads /\ pc[b] \in Between /\ pc'[b] \in Between)
    <3>1. CASE b = t
      BY <2>1, <3>1
    <3>2. CASE b # t /\ pc[b] = "wait"
      <4>1. pc'[b] = "woken"
        BY <2>1, <3>2
      <4> QED
        BY <2>2, <3>2, <4>1
    <3>3. CASE b # t /\ pc[b] # "wait"
      <4>1. pc'[b] = pc[b]
        BY <2>1, <3>3
      <4> QED
        BY <4>1
    <3> QED
      BY <3>1, <3>2, <3>3
  <2>4. url'[b] = url[b] /\ resp'[b] = resp[b] /\ i'[b] = i[b]
    BY <1>1 DEF Broadcast
  <2> QED
    BY <2>3, <2>4
<1>2. CASE Take(t)
  BY <1>2 DEF Take, Actors
<1>3. CASE CheckFrontier(t)
  BY <1>3 DEF CheckFrontier, Actors
<1>4. CASE Wake(t)
  BY <1>4 DEF Wake, Actors
<1>5. CASE CheckQuota(t)
  BY <1>5 DEF CheckQuota, Actors
<1>6. CASE SpuriousWakeup(t)
  BY <1>6 DEF SpuriousWakeup, Actors
<1> QED
  BY <1>1, <1>2, <1>3, <1>4, <1>5, <1>6 DEF PoolStep

LEMMA MainKeeps ==
  ASSUME IdleInv, MainStep, NEW b \in Actors
  PROVE  /\ resp'[b] = resp[b] /\ i'[b] = i[b] /\ url'[b] = url[b]
         /\ \/ pc'[b] = pc[b]
            \/ b \in Threads /\ pc[b] = "unborn" /\ pc'[b] = "loop"
            \/ b = Main /\ pc[b] = "spawn" /\ pc'[b] = "end"
BY DEF MainStep, Join, Spawn, IdleInv, TypeOK, Go, locals, Actors

-------------------------------------------------------------------------------
(* What is in hand. *)

\* The content type decides where a reply goes, ...
LEMMA WhereTo ==
  ASSUME NEW r \in Response
  PROVE  /\ ByContentType(r) \in {"parse", "test", "cleanup"}
         /\ ByContentType(r) = "parse" <=> r.ctype = "html"
         /\ ByContentType(r) = "test" <=> r.ctype = "png"
BY DEF ByContentType, Response

\* ... once its result and its redirections have been looked at.
LEMMA Classified ==
  ASSUME IdleInv, NEW a \in Actors, Perform(a)
  PROVE  \E r \in Responses[url[a]] :
            /\ r \in Response
            /\ resp' = [resp EXCEPT ![a] = r]
            /\ \/ ~(r.complete /\ r.accepted) /\ pc' = [pc EXCEPT ![a] = "cleanup"]
               \/ /\ r.complete /\ r.accepted
                  /\ \/ IsRedirect(r) /\ pc' = [pc EXCEPT ![a] = "redirect"]
                     \/ ~IsRedirect(r) /\ pc' = [pc EXCEPT ![a] = ByContentType(r)]
<1>1. PICK r \in Responses[url[a]] :
         /\ resp' = [resp EXCEPT ![a] = r]
         /\ Go(a, CASE ~(r.complete /\ r.accepted) -> "cleanup"
                    [] r.complete /\ IsRedirect(r)  -> "redirect"
                    [] OTHER                        -> ByContentType(r))
  BY DEF Perform
<1>2. r \in Response
  BY <1>1, SiteAssumption DEF IdleInv, TypeOK
<1> DEFINE to == CASE ~(r.complete /\ r.accepted) -> "cleanup"
                   [] r.complete /\ IsRedirect(r)  -> "redirect"
                   [] OTHER                        -> ByContentType(r)
<1>3. CASE ~(r.complete /\ r.accepted)
  <2>1. ~(r.complete /\ IsRedirect(r))
    BY <1>3 DEF IsRedirect
  <2>2. to = "cleanup"
    BY <1>3, <2>1
  <2> QED
    BY <1>1, <1>2, <1>3, <2>2 DEF Go
<1>4. CASE r.complete /\ r.accepted /\ IsRedirect(r)
  <2>1. to = "redirect"
    BY <1>4
  <2> QED
    BY <1>1, <1>2, <1>4, <2>1 DEF Go
<1>5. CASE r.complete /\ r.accepted /\ ~IsRedirect(r)
  <2>1. to = ByContentType(r)
    BY <1>5
  <2> QED
    BY <1>1, <1>2, <1>5, <2>1 DEF Go
<1> QED
  BY <1>3, <1>4, <1>5

LEMMA HandOfActor ==
  ASSUME IdleInv, NEW a \in Actors, CrawlStep(a), Hand(a)
  PROVE  Hand(a)'
<1> USE DEF IdleInv, TypeOK, Go, Hand, Handled, locals
<1>1. CASE Admit(a)
  BY <1>1 DEF Admit
<1>2. CASE Perform(a)
  <2>1. pc[a] = "perform" /\ url' = url /\ i' = i /\ pc \in [Actors -> Pooled \cup {"spawn", "end"}]
    BY <1>2 DEF Perform
  <2>2. PICK r \in Responses[url[a]] :
            /\ r \in Response
            /\ resp' = [resp EXCEPT ![a] = r]
            /\ \/ ~(r.complete /\ r.accepted) /\ pc' = [pc EXCEPT ![a] = "cleanup"]
               \/ /\ r.complete /\ r.accepted
                  /\ \/ IsRedirect(r) /\ pc' = [pc EXCEPT ![a] = "redirect"]
                     \/ ~IsRedirect(r) /\ pc' = [pc EXCEPT ![a] = ByContentType(r)]
    BY <1>2, Classified
  <2>3. resp'[a] = r /\ i'[a] = 0 /\ url'[a] = url[a]
    BY <2>1, <2>2
  <2>4. CASE pc'[a] = "cleanup"
    BY <2>4
  <2>5. CASE pc'[a] # "cleanup"
    <3>1. /\ r.complete /\ r.accepted
          /\ \/ IsRedirect(r) /\ pc'[a] = "redirect"
             \/ pc'[a] = ByContentType(r)
      BY <2>1, <2>2, <2>5
    <3>2. CASE pc'[a] = "redirect"
      <4>1. ByContentType(r) # "redirect"
        BY <2>2, WhereTo
      <4> QED
        BY <2>2, <2>3, <3>1, <3>2, <4>1
    <3>3. CASE pc'[a] = ByContentType(r)
      BY <2>2, <2>3, <3>1, <3>3, WhereTo DEF IsHtml
    <3> QED
      BY <3>1, <3>2, <3>3
  <2> QED
    BY <2>4, <2>5
<1>3. CASE Redirect(a)
  BY <1>3, WhereTo DEF Redirect, IsHtml
<1>4. CASE LockXml(a)
  BY <1>4 DEF LockXml
<1>5. CASE EnqueueLink(a)
  <2>1. pc'[a] = "links"
    BY <1>5 DEF EnqueueLink, Signal
  <2> QED
    BY <1>5, <2>1 DEF EnqueueLink
<1>6. CASE UnlockXml(a)
  BY <1>6 DEF UnlockXml
<1>7. CASE TestPng(a)
  BY <1>7 DEF TestPng, IsPng
<1>8. CASE WritePng(a) \/ CountPng(a)
  BY <1>8 DEF WritePng, CountPng
<1>9. CASE Cleanup(a)
  BY <1>9 DEF Cleanup
<1> QED
  BY <1>1, <1>2, <1>3, <1>4, <1>5, <1>6, <1>7, <1>8, <1>9 DEF CrawlStep

LEMMA HandNext ==
  ASSUME IdleInv, ReplyInHand, [Next]_vars
  PROVE  ReplyInHand'
<1>0. \A a \in Actors : Hand(a)
  BY DEF ReplyInHand
<1> SUFFICES ASSUME NEW b \in Actors PROVE Hand(b)'
  BY DEF ReplyInHand
<1>1. ASSUME NEW a \in Actors, CrawlStep(a)
      PROVE  Hand(b)'
  <2>1. CASE a = b
    BY <1>0, <1>1, <2>1, HandOfActor
  <2>2. CASE a # b
    <3>1. /\ url'[b] = url[b] /\ resp'[b] = resp[b] /\ i'[b] = i[b]
          /\ pc'[b] = pc[b] \/ (pc[b] = "wait" /\ pc'[b] = "woken")
      BY <1>1, <2>2, OthersKeep
    <3> QED
      BY <1>0, <3>1 DEF Hand, Handled
  <2> QED
    BY <2>1, <2>2
<1>2. ASSUME NEW t \in Threads, PoolStep(t) \/ SpuriousWakeup(t)
      PROVE  Hand(b)'
  <2>1. /\ resp'[b] = resp[b] /\ i'[b] = i[b]
        /\ \/ pc'[b] = pc[b] /\ url'[b] = url[b]
           \/ pc[b] \in Between /\ pc'[b] \in Between \cup {"full", "admit"}
    BY <1>2, PoolKeeps
  <2> QED
    BY <1>0, <2>1 DEF Hand, Handled, Between, Idle
<1>3. CASE MainStep
  <2>1. /\ resp'[b] = resp[b] /\ i'[b] = i[b] /\ url'[b] = url[b]
        /\ \/ pc'[b] = pc[b]
           \/ pc[b] \in {"unborn", "spawn"} /\ pc'[b] \in {"loop", "end"}
    BY <1>3, MainKeeps
  <2> QED
    BY <1>0, <2>1 DEF Hand, Handled
<1>4. CASE UNCHANGED vars
  BY <1>0, <1>4 DEF vars, Hand
<1> QED
  BY <1>1, <1>2, <1>3, <1>4 DEF Next
LEMMA SeedFirstNext ==
  ASSUME IdleInv, SeedFirst, [Next]_vars
  PROVE  SeedFirst'
<1> SUFFICES ASSUME pc'[Main] = "admit" PROVE visted_url' = <<>>
  BY DEF SeedFirst
<1> USE PoolAssumption DEF Actors
<1>1. ASSUME NEW a \in Actors, CrawlStep(a)
      PROVE  FALSE
  <2>1. CASE a = Main
    <3>1. pc'[Main] # "admit"
      <4> USE <2>1 DEF IdleInv, TypeOK, Go
      <4>1. CASE Perform(a)
        BY <4>1, Classified, WhereTo
      <4>2. CASE Redirect(a)
        BY <4>2, WhereTo DEF Redirect
      <4>3. CASE EnqueueLink(a)
        BY <4>3 DEF EnqueueLink, Signal
      <4>4. CASE ~Perform(a) /\ ~Redirect(a) /\ ~EnqueueLink(a)
        BY <1>1, <4>4 DEF CrawlStep, Admit, LockXml, UnlockXml, TestPng, WritePng,
                          CountPng, Cleanup
      <4> QED
        BY <4>1, <4>2, <4>3, <4>4
    <3> QED
      BY <3>1
  <2>2. CASE a # Main
    <3>1. pc[Main] = "admit"
      BY <1>1, <2>2, OthersKeep
    <3>2. pc[a] = "unborn"
      BY <2>2, <3>1 DEF IdleInv, MainFirst, Crawling
    <3> QED
      BY <1>1, <3>2, CrawlMoves DEF IdleInv, Crawling, Fetched
  <2> QED
    BY <2>1, <2>2
<1>2. ASSUME NEW t \in Threads, PoolStep(t) \/ SpuriousWakeup(t)
      PROVE  FALSE
  <2>1. pc[Main] = "admit"
    BY <1>2, PoolKeeps
  <2>2. pc[t] = "unborn"
    BY <2>1 DEF IdleInv, MainFirst, Crawling
  <2> QED
    BY <1>2, <2>2 DEF PoolStep, CheckFrontier, Broadcast, Wake, CheckQuota, Take,
                      SpuriousWakeup
<1>3. CASE MainStep
  <2>1. pc[Main] = "spawn" /\ pc'[Main] # "admit"
    BY <1>3 DEF MainStep, Join, Spawn, IdleInv, TypeOK, Go
  <2> QED
    BY <2>1
<1>4. CASE UNCHANGED vars
  BY <1>4 DEF vars, SeedFirst
<1> QED
  BY <1>1, <1>2, <1>3, <1>4 DEF Next

\* The PNGs found never get fewer.
LEMMA CountGrows ==
  ASSUME IdleInv, [Next]_vars
  PROVE  QuotaReached => QuotaReached'
<1>1. png_count' = png_count \/ png_count' = png_count + 1
  BY DEF Next, CrawlStep, Admit, Perform, Redirect, LockXml, EnqueueLink, UnlockXml,
         TestPng, WritePng, CountPng, Cleanup, PoolStep, CheckFrontier, Broadcast, Wake,
         CheckQuota, Take, SpuriousWakeup, MainStep, Join, Spawn, vars
<1>2. png_count \in Nat /\ NumPngs \in Nat
  BY OptionAssumption DEF IdleInv, TypeOK
<1> QED
  BY <1>1, <1>2 DEF QuotaReached

LEMMA ExitsNext ==
  ASSUME IdleInv, LeftAtQuota, EndsLast, [Next]_vars
  PROVE  LeftAtQuota' /\ EndsLast'
<1> USE PoolAssumption DEF Actors
<1>0. QuotaReached => QuotaReached'
  BY CountGrows
<1>1. ASSUME NEW a \in Actors, CrawlStep(a)
      PROVE  LeftAtQuota' /\ EndsLast'
  <2>1. /\ pc[a] \in Crawling
        /\ pc'[a] \in Crawling \/ pc'[a] = IF a = Main THEN "spawn" ELSE "loop"
        /\ \A b \in Actors \ {a} :
              \/ pc'[b] = pc[b]
              \/ b \in Threads /\ pc[b] = "wait" /\ pc'[b] = "woken"
    BY <1>1, CrawlMoves DEF IdleInv
  <2>2. \A t \in Threads : pc'[t] = "full" => pc[t] = "full"
    BY <2>1 DEF Crawling, Fetched
  <2>3. pc[Main] # "end"
    <3>1. ASSUME pc[Main] = "end" PROVE FALSE
      <4>1. a # Main /\ pc[a] \in Exited
        BY <2>1, <3>1 DEF EndsLast, Crawling, Fetched
      <4> QED
        BY <2>1, <4>1 DEF Exited, Crawling, Fetched
    <3> QED
      BY <3>1
  <2>4. pc'[Main] # "end"
    BY <2>1, <2>3 DEF Crawling, Fetched
  <2> QED
    BY <1>0, <2>2, <2>4 DEF LeftAtQuota, EndsLast
<1>2. ASSUME NEW t \in Threads, PoolStep(t) \/ SpuriousWakeup(t)
      PROVE  LeftAtQuota' /\ EndsLast'
  <2>1. pc'[Main] = pc[Main]
    BY <1>2, PoolKeeps
  <2>2. pc[t] \notin Exited
    BY <1>2 DEF PoolStep, CheckFrontier, Broadcast, Wake, CheckQuota, Take,
                SpuriousWakeup, Exited
  <2>3. \A s \in Threads : pc'[s] = "full" => pc[s] = "full" \/ QuotaReached
    <3>1. CASE CheckQuota(t)
      BY <3>1 DEF CheckQuota, IdleInv, TypeOK, Go
    <3>2. CASE Broadcast(t)
      BY <3>2 DEF Broadcast
    <3>3. CASE CheckFrontier(t) \/ Wake(t)
      BY <3>3 DEF CheckFrontier, Wake, IdleInv, TypeOK, Go
    <3>4. CASE Take(t) \/ SpuriousWakeup(t)
      BY <3>4 DEF Take, SpuriousWakeup, IdleInv, TypeOK, Go
    <3> QED
      BY <1>2, <3>1, <3>2, <3>3, <3>4 DEF PoolStep
  <2> QED
    BY <1>0, <2>1, <2>2, <2>3 DEF LeftAtQuota, EndsLast
<1>3. CASE MainStep
  <2>1. CASE Join
    BY <1>0, <2>1 DEF Join, LeftAtQuota, EndsLast, IdleInv, TypeOK, Go, Exited
  <2>2. ASSUME NEW t \in Threads, Spawn(t)
        PROVE  LeftAtQuota' /\ EndsLast'
    BY <1>0, <2>2 DEF Spawn, LeftAtQuota, EndsLast, IdleInv, TypeOK, Go
  <2> QED
    BY <1>3, <2>1, <2>2 DEF MainStep
<1>4. CASE UNCHANGED vars
  BY <1>4 DEF vars, LeftAtQuota, EndsLast, QuotaReached
<1> QED
  BY <1>1, <1>2, <1>3, <1>4 DEF Next

LEMMA HandInit == Init => HandInv
<1> SUFFICES ASSUME Init PROVE HandInv
  OBVIOUS
<1>1. /\ pc[Main] = "admit"
      /\ \A t \in Threads : pc[t] = "unborn"
      /\ \A a \in Actors : pc[a] \in {"admit", "unborn"} /\ i[a] = 0
  BY PoolAssumption DEF Init, Actors
<1>2. ReplyInHand
  BY <1>1 DEF ReplyInHand, Hand, Handled
<1>3. SeedFirst /\ LeftAtQuota /\ EndsLast
  BY <1>1 DEF Init, SeedFirst, LeftAtQuota, EndsLast
<1> QED
  BY <1>2, <1>3 DEF HandInv

\* At every place of a crawl the reply in hand is what the place is for; the quota, once
\* a thread has left for it, stays reached; and main returns last.
THEOREM HandInvariant == Spec => []HandInv
<1>1. IdleInv /\ HandInv /\ [Next]_vars => HandInv'
  BY HandNext, SeedFirstNext, ExitsNext DEF HandInv
<1> QED
  BY <1>1, HandInit, IdleInvariant, PTL DEF Spec
-------------------------------------------------------------------------------
(* The mapping, actor by actor. *)

OwnInHand(a) == IF pc[a] = "admit" THEN {url[a]} ELSE {}
OwnUnread(a) == IF pc[a] \in {"redirect", "parse", "links"} /\ IsHtml(resp[a])
                THEN LinksFrom(resp[a], i[a]) ELSE {}
OwnOpen(a)   == IF pc[a] = "perform" THEN {url[a]} ELSE {}

OthersInHand(a) == UNION {OwnInHand(b) : b \in Actors \ {a}}
OthersUnread(a) == UNION {OwnUnread(b) : b \in Actors \ {a}}
OthersOpen(a)   == UNION {OwnOpen(b) : b \in Actors \ {a}}

\* A step of a crawl changes only what the actor itself contributes.
LEMMA Contributions ==
  ASSUME IdleInv, NEW a \in Actors, CrawlStep(a)
  PROVE  /\ InHand = OthersInHand(a) \cup OwnInHand(a)
         /\ InHand' = OthersInHand(a) \cup OwnInHand(a)'
         /\ Unread = OthersUnread(a) \cup OwnUnread(a)
         /\ Unread' = OthersUnread(a) \cup OwnUnread(a)'
         /\ Open = OthersOpen(a) \cup OwnOpen(a)
         /\ Open' = OthersOpen(a) \cup OwnOpen(a)'
<1>1. \A b \in Actors \ {a} :
         /\ url'[b] = url[b] /\ resp'[b] = resp[b] /\ i'[b] = i[b]
         /\ pc'[b] = pc[b] \/ (pc[b] = "wait" /\ pc'[b] = "woken")
  BY OthersKeep
<1>2. \A b \in Actors \ {a} : /\ OwnInHand(b)' = OwnInHand(b)
                              /\ OwnUnread(b)' = OwnUnread(b)
                              /\ OwnOpen(b)' = OwnOpen(b)
  BY <1>1 DEF OwnInHand, OwnUnread, OwnOpen
<1>3. /\ OthersInHand(a)' = OthersInHand(a)
      /\ OthersUnread(a)' = OthersUnread(a)
      /\ OthersOpen(a)' = OthersOpen(a)
  BY <1>2 DEF OthersInHand, OthersUnread, OthersOpen
<1>4. InHand = OthersInHand(a) \cup OwnInHand(a) /\ InHand' = OthersInHand(a)' \cup OwnInHand(a)'
  BY DEF InHand, OthersInHand, OwnInHand
<1>5. Unread = OthersUnread(a) \cup OwnUnread(a) /\ Unread' = OthersUnread(a)' \cup OwnUnread(a)'
  BY DEF Unread, OthersUnread, OwnUnread
<1>6. Open = OthersOpen(a) \cup OwnOpen(a) /\ Open' = OthersOpen(a)' \cup OwnOpen(a)'
  BY DEF Open, OthersOpen, OwnOpen
<1> QED
  BY <1>3, <1>4, <1>5, <1>6

Whole == IdleInv /\ OneFetchPerUrl /\ QuotaSlack /\ FileMatchesCount /\ HandInv

\* What a stutter of Crawl leaves alone.
Same == /\ Known' = Known /\ Visited' = Visited /\ Open' = Open /\ png_urls' = png_urls
        /\ (pc'[Main] = "end" <=> pc[Main] = "end")

LEMMA StutterStep == Same => UNCHANGED Promise!vars
BY DEF Same, Promise!vars

\* main has not returned while somebody crawls.
LEMMA NotFinished ==
  ASSUME Whole, NEW a \in Actors, CrawlStep(a)
  PROVE  pc[Main] # "end" /\ pc'[Main] # "end"
<1>1. /\ pc[a] \in Crawling
      /\ pc'[a] \in Crawling \/ pc'[a] = IF a = Main THEN "spawn" ELSE "loop"
      /\ \A b \in Actors \ {a} :
            \/ pc'[b] = pc[b]
            \/ b \in Threads /\ pc[b] = "wait" /\ pc'[b] = "woken"
  BY CrawlMoves DEF Whole, IdleInv
<1>2. pc[Main] # "end"
  BY <1>1, PoolAssumption DEF Whole, HandInv, EndsLast, Exited, Crawling, Fetched, Actors
<1> QED
  BY <1>1, <1>2 DEF Crawling, Fetched, Actors
-------------------------------------------------------------------------------
(* The steps. *)

LEMMA AdmitVisits ==
  ASSUME Whole, NEW a \in Actors, Admit(a)
  PROVE  Promise!Next \/ Same
<1>1. /\ pc[a] = "admit" /\ url[a] \in Urls /\ ProcessUrl(url[a])
      /\ UNCHANGED <<resp, i, url_frontier, png_urls>>
      /\ pc \in [Actors -> Pooled \cup {"spawn", "end"}]
      /\ IdleInv /\ TypeOK /\ CrawlStep(a)
  BY DEF Whole, IdleInv, TypeOK, Admit, CrawlStep
<1>2. Visited' = Visited \cup {url[a]}
  BY <1>1, ProcessUrlVisits
<1>3. pc[Main] # "end" /\ pc'[Main] # "end"
  BY <1>1, NotFinished
<1>4. OwnInHand(a) = {url[a]} /\ OwnUnread(a) = {} /\ OwnOpen(a) = {}
  BY <1>1 DEF OwnInHand, OwnUnread, OwnOpen
<1>5. CASE url[a] \notin Visited
  <2>1. pc'[a] = "perform" /\ url' = url
    BY <1>1, <1>5 DEF Admit, Go
  <2>2. OwnInHand(a)' = {} /\ OwnUnread(a)' = {} /\ OwnOpen(a)' = {url[a]}
    BY <2>1 DEF OwnInHand, OwnUnread, OwnOpen
  <2>3. Known' = Known /\ Open' = Open \cup {url[a]} /\ url[a] \in Known
    BY <1>1, <1>2, <1>4, <2>2, Contributions DEF Known
  <2>4. Promise!Visit(url[a])
    BY <1>1, <1>2, <1>3, <1>5, <2>3 DEF Promise!Visit
  <2> QED
    BY <1>1, <1>3, <2>4 DEF Promise!Next
<1>6. CASE url[a] \in Visited
  <2>1. a # Main
    BY <1>1, <1>6 DEF Whole, HandInv, SeedFirst, Visited, Range
  <2>2. pc'[a] = "loop"
    BY <1>1, <1>6, <2>1 DEF Admit, Go
  <2>3. OwnInHand(a)' = {} /\ OwnUnread(a)' = {} /\ OwnOpen(a)' = {}
    BY <2>2 DEF OwnInHand, OwnUnread, OwnOpen
  <2>4. Visited' = Visited
    BY <1>2, <1>6
  <2>5. Known' = Known /\ Open' = Open
    BY <1>1, <1>4, <1>6, <2>3, <2>4, Contributions DEF Known
  <2> QED
    BY <1>1, <1>3, <2>4, <2>5 DEF Same
<1> QED
  BY <1>5, <1>6

\* The url of a reply in hand is visited, and nobody else waits for its reply.
LEMMA HandledUrl ==
  ASSUME Whole, NEW a \in Actors, pc[a] \in {"perform"} \cup Handled
  PROVE  /\ url[a] \in Urls
         /\ url[a] \in Visited
         /\ url[a] \notin OthersOpen(a)
<1>1. url[a] \in Urls
  BY DEF Whole, IdleInv, TypeOK
<1>2. pc[a] \in {"perform"} \cup Fetched
  BY DEF Handled, Fetched
<1>3. url[a] \in Visited
  BY <1>2 DEF Whole, OneFetchPerUrl
<1>4. \A b \in Actors \ {a} : url[a] \notin OwnOpen(b)
  BY <1>2 DEF Whole, OneFetchPerUrl, OwnOpen
<1> QED
  BY <1>1, <1>3, <1>4 DEF OthersOpen

LEMMA PerformFetches ==
  ASSUME Whole, NEW a \in Actors, Perform(a)
  PROVE  Promise!Next
<1>1. /\ pc[a] = "perform" /\ url[a] \in Urls /\ i[a] = 0 /\ i' = i
      /\ UNCHANGED <<url, url_frontier, visted_url, png_urls>>
      /\ pc \in [Actors -> Pooled \cup {"spawn", "end"}] /\ resp \in [Actors -> Response]
      /\ IdleInv /\ CrawlStep(a)
  BY DEF Whole, IdleInv, TypeOK, Perform, CrawlStep, HandInv, ReplyInHand, Hand
<1>2. PICK r \in Responses[url[a]] :
            /\ r \in Response
            /\ resp' = [resp EXCEPT ![a] = r]
            /\ \/ ~(r.complete /\ r.accepted) /\ pc' = [pc EXCEPT ![a] = "cleanup"]
               \/ /\ r.complete /\ r.accepted
                  /\ \/ IsRedirect(r) /\ pc' = [pc EXCEPT ![a] = "redirect"]
                     \/ ~IsRedirect(r) /\ pc' = [pc EXCEPT ![a] = ByContentType(r)]
  BY <1>1, Classified
<1>3. pc[Main] # "end" /\ pc'[Main] # "end"
  BY <1>1, NotFinished
<1>4. Visited' = Visited
  BY <1>1 DEF Visited
<1>5. OwnInHand(a) = {} /\ OwnUnread(a) = {} /\ OwnOpen(a) = {url[a]}
  BY <1>1 DEF OwnInHand, OwnUnread, OwnOpen
<1>6. /\ resp'[a] = r
      /\ \/ ~(r.complete /\ r.accepted) /\ pc'[a] = "cleanup"
         \/ /\ r.complete /\ r.accepted
            /\ \/ pc'[a] = "redirect"
               \/ pc'[a] = ByContentType(r)
  BY <1>1, <1>2
<1>7. pc'[a] \notin {"admit", "perform"}
  BY <1>2, <1>6, WhereTo
<1>8. OwnInHand(a)' = {} /\ OwnOpen(a)' = {}
  BY <1>7 DEF OwnInHand, OwnOpen
<1> DEFINE answer == IF r.complete THEN r ELSE NoResponse
<1>9. OwnUnread(a)' = IF IsHtml(answer) THEN LinksFrom(answer, 0) ELSE {}
  <2>1. CASE ~(r.complete /\ r.accepted)
    <3>1. pc'[a] = "cleanup" /\ ~IsHtml(answer)
      BY <1>6, <2>1 DEF IsHtml, NoResponse
    <3> QED
      BY <3>1 DEF OwnUnread
  <2>2. CASE r.complete /\ r.accepted
    <3>1. IsHtml(r) => pc'[a] \in {"redirect", "parse"}
      BY <1>2, <1>6, <2>2, WhereTo DEF IsHtml
    <3>2. answer = r /\ i'[a] = 0
      BY <1>1, <2>2
    <3> QED
      BY <1>6, <3>1, <3>2 DEF OwnUnread
  <2> QED
    BY <2>1, <2>2
<1>10. answer \in Replies[url[a]]
  BY <1>1, <1>2 DEF Replies
<1> HIDE DEF answer
<1>11. Known' = Known \cup (IF IsHtml(answer) THEN LinksFrom(answer, 0) ELSE {})
  BY <1>1, <1>4, <1>5, <1>8, <1>9, Contributions DEF Known
<1>12. url[a] \in Open /\ Open' = Open \ {url[a]}
  BY <1>1, <1>5, <1>8, Contributions, HandledUrl
<1>13. Promise!Fetch(url[a])
  BY <1>1, <1>3, <1>4, <1>10, <1>11, <1>12
  DEF Promise!Fetch, Promise!IsHtml, Promise!LinksFrom, IsHtml, LinksFrom
<1> QED
  BY <1>1, <1>3, <1>13 DEF Promise!Next

LEMMA RedirectFollows ==
  ASSUME Whole, NEW a \in Actors, Redirect(a)
  PROVE  Promise!Next
<1>1. /\ pc[a] = "redirect" /\ pc'[a] = ByContentType(resp[a])
      /\ resp[a] \in Response /\ resp[a].eff \in Urls
      /\ resp[a] \in Responses[url[a]] /\ resp[a].complete /\ IsRedirect(resp[a])
      /\ ProcessUrl(resp[a].eff)
      /\ UNCHANGED <<url, resp, i, url_frontier, png_urls>>
      /\ IdleInv /\ TypeOK /\ CrawlStep(a)
  BY DEF Whole, IdleInv, TypeOK, Redirect, CrawlStep, HandInv, ReplyInHand, Hand, Handled,
         Response, locals, Go
<1>2. Visited' = Visited \cup {resp[a].eff}
  BY <1>1, ProcessUrlVisits
<1>3. pc[Main] # "end" /\ pc'[Main] # "end"
  BY <1>1, NotFinished
<1>4. OwnInHand(a) = {} /\ OwnInHand(a)' = {} /\ OwnOpen(a) = {} /\ OwnOpen(a)' = {}
  BY <1>1, WhereTo DEF OwnInHand, OwnOpen
<1>5. OwnUnread(a)' = OwnUnread(a)
  BY <1>1, WhereTo DEF OwnUnread, IsHtml
<1>6. Known' = Known \cup {resp[a].eff} /\ Open' = Open
  BY <1>1, <1>2, <1>4, <1>5, Contributions DEF Known
<1>7. url[a] \in Urls /\ url[a] \in Visited \ Open
  BY <1>1, <1>4, Contributions, HandledUrl DEF Handled
<1>8. resp[a] \in Replies[url[a]]
  BY <1>1, <1>7 DEF Replies
<1>9. Promise!Follow(url[a])
  BY <1>1, <1>2, <1>3, <1>6, <1>7, <1>8 DEF Promise!Follow, Promise!IsRedirect, IsRedirect
<1> QED
  BY <1>3, <1>7, <1>9 DEF Promise!Next
\* The hrefs from one position on are the next href and those from the position after,
\* and there are none from the end on.
LEMMA NextLink ==
  ASSUME NEW r \in Response, NEW n \in Nat
  PROVE  LinksFrom(r, n) = IF n < Len(r.links)
                           THEN LinksFrom(r, n + 1) \cup ({r.links[n + 1]} \ {NotHttp})
                           ELSE {}
<1>1. r.links \in Seq(Urls \cup {NotHttp})
  BY DEF Response
<1>2. {r.links[k] : k \in (n + 1)..Len(r.links)}
        = IF n < Len(r.links)
          THEN {r.links[n + 1]} \cup {r.links[k] : k \in ((n + 1) + 1)..Len(r.links)}
          ELSE {}
  BY <1>1, ElementsFrom
<1> QED
  BY <1>2 DEF LinksFrom

LEMMA EnqueueLinkStutters ==
  ASSUME Whole, NEW a \in Actors, EnqueueLink(a)
  PROVE  Same
<1> DEFINE href == resp[a].links[i[a] + 1]
<1>1. /\ pc[a] = "links" /\ IsHtml(resp[a])
      /\ i[a] \in Nat /\ resp[a] \in Response
      /\ i[a] < Len(resp[a].links) /\ i'[a] = i[a] + 1
      /\ url_frontier \in Seq(Urls)
      /\ UNCHANGED <<url, resp, visted_url, png_urls>>
      /\ CrawlStep(a) /\ IdleInv
  BY DEF Whole, IdleInv, TypeOK, EnqueueLink, CrawlStep, HandInv, ReplyInHand, Hand
<1>2. pc'[a] = "links"
  <2>1. UNCHANGED pc \/ Signal
    BY DEF EnqueueLink
  <2> QED
    BY <1>1, <2>1, PoolAssumption DEF Signal, Actors, Go, IdleInv, TypeOK
<1>3. pc[Main] # "end" /\ pc'[Main] # "end"
  BY <1>1, NotFinished
<1>4. href \in Urls \cup {NotHttp}
  BY <1>1 DEF Response
<1>5. \/ href = NotHttp /\ url_frontier' = url_frontier
      \/ href # NotHttp /\ url_frontier' = Append(url_frontier, href)
  BY DEF EnqueueLink
<1>6. LinksFrom(resp[a], i[a]) = LinksFrom(resp[a], i'[a]) \cup ({href} \ {NotHttp})
  BY <1>1, NextLink
<1> HIDE DEF href
<1>7. Range(url_frontier') = Range(url_frontier) \cup ({href} \ {NotHttp})
  <2>1. CASE href = NotHttp
    BY <1>5, <2>1
  <2>2. CASE href # NotHttp
    <3>1. href \in Urls /\ url_frontier \in Seq(Urls) /\ url_frontier' = Append(url_frontier, href)
      BY <1>1, <1>4, <1>5, <2>2
    <3>2. Range(Append(url_frontier, href)) = Range(url_frontier) \cup {href}
      BY <3>1, AppendRange
    <3> QED
      BY <2>2, <3>1, <3>2
  <2> QED
    BY <2>1, <2>2
<1>8. /\ OwnInHand(a) = {} /\ OwnInHand(a)' = {}
      /\ OwnOpen(a) = {} /\ OwnOpen(a)' = {}
      /\ OwnUnread(a) = LinksFrom(resp[a], i[a])
      /\ OwnUnread(a)' = LinksFrom(resp[a], i'[a])
  BY <1>1, <1>2 DEF OwnInHand, OwnOpen, OwnUnread
<1>9. Visited' = Visited
  BY <1>1 DEF Visited
<1>10. /\ InHand' = InHand /\ Open' = Open
       /\ Unread = OthersUnread(a) \cup LinksFrom(resp[a], i[a])
       /\ Unread' = OthersUnread(a) \cup LinksFrom(resp[a], i'[a])
  BY <1>1, <1>8, Contributions
<1>11. Known' = Known
  BY <1>6, <1>7, <1>9, <1>10 DEF Known
<1> QED
  BY <1>1, <1>3, <1>9, <1>10, <1>11 DEF Same

\* The other steps of a crawl are not seen from outside.
LEMMA QuietStutters ==
  ASSUME Whole, NEW a \in Actors,
         LockXml(a) \/ UnlockXml(a) \/ TestPng(a) \/ CountPng(a) \/ Cleanup(a)
  PROVE  Same
<1>1. /\ pc[a] \in {"parse", "links", "test", "count", "cleanup"}
      /\ UNCHANGED <<url_frontier, visted_url, png_urls>>
      /\ pc \in [Actors -> Pooled \cup {"spawn", "end"}]
      /\ i[a] \in Nat /\ resp[a] \in Response
      /\ CrawlStep(a) /\ IdleInv
  BY DEF Whole, IdleInv, TypeOK, LockXml, UnlockXml, TestPng, CountPng, Cleanup, CrawlStep
<1>2. pc[Main] # "end" /\ pc'[Main] # "end"
  BY <1>1, NotFinished
<1>3. OwnInHand(a) = {} /\ OwnOpen(a) = {}
  BY <1>1 DEF OwnInHand, OwnOpen
<1>4. OwnInHand(a)' = {} /\ OwnOpen(a)' = {} /\ OwnUnread(a)' = OwnUnread(a)
  <2>1. CASE LockXml(a)
    <3>1. pc[a] = "parse" /\ pc'[a] = "links" /\ UNCHANGED <<resp, i>>
      BY <1>1, <2>1 DEF LockXml, Go, locals
    <3> QED
      BY <3>1 DEF OwnInHand, OwnOpen, OwnUnread
  <2>2. CASE UnlockXml(a)
    <3>1. /\ pc[a] = "links" /\ pc'[a] = "cleanup"
          /\ ~(i[a] < Len(resp[a].links))
      <4>1. Len(resp[a].links) \in Nat
        BY <1>1 DEF Response
      <4> QED
        BY <1>1, <2>2, <4>1 DEF UnlockXml, Go
    <3>2. LinksFrom(resp[a], i[a]) = {}
      BY <1>1, <3>1, NextLink
    <3> QED
      BY <3>1, <3>2 DEF OwnInHand, OwnOpen, OwnUnread
  <2>3. CASE TestPng(a) \/ CountPng(a) \/ Cleanup(a)
    <3>1. /\ pc[a] \in {"test", "count", "cleanup"}
          /\ pc'[a] \in {"write", "cleanup", "spawn", "loop"}
      BY <1>1, <2>3 DEF TestPng, CountPng, Cleanup, Go
    <3> QED
      BY <3>1 DEF OwnInHand, OwnOpen, OwnUnread
  <2> QED
    BY <2>1, <2>2, <2>3
<1>5. Visited' = Visited
  BY <1>1 DEF Visited
<1>6. Known' = Known /\ Open' = Open
  BY <1>1, <1>3, <1>4, <1>5, Contributions DEF Known
<1> QED
  BY <1>1, <1>2, <1>5, <1>6 DEF Same

LEMMA WritePngLists ==
  ASSUME Whole, NEW a \in Actors, WritePng(a), FALSE \notin FopenResults
  PROVE  Promise!Next
<1>1. /\ pc[a] = "write" /\ pc'[a] = "count"
      /\ resp[a] \in Responses[url[a]] /\ resp[a].complete /\ IsPng(resp[a])
      /\ WriteUrl(resp[a].eff)
      /\ UNCHANGED <<url, resp, i, url_frontier, visted_url>>
      /\ CrawlStep(a) /\ IdleInv
  BY DEF Whole, IdleInv, TypeOK, WritePng, CrawlStep, HandInv, ReplyInHand, Hand, Handled,
         Go, locals
<1>2. png_urls' = Append(png_urls, resp[a].eff)
  <2>1. FopenResults = {TRUE}
    BY OptionAssumption
  <2> QED
    BY <1>1, <2>1 DEF WriteUrl
<1>3. pc[Main] # "end" /\ pc'[Main] # "end"
  BY <1>1, NotFinished
<1>4. /\ OwnInHand(a) = {} /\ OwnOpen(a) = {} /\ OwnUnread(a) = {}
      /\ OwnInHand(a)' = {} /\ OwnOpen(a)' = {} /\ OwnUnread(a)' = {}
  BY <1>1 DEF OwnInHand, OwnOpen, OwnUnread
<1>5. Visited' = Visited
  BY <1>1 DEF Visited
<1>6. Known' = Known /\ Open' = Open
  BY <1>1, <1>4, <1>5, Contributions DEF Known
<1>7. url[a] \in Urls /\ url[a] \in Visited \ Open
  BY <1>1, <1>4, Contributions, HandledUrl DEF Handled
<1>8. resp[a] \in Replies[url[a]]
  BY <1>1, <1>7 DEF Replies
<1>9. Len(png_urls) < NumPngs + (Cardinality(Threads) - 1)
  <2>1. Counting \cup {a} \subseteq Listing /\ a \notin Counting
    BY <1>1 DEF Counting, Listing
  <2>2. Cardinality(Counting \cup {a}) = Cardinality(Counting) + 1
    BY <2>1, SubsetFinite, FS_AddElement DEF Counting
  <2>3. Cardinality(Counting \cup {a}) <= Cardinality(Listing)
    BY <2>1, ListingFinite, FS_Subset
  <2>4. Len(png_urls) = png_count + Cardinality(Counting)
    BY DEF Whole, FileMatchesCount, FopenReliable
  <2>5. /\ Cardinality(Counting) \in Nat /\ Cardinality(Listing) \in Nat
        /\ Cardinality(Threads) \in Nat /\ png_count \in Nat /\ NumPngs \in Nat
    BY SubsetFinite, ListingFinite, PoolAssumption, OptionAssumption, FS_CardinalityType
    DEF Counting, Whole, IdleInv, TypeOK
  <2>6. png_count + Cardinality(Listing) <= NumPngs + Cardinality(Threads) - 1
    BY DEF Whole, QuotaSlack
  <2> DEFINE C == Cardinality(Counting)
             L == Cardinality(Listing)
             T == Cardinality(Threads)
  <2>7. /\ C \in Nat /\ L \in Nat /\ T \in Nat /\ C + 1 <= L
        /\ png_count + L <= NumPngs + T - 1
        /\ Len(png_urls) = png_count + C
    BY <2>2, <2>3, <2>4, <2>5, <2>6
  <2> HIDE DEF C, L, T
  <2>8. Len(png_urls) < NumPngs + (T - 1)
    BY <2>5, <2>7
  <2> QED
    BY <2>8 DEF T
<1>10. Promise!List(url[a])
  BY <1>1, <1>2, <1>3, <1>5, <1>6, <1>7, <1>8, <1>9 DEF Promise!List, Promise!IsPng, IsPng
<1> QED
  BY <1>3, <1>7, <1>10 DEF Promise!Next

LEMMA CrawlStepPromised ==
  ASSUME Whole, NEW a \in Actors, CrawlStep(a), FALSE \notin FopenResults
  PROVE  Promise!Next \/ Same
BY AdmitVisits, PerformFetches, RedirectFollows, EnqueueLinkStutters, QuietStutters,
   WritePngLists
DEF CrawlStep

\* What the threads between two crawls, and main after its own, have in hand.
LEMMA BetweenCrawls ==
  ASSUME NEW b \in Actors, pc[b] \in Between \cup {"full", "spawn", "end"}
  PROVE  OwnInHand(b) = {} /\ OwnUnread(b) = {} /\ OwnOpen(b) = {}
BY DEF Between, Idle, OwnInHand, OwnUnread, OwnOpen

\* The mapping, summed up over the actors.
LEMMA Shares ==
  /\ InHand = UNION {OwnInHand(b) : b \in Actors}
  /\ Unread = UNION {OwnUnread(b) : b \in Actors}
  /\ Open = UNION {OwnOpen(b) : b \in Actors}
  /\ InHand' = UNION {OwnInHand(b)' : b \in Actors}
  /\ Unread' = UNION {OwnUnread(b)' : b \in Actors}
  /\ Open' = UNION {OwnOpen(b)' : b \in Actors}
BY DEF InHand, Unread, Open, OwnInHand, OwnUnread, OwnOpen

\* A step that leaves every share alone is not seen from outside.
LEMMA SameShares ==
  ASSUME \A b \in Actors : /\ OwnInHand(b)' = OwnInHand(b)
                           /\ OwnUnread(b)' = OwnUnread(b)
                           /\ OwnOpen(b)' = OwnOpen(b),
         UNCHANGED <<url_frontier, visted_url>>
  PROVE  Known' = Known /\ Visited' = Visited /\ Open' = Open
<1>1. InHand' = InHand /\ Unread' = Unread /\ Open' = Open
  BY Shares
<1> QED
  BY <1>1 DEF Known, Visited

\* A url that a thread takes off the frontier is known as long as it is in hand.
LEMMA TakeStutters ==
  ASSUME Whole, NEW t \in Threads, Take(t), url_frontier # <<>>
  PROVE  Same
<1>1. /\ pc[t] = "take" /\ pc'[t] = "admit" /\ url'[t] = Head(url_frontier)
      /\ url_frontier' = Tail(url_frontier) /\ url_frontier \in Seq(Urls)
      /\ UNCHANGED <<visted_url, png_urls, resp, i>>
      /\ t \in Actors
      /\ \A b \in Actors \ {t} : pc'[b] = pc[b] /\ url'[b] = url[b]
  BY DEF Take, Go, Whole, IdleInv, TypeOK, Actors
<1>2. \A b \in Actors \ {t} : /\ OwnInHand(b)' = OwnInHand(b)
                              /\ OwnUnread(b)' = OwnUnread(b)
                              /\ OwnOpen(b)' = OwnOpen(b)
  BY <1>1 DEF OwnInHand, OwnUnread, OwnOpen
<1>3. /\ OwnInHand(t) = {} /\ OwnUnread(t) = {} /\ OwnOpen(t) = {}
      /\ OwnInHand(t)' = {Head(url_frontier)} /\ OwnUnread(t)' = {} /\ OwnOpen(t)' = {}
  BY <1>1 DEF OwnInHand, OwnUnread, OwnOpen
<1>4. Unread' = Unread /\ Open' = Open
  <2>1. \A b \in Actors : OwnUnread(b)' = OwnUnread(b) /\ OwnOpen(b)' = OwnOpen(b)
    BY <1>2, <1>3
  <2> QED
    BY <2>1, Shares
<1>5. InHand' = InHand \cup {Head(url_frontier)}
  BY <1>1, <1>2, <1>3, Shares
<1>6. Range(url_frontier) = Range(url_frontier') \cup {Head(url_frontier)}
  BY <1>1, TailRange
<1>7. Visited' = Visited /\ png_urls' = png_urls
  BY <1>1 DEF Visited
<1>8. Known' = Known
  BY <1>4, <1>5, <1>6, <1>7 DEF Known
<1>9. pc'[Main] = pc[Main]
  BY <1>1, PoolAssumption DEF Actors
<1> QED
  BY <1>4, <1>7, <1>8, <1>9 DEF Same

LEMMA PoolStutters ==
  ASSUME Whole, NEW t \in Threads, PoolStep(t) \/ SpuriousWakeup(t)
  PROVE  Same
<1>1. CASE Take(t) /\ url_frontier # <<>>
  BY <1>1, TakeStutters
<1>2. CASE ~(Take(t) /\ url_frontier # <<>>)
  <2>1. /\ UNCHANGED <<url_frontier, visted_url, png_urls>>
        /\ Take(t) => pc'[t] = "loop"
    BY <1>2 DEF PoolStep, CheckFrontier, Broadcast, Wake, CheckQuota, Take,
                SpuriousWakeup, Whole, IdleInv, TypeOK, Go, Actors
  <2>2. IdleInv
    BY DEF Whole
  <2>3. ASSUME NEW b \in Actors
        PROVE  /\ OwnInHand(b)' = OwnInHand(b)
               /\ OwnUnread(b)' = OwnUnread(b)
               /\ OwnOpen(b)' = OwnOpen(b)
    <3>1. /\ resp'[b] = resp[b] /\ i'[b] = i[b] /\ url'[b] = url[b]
          /\ \/ pc'[b] = pc[b]
             \/ pc[b] \in Between /\ pc'[b] \in Between \cup {"full"}
      <4>1. /\ resp'[b] = resp[b] /\ i'[b] = i[b]
            /\ \/ pc'[b] = pc[b] /\ url'[b] = url[b]
               \/ /\ b \in Threads /\ pc[b] \in Between
                  /\ \/ pc'[b] \in Between \cup {"full"} /\ url'[b] = url[b]
                     \/ pc'[b] = "admit" /\ b = t /\ Take(t)
        BY <2>2, PoolKeeps
      <4> QED
        BY <2>1, <4>1
    <3> QED
      BY <3>1 DEF Between, Idle, OwnInHand, OwnUnread, OwnOpen
  <2>4. Known' = Known /\ Visited' = Visited /\ Open' = Open
    BY <2>1, <2>3, SameShares
  <2>5. pc'[Main] = pc[Main]
    BY <2>2, PoolKeeps, PoolAssumption DEF Actors
  <2> QED
    BY <2>1, <2>4, <2>5 DEF Same
<1> QED
  BY <1>1, <1>2

LEMMA SpawnStutters ==
  ASSUME Whole, NEW t \in Threads, Spawn(t)
  PROVE  Same
<1>1. /\ pc[t] = "unborn" /\ pc'[t] = "loop" /\ pc[Main] = "spawn" /\ pc'[Main] = "spawn"
      /\ UNCHANGED <<url, resp, i, url_frontier, visted_url, png_urls>>
      /\ \A b \in Actors \ {t} : pc'[b] = pc[b]
  BY PoolAssumption DEF Spawn, Go, Whole, IdleInv, TypeOK, Actors, locals
<1>2. \A b \in Actors : /\ OwnInHand(b)' = OwnInHand(b)
                        /\ OwnUnread(b)' = OwnUnread(b)
                        /\ OwnOpen(b)' = OwnOpen(b)
  BY <1>1 DEF OwnInHand, OwnUnread, OwnOpen
<1> QED
  BY <1>1, <1>2, SameShares DEF Same

\* main returns when all threads have left, and the last of them left for one of the
\* two reasons that a crawler has to finish.
LEMMA JoinFinishes ==
  ASSUME Whole, LeaveTogether, Join, FALSE \notin FopenResults
  PROVE  Promise!Next
<1>1. /\ pc[Main] = "spawn" /\ pc'[Main] = "end"
      /\ \A t \in Threads : pc[t] \in {"drained", "full"} /\ pc'[t] = pc[t]
      /\ UNCHANGED <<url, resp, i, url_frontier, visted_url, png_urls>>
  BY PoolAssumption DEF Join, Go, Whole, IdleInv, TypeOK, Actors, locals, Exited
<1>2. \A b \in Actors : pc[b] \in {"drained", "full", "spawn"}
                       /\ pc'[b] \in {"drained", "full", "end"}
  BY <1>1 DEF Actors
<1>3. /\ InHand = {} /\ Unread = {} /\ Open = {}
      /\ InHand' = {} /\ Unread' = {} /\ Open' = {}
  BY <1>2 DEF InHand, Unread, Open
<1>4. Visited' = Visited /\ Known' = Known
  BY <1>1, <1>3 DEF Visited, Known
<1>5. Known \subseteq Visited \/ Len(png_urls) >= NumPngs
  <2>1. CASE \E t \in Threads : pc[t] = "drained"
    <3>1. url_frontier = <<>>
      BY <2>1 DEF LeaveTogether
    <3> QED
      BY <1>3, <3>1 DEF Known, Range
  <2>2. CASE ~ \E t \in Threads : pc[t] = "drained"
    <3>1. QuotaReached
      <4>1. PICK t \in Threads : TRUE
        BY PoolAssumption
      <4>2. pc[t] = "full"
        BY <1>1, <2>2
      <4> QED
        BY <4>2 DEF Whole, HandInv, LeftAtQuota
    <3>2. Counting = {}
      BY <1>2 DEF Counting
    <3>3. Len(png_urls) = png_count + 0 /\ png_count \in Nat
      BY <3>2, FS_EmptySet DEF Whole, FileMatchesCount, FopenReliable, IdleInv, TypeOK
    <3> QED
      BY <3>1, <3>3, OptionAssumption DEF QuotaReached
  <2> QED
    BY <2>1, <2>2
<1>6. Promise!Finish
  BY <1>1, <1>3, <1>4, <1>5 DEF Promise!Finish
<1> QED
  BY <1>1, <1>6 DEF Promise!Next

LEMMA EveryStepPromised ==
  ASSUME Whole, LeaveTogether, [Next]_vars, FALSE \notin FopenResults
  PROVE  [Promise!Next]_(Promise!vars)
<1> SUFFICES Promise!Next \/ Same
  BY StutterStep
<1>1. ASSUME NEW a \in Actors, CrawlStep(a)
      PROVE  Promise!Next \/ Same
  BY <1>1, CrawlStepPromised
<1>2. ASSUME NEW t \in Threads, PoolStep(t) \/ SpuriousWakeup(t)
      PROVE  Same
  BY <1>2, PoolStutters
<1>3. ASSUME NEW t \in Threads, Spawn(t)
      PROVE  Same
  BY <1>3, SpawnStutters
<1>4. CASE Join
  BY <1>4, JoinFinishes
<1>5. CASE UNCHANGED vars
  <2>1. UNCHANGED <<pc, url, resp, i, url_frontier, visted_url, png_urls>>
    BY <1>5 DEF vars
  <2> QED
    BY <2>1 DEF Same, Known, Visited, InHand, Unread, Open
<1> QED
  BY <1>1, <1>2, <1>3, <1>4, <1>5 DEF Next, MainStep

LEMMA FirstState == Init => Promise!Init
<1> SUFFICES ASSUME Init PROVE Promise!Init
  OBVIOUS
<1>1. /\ pc[Main] = "admit" /\ \A t \in Threads : pc[t] = "unborn"
      /\ \A a \in Actors : url[a] = Seed
      /\ \A a \in Actors : pc[a] = "admit" <=> a = Main
      /\ \A a \in Actors : pc[a] \in {"admit", "unborn"}
      /\ url_frontier = <<>> /\ visted_url = <<>> /\ png_urls = <<>>
  BY PoolAssumption DEF Init, Actors
<1>2. InHand = {Seed}
  <2>1. {b \in Actors : pc[b] = "admit"} = {Main}
    BY <1>1 DEF Actors
  <2> QED
    BY <1>1, <2>1 DEF InHand, Actors
<1>3. Unread = {} /\ Open = {}
  BY <1>1 DEF Unread, Open
<1>4. Visited = {} /\ Range(url_frontier) = {}
  BY <1>1 DEF Visited, Range
<1> QED
  BY <1>1, <1>2, <1>3, <1>4 DEF Promise!Init, Known

\* As long as png_urls.txt can be opened, the pool of threads does what Crawl promises:
\* it visits only urls it has learnt of and each once, loses no link, lists only PNGs
\* that visits lead to, overshoots the quota by a PNG per further thread at most, and
\* returns only at the quota or with nothing left to visit.
THEOREM ImplementsCrawl == FALSE \notin FopenResults => (Spec => Refinement)
<1> SUFFICES ASSUME FALSE \notin FopenResults PROVE Spec => Refinement
  OBVIOUS
<1>1. Init => Promise!Init
  BY FirstState
<1>2. Whole /\ LeaveTogether /\ [Next]_vars => [Promise!Next]_(Promise!vars)
  BY EveryStepPromised
<1>3. IdleInv /\ OneFetchPerUrl /\ QuotaSlack /\ FileMatchesCount /\ HandInv => Whole
  BY DEF Whole
<1> QED
  BY <1>1, <1>2, <1>3, IdleInvariant, LeavingIsSafe, OneFetchHolds, QuotaSlackHolds,
     FileMatchesCountHolds, HandInvariant, PTL
  DEF Spec, Refinement, Promise!Spec

-------------------------------------------------------------------------------
(* A line per visit. *)

\* An actor is in flight until the reply to its url has been dealt with; a url is
\* settled when it is visited and nobody is in flight with it.
Flying(a) == pc[a] \in {"perform"} \cup Handled
InFlight  == {url[a] : a \in {b \in Actors : Flying(b)}}
Settled   == Visited \ InFlight

Lines(p)     == {k \in DOMAIN png_urls : png_urls[k] = p}
LeadingTo(p) == {u \in Urls : \E r \in Responses[u] : r.complete /\ IsPng(r) /\ r.eff = p}

\* A settled url accounts for one line of a PNG it leads to, at most.
OnePerSettled ==
    \A p \in Urls : Cardinality(Lines(p)) <= Cardinality(LeadingTo(p) \cap Settled)

\* An actor in flight after a step has been before, the same url, unless the step
\* admitted it.
LEMMA FlyingMoves ==
  ASSUME IdleInv, [Next]_vars, NEW b \in Actors, Flying(b)', ~Admit(b)
  PROVE  Flying(b) /\ url'[b] = url[b]
<1>1. Fetching(b)'
  BY DEF Flying, Fetching, Handled, Fetched
<1>2. Fetching(b) /\ url'[b] = url[b]
  BY <1>1, FetchMoves
<1>3. ASSUME pc[b] \in {"count", "cleanup"}
      PROVE  FALSE
  <2>1. ASSUME NEW a \in Actors, CrawlStep(a)
        PROVE  FALSE
    <3>1. CASE a = b
      <4>1. CountPng(b) \/ Cleanup(b)
        BY <1>3, <2>1, <3>1 DEF CrawlStep, Admit, Perform, Redirect, LockXml, EnqueueLink,
                                UnlockXml, TestPng, WritePng
      <4> QED
        BY <4>1 DEF CountPng, Cleanup, Go, IdleInv, TypeOK, Flying, Handled
    <3>2. CASE a # b
      <4>1. pc'[b] = pc[b]
        BY <1>3, <2>1, <3>2, OthersKeep
      <4> QED
        BY <1>3, <4>1 DEF Flying, Handled
    <3> QED
      BY <3>1, <3>2
  <2>2. ASSUME NEW t \in Threads, PoolStep(t) \/ SpuriousWakeup(t)
        PROVE  FALSE
    <3>1. pc'[b] = pc[b]
      BY <1>3, <2>2, PoolKeeps DEF Between, Idle
    <3> QED
      BY <1>3, <3>1 DEF Flying, Handled
  <2>3. CASE MainStep
    <3>1. pc'[b] = pc[b]
      BY <1>3, <2>3, MainKeeps
    <3> QED
      BY <1>3, <3>1 DEF Flying, Handled
  <2>4. CASE UNCHANGED vars
    BY <1>3, <2>4 DEF vars, Flying, Handled
  <2> QED
    BY <2>1, <2>2, <2>3, <2>4 DEF Next
<1>4. Flying(b)
  BY <1>2, <1>3 DEF Flying, Fetching, Handled, Fetched
<1> QED
  BY <1>2, <1>4

\* What is settled stays settled.
LEMMA SettledGrows ==
  ASSUME IdleInv, SeedFirst, [Next]_vars
  PROVE  Settled \subseteq Settled'
<1> SUFFICES ASSUME NEW u \in Settled, u \in InFlight' PROVE FALSE
  BY VisitedGrows DEF Settled
<1>1. PICK b \in Actors : Flying(b)' /\ u = url'[b]
  BY DEF InFlight
<1>2. u \in Visited /\ ~(Flying(b) /\ u = url[b])
  BY DEF Settled, InFlight
<1>3. Admit(b)
  BY <1>1, <1>2, FlyingMoves
<1>4. b = Main \/ url[b] \notin Visited
  BY <1>1, <1>3 DEF Admit, Go, IdleInv, TypeOK, Flying, Handled
<1>5. url'[b] = url[b] \/ pc'[b] = "loop"
  BY <1>3 DEF Admit, Go, IdleInv, TypeOK
<1>6. url[b] = u
  BY <1>1, <1>5 DEF Flying, Handled
<1>7. b = Main /\ visted_url = <<>>
  BY <1>2, <1>3, <1>4, <1>6 DEF Admit, SeedFirst
<1> QED
  BY <1>2, <1>7 DEF Visited, Range

LEMMA VisitedFinite ==
  ASSUME IdleInv
  PROVE  IsFiniteSet(Visited)
BY RangeFinite DEF IdleInv, TypeOK, Visited

\* No step but WritePng adds a line.
LEMMA OnlyWritePng ==
  ASSUME [Next]_vars, \A a \in Actors : ~WritePng(a)
  PROVE  png_urls' = png_urls
BY DEF Next, CrawlStep, Admit, Perform, Redirect, LockXml, EnqueueLink, UnlockXml,
       TestPng, CountPng, Cleanup, PoolStep, CheckFrontier, Broadcast, Wake,
       CheckQuota, Take, SpuriousWakeup, MainStep, Join, Spawn, vars

\* The line WritePng adds is the first one on account of the url that it settles.
LEMMA WritePngSettles ==
  ASSUME Whole, NEW a \in Actors, WritePng(a), SeedFirst
  PROVE  /\ url[a] \in Settled' \ Settled
         /\ url[a] \in LeadingTo(resp[a].eff)
         /\ resp[a].eff \in Urls
         /\ png_urls' = png_urls \/ png_urls' = Append(png_urls, resp[a].eff)
<1>1. /\ pc[a] = "write" /\ url' = url /\ pc'[a] = "count"
      /\ visted_url' = visted_url
      /\ \A b \in Actors \ {a} : pc'[b] = pc[b]
      /\ resp[a] \in Responses[url[a]] /\ resp[a].complete /\ IsPng(resp[a])
      /\ resp[a] \in Response
      /\ WriteUrl(resp[a].eff)
  BY DEF WritePng, Go, locals, Whole, IdleInv, TypeOK, HandInv, ReplyInHand, Hand, Handled
<1>2. url[a] \in Urls /\ url[a] \in Visited
  BY <1>1, HandledUrl DEF Handled
<1>3. \A b \in Actors \ {a} : Flying(b) => url[b] # url[a]
  <2>1. Fetching(a) /\ \A b \in Actors : Flying(b) => Fetching(b)
    BY <1>1 DEF Flying, Fetching, Handled, Fetched
  <2> QED
    BY <2>1 DEF Whole, OneFetchPerUrl, Fetching
<1>4. url[a] \notin InFlight'
  <2>1. \A b \in Actors : Flying(b)' => b # a /\ Flying(b)
    BY <1>1 DEF Flying, Handled
  <2> QED
    BY <1>1, <1>3, <2>1 DEF InFlight
<1>5. url[a] \in InFlight
  BY <1>1 DEF InFlight, Flying, Handled
<1>6. url[a] \in Visited'
  BY <1>1, <1>2 DEF Visited
<1>7. url[a] \in LeadingTo(resp[a].eff) /\ resp[a].eff \in Urls
  BY <1>1, <1>2 DEF LeadingTo, Response
<1> QED
  BY <1>1, <1>4, <1>5, <1>6, <1>7 DEF Settled, WriteUrl

LEMMA OnePerSettledNext ==
  ASSUME Whole, OnePerSettled, [Next]_vars
  PROVE  OnePerSettled'
<1> SUFFICES ASSUME NEW p \in Urls
             PROVE  Cardinality(Lines(p)') <= Cardinality(LeadingTo(p) \cap Settled')
  BY DEF OnePerSettled, LeadingTo
<1> USE DEF Whole
<1>1. Settled \subseteq Settled'
  BY SettledGrows DEF HandInv
<1>2. /\ IsFiniteSet(LeadingTo(p) \cap Settled) /\ IsFiniteSet(LeadingTo(p) \cap Settled')
      /\ Cardinality(LeadingTo(p) \cap Settled) \in Nat
      /\ Cardinality(LeadingTo(p) \cap Settled') \in Nat
  <2>1. visted_url \in Seq(Urls) /\ visted_url' \in Seq(Urls)
    BY IdleNext DEF IdleInv, TypeOK
  <2>2. IsFiniteSet(Visited) /\ IsFiniteSet(Visited')
    BY <2>1, RangeFinite DEF Visited
  <2>3. IsFiniteSet(LeadingTo(p) \cap Settled) /\ IsFiniteSet(LeadingTo(p) \cap Settled')
    BY <2>2, FS_Subset DEF Settled
  <2> QED
    BY <2>3, FS_CardinalityType
<1>3. Cardinality(LeadingTo(p) \cap Settled) <= Cardinality(LeadingTo(p) \cap Settled')
  BY <1>1, <1>2, FS_Subset
<1>4. png_urls \in Seq(Urls) /\ IsFiniteSet(Lines(p)) /\ Cardinality(Lines(p)) \in Nat
  <2>1. png_urls \in Seq(Urls) /\ DOMAIN png_urls = 1..Len(png_urls) /\ Len(png_urls) \in Nat
    BY DEF IdleInv, TypeOK
  <2>2. IsFiniteSet(1..Len(png_urls))
    BY <2>1, FS_Interval
  <2> QED
    BY <2>1, <2>2, FS_Subset, FS_CardinalityType DEF Lines
<1>5. Cardinality(Lines(p)) <= Cardinality(LeadingTo(p) \cap Settled)
  BY DEF OnePerSettled
<1>6. CASE png_urls' = png_urls
  <2>1. Lines(p)' = Lines(p)
    BY <1>6 DEF Lines
  <2> QED
    BY <1>2, <1>3, <1>4, <1>5, <2>1
<1>7. ASSUME NEW a \in Actors, WritePng(a), png_urls' # png_urls
      PROVE  Cardinality(Lines(p)') <= Cardinality(LeadingTo(p) \cap Settled')
  <2>1. /\ url[a] \in Settled' \ Settled
        /\ url[a] \in LeadingTo(resp[a].eff)
        /\ resp[a].eff \in Urls
        /\ png_urls' = Append(png_urls, resp[a].eff)
    BY <1>7, WritePngSettles DEF HandInv
  <2>2. Lines(p)' = IF resp[a].eff = p THEN Lines(p) \cup {Len(png_urls) + 1} ELSE Lines(p)
    BY <1>4, <2>1, AppendLines DEF Lines
  <2>3. CASE resp[a].eff # p
    BY <1>2, <1>3, <1>4, <1>5, <2>2, <2>3
  <2>4. CASE resp[a].eff = p
    <3>1. Len(png_urls) + 1 \notin Lines(p)
      BY <1>4 DEF Lines
    <3>2. Cardinality(Lines(p)') = Cardinality(Lines(p)) + 1
      BY <1>4, <2>2, <2>4, <3>1, FS_AddElement
    <3> DEFINE Old == LeadingTo(p) \cap Settled
    <3>3. /\ Old \cup {url[a]} \subseteq LeadingTo(p) \cap Settled'
          /\ url[a] \notin Old
      BY <1>1, <2>1, <2>4
    <3>4. IsFiniteSet(Old) /\ Cardinality(Lines(p)) <= Cardinality(Old)
      BY <1>2, <1>5
    <3> HIDE DEF Old
    <3>5. Cardinality(Old \cup {url[a]}) = Cardinality(Old) + 1
      BY <3>3, <3>4, FS_AddElement
    <3>6. Cardinality(Old \cup {url[a]}) <= Cardinality(LeadingTo(p) \cap Settled')
      BY <1>2, <3>3, FS_Subset
    <3>7. Cardinality(Old) \in Nat
      BY <3>4, FS_CardinalityType
    <3> QED
      BY <1>2, <1>4, <3>2, <3>4, <3>5, <3>6, <3>7
  <2> QED
    BY <2>3, <2>4
<1> QED
  BY <1>6, <1>7, OnlyWritePng

LEMMA OnePerSettledInit == Init => OnePerSettled
<1> SUFFICES ASSUME Init, NEW p \in Urls
             PROVE  Cardinality(Lines(p)) <= Cardinality(LeadingTo(p) \cap Settled)
  BY DEF OnePerSettled
<1>1. Lines(p) = {} /\ Settled = {}
  BY DEF Init, Lines, Settled, Visited, Range
<1> QED
  BY <1>1, FS_EmptySet

\* A url has a line in png_urls.txt for each visited url that leads to it, at most:
\* a reply is listed once, in whatever order the threads fetch, and write.
THEOREM ListedPerVisitHolds == Spec => []ListedPerVisit
<1>1. Whole /\ OnePerSettled /\ [Next]_vars => OnePerSettled'
  BY OnePerSettledNext
<1>2. IdleInv /\ OneFetchPerUrl /\ QuotaSlack /\ FileMatchesCount /\ HandInv => Whole
  BY DEF Whole
<1>3. IdleInv /\ OnePerSettled => ListedPerVisit
  <2> SUFFICES ASSUME IdleInv, OnePerSettled, NEW p \in Range(png_urls)
               PROVE  Cardinality(Lines(p))
                        <= Cardinality({u \in Visited : \E r \in Responses[u] :
                                           r.complete /\ IsPng(r) /\ r.eff = p})
    BY DEF ListedPerVisit, Lines
  <2> DEFINE V == {u \in Visited : \E r \in Responses[u] :
                                      r.complete /\ IsPng(r) /\ r.eff = p}
  <2>1. p \in Urls
    BY DEF IdleInv, TypeOK, Range
  <2>2. LeadingTo(p) \cap Settled \subseteq V /\ V \subseteq Visited
    BY DEF LeadingTo, Settled
  <2>3. IsFiniteSet(V)
    BY <2>2, VisitedFinite, FS_Subset
  <2> HIDE DEF V
  <2>4. /\ IsFiniteSet(LeadingTo(p) \cap Settled)
        /\ Cardinality(LeadingTo(p) \cap Settled) <= Cardinality(V)
    BY <2>2, <2>3, FS_Subset
  <2>5. Cardinality(LeadingTo(p) \cap Settled) \in Nat /\ Cardinality(V) \in Nat
    BY <2>3, <2>4, FS_CardinalityType
  <2>6. Cardinality(Lines(p)) <= Cardinality(LeadingTo(p) \cap Settled)
    BY <2>1 DEF OnePerSettled
  <2>7. Cardinality(Lines(p)) \in Nat
    <3>1. png_urls \in Seq(Urls) /\ DOMAIN png_urls = 1..Len(png_urls) /\ Len(png_urls) \in Nat
      BY DEF IdleInv, TypeOK
    <3>2. IsFiniteSet(1..Len(png_urls))
      BY <3>1, FS_Interval
    <3> QED
      BY <3>1, <3>2, FS_Subset, FS_CardinalityType DEF Lines
  <2>8. Cardinality(Lines(p)) <= Cardinality(V)
    BY <2>4, <2>5, <2>6, <2>7
  <2> QED
    BY <2>8 DEF V
<1> QED
  BY <1>1, <1>2, <1>3, OnePerSettledInit, IdleInvariant, OneFetchHolds, QuotaSlackHolds,
     FileMatchesCountHolds, HandInvariant, PTL DEF Spec
===============================================================================
