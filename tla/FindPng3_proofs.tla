--------------------------- MODULE FindPng3_proofs ---------------------------
(***************************************************************************)
(* Theorems about FindPng3 for every pool of handles, site and quota: the  *)
(* handles are accounted for, the quota is exact and no url is fetched by  *)
(* two transfers. As long as png_urls.txt can be opened, FindPng3          *)
(* implements Crawl with no slack.                                         *)
(***************************************************************************)
EXTENDS FindPng3, SeqLemmas, FiniteSetTheorems

\* The handle whose message is being processed is still curl_multi's.
Current == pc \in {"redirect", "body", "links", "release", "crashed"} => conn \in added \ done

PoolInv == TypeOK /\ PoolAccounting /\ Current /\ CleanEnd

-------------------------------------------------------------------------------
(* Types. *)

LEMMA NoResponseType == NoResponse \in Response
BY SiteAssumption DEF NoResponse, Response

\* num_conn handles without repetition are all of them.
LEMMA FullPool ==
  ASSUME NEW q \in [1..Cardinality(Conns) -> Conns], IsInjective(q)
  PROVE  /\ q \in Seq(Conns)
         /\ Range(q) = Conns
         /\ q[1] \in Conns
<1>1. Cardinality(Conns) \in Nat /\ Cardinality(Conns) # 0
  BY ConnAssumption, FS_CardinalityType, FS_EmptySet
<1>2. Cardinality(1..Cardinality(Conns)) = Cardinality(Conns)
  BY <1>1, FS_Interval
<1>3. q \in Injection(1..Cardinality(Conns), Conns)
  BY DEF Injection, IsInjective
<1>4. q \in Surjection(1..Cardinality(Conns), Conns)
  BY <1>2, <1>3, ConnAssumption, FS_Injection
<1> QED
  BY <1>1, <1>4 DEF Surjection, Range

LEMMA PoolInit == Init => PoolInv
<1> SUFFICES ASSUME Init PROVE PoolInv
  OBVIOUS
<1>1. /\ free \in Seq(Conns)
      /\ Range(free) = Conns
      /\ conn \in Conns
  BY FullPool DEF Init
<1>2. TypeOK
  BY <1>1, NoResponseType, SiteAssumption DEF Init, TypeOK, Labels
<1>3. PoolAccounting
  BY <1>1 DEF Init, PoolAccounting
<1>4. Current /\ CleanEnd
  BY DEF Init, Current, CleanEnd
<1> QED
  BY <1>2, <1>3, <1>4 DEF PoolInv

-------------------------------------------------------------------------------
(* Steps. *)

\* process_url keeps the array an array of urls.
LEMMA ProcessUrlType ==
  ASSUME visted_url \in Seq(Urls), NEW u \in Urls, ProcessUrl(u)
  PROVE  visted_url' \in Seq(Urls)
BY DEF ProcessUrl

\* process_png keeps the count a number and the file a list of urls, and the
\* file grows by a line with each PNG counted unless fopen fails.
LEMMA ListedPng ==
  ASSUME TypeOK, ProcessPng
  PROVE  /\ png_count' \in Nat /\ png_urls' \in Seq(Urls)
         /\ \/ UNCHANGED <<png_count, png_urls>>
            \/ /\ png_count < NumPngs
               /\ png_count' = png_count + 1
               /\ \/ Len(png_urls') = Len(png_urls) + 1
                  \/ /\ FALSE \in FopenResults
                     /\ png_urls' = png_urls
<1>1. /\ resp.eff \in Urls
      /\ png_count \in Nat
      /\ png_urls \in Seq(Urls)
  BY DEF TypeOK, Response
<1>2. /\ Append(png_urls, resp.eff) \in Seq(Urls)
      /\ Len(Append(png_urls, resp.eff)) = Len(png_urls) + 1
  BY <1>1
<1>3. CASE ~(resp.sig /\ png_count < NumPngs)
  BY <1>1, <1>3 DEF ProcessPng, files
<1>4. CASE resp.sig /\ png_count < NumPngs
  <2>1. PICK opened \in FopenResults :
          png_urls' = IF opened THEN Append(png_urls, resp.eff) ELSE png_urls
    BY <1>4 DEF ProcessPng, WriteUrl
  <2>2. png_count' = png_count + 1
    BY <1>4 DEF ProcessPng
  <2>3. opened \in BOOLEAN
    BY OptionAssumption
  <2>4. CASE opened
    BY <1>1, <1>2, <1>4, <2>1, <2>2, <2>4
  <2>5. CASE ~opened
    <3>1. FALSE \in FopenResults
      BY <2>3, <2>5
    <3>2. png_urls' = png_urls
      BY <2>1, <2>5, Zenon
    <3> QED
      <4>1. png_count < NumPngs
        BY <1>4
      <4>2. png_count' \in Nat /\ png_urls' \in Seq(Urls)
        BY <1>1, <2>2, <3>2
      <4> QED
        BY <2>2, <3>1, <3>2, <4>1, <4>2, Zenon
  <2> QED
    BY <2>4, <2>5
<1> QED
  BY <1>3, <1>4

LEMMA StartPool ==
  ASSUME PoolInv, Start
  PROVE  PoolInv'
<1> DEFINE u == Head(url_frontier)
           c == Head(free)
<1>1. /\ free \in Seq(Conns) /\ free # <<>>
      /\ url_frontier \in Seq(Urls) /\ url_frontier # <<>>
      /\ IsInjective(free)
      /\ Range(free) = Conns \ added
      /\ pc = "fill"
  BY DEF PoolInv, TypeOK, PoolAccounting, Start, CanFill
<1>2. /\ c \in Conns \ added
      /\ Tail(free) \in Seq(Conns)
      /\ IsInjective(Tail(free))
      /\ Range(Tail(free)) = (Conns \ added) \ {c}
  BY <1>1, HeadTail
<1>3. u \in Urls /\ Tail(url_frontier) \in Seq(Urls)
  BY <1>1, HeadTail
<1>4. /\ ProcessUrl(u)
      /\ url_frontier' = Tail(url_frontier)
      /\ free' = Tail(free)
      /\ in_use' = [in_use EXCEPT ![c] = TRUE]
      /\ buffer' = buffer \cup {c}
      /\ added' = added \cup {c}
      /\ url' = [url EXCEPT ![c] = u]
      /\ MultiPerform(added' \ done)
      /\ UNCHANGED <<pc, conn, resp, i, png_count, png_urls>>
  BY DEF Start, message, files
<1>5. visted_url' \in Seq(Urls)
  BY <1>3, <1>4, ProcessUrlType DEF PoolInv, TypeOK
<1>6. done' \in SUBSET added'
  BY <1>4 DEF MultiPerform, PoolInv, TypeOK
<1> HIDE DEF u, c
<1>7. TypeOK'
  BY <1>2, <1>3, <1>4, <1>5, <1>6 DEF PoolInv, TypeOK
<1>8. added' = {d \in Conns : in_use'[d]}
  BY <1>2, <1>4, <1>1 DEF PoolInv, TypeOK, PoolAccounting
<1>9. PoolAccounting'
  BY <1>1, <1>2, <1>4, <1>8 DEF PoolInv, PoolAccounting
<1>10. Current' /\ CleanEnd'
  BY <1>1, <1>4 DEF Current, CleanEnd
<1> QED
  BY <1>7, <1>9, <1>10 DEF PoolInv

LEMMA ReleasePool ==
  ASSUME PoolInv, Release
  PROVE  PoolInv'
<1>1. /\ free \in Seq(Conns)
      /\ IsInjective(free)
      /\ Range(free) = Conns \ added
      /\ buffer = added
      /\ added = {d \in Conns : in_use[d]}
      /\ conn \in added \ done
      /\ conn \in Conns
      /\ pc = "release"
  BY DEF PoolInv, TypeOK, PoolAccounting, Current, Release
<1>2. /\ Append(free, conn) \in Seq(Conns)
      /\ IsInjective(Append(free, conn))
      /\ Range(Append(free, conn)) = (Conns \ added) \cup {conn}
  BY <1>1, AppendRange, InjectiveAppend
<1>3. TypeOK'
  BY <1>1, <1>2, NoResponseType, SiteAssumption
  DEF PoolInv, TypeOK, Release, files, Labels
<1>4. added' = {d \in Conns : in_use'[d]}
  BY <1>1 DEF PoolInv, TypeOK, Release
<1>5. PoolAccounting'
  BY <1>1, <1>2, <1>4 DEF PoolAccounting, Release
<1>6. Current' /\ CleanEnd'
  BY DEF Current, CleanEnd, Release
<1> QED
  BY <1>3, <1>5, <1>6 DEF PoolInv

\* Steps that leave the pool as it is, or only complete transfers.
LEMMA QuietPool ==
  ASSUME PoolInv, TypeOK', UNCHANGED <<free, in_use, buffer, added>>,
         pc \notin {"end"}, pc' # "end", Current'
  PROVE  PoolInv'
BY DEF PoolInv, PoolAccounting, CleanEnd

LEMMA PoolNext == PoolInv /\ [Next]_vars => PoolInv'
<1> SUFFICES ASSUME PoolInv, [Next]_vars PROVE PoolInv'
  OBVIOUS
<1> USE DEF pool, message, files
<1>1. CASE CheckQuota
  <2>1. TypeOK' /\ Current'
    BY <1>1 DEF PoolInv, TypeOK, CheckQuota, Current, Labels
  <2> QED
    BY <1>1, <2>1, QuietPool DEF CheckQuota
<1>2. CASE Skip
  <2>1. Tail(url_frontier) \in Seq(Urls)
    BY <1>2, HeadTail DEF PoolInv, TypeOK, Skip, CanFill
  <2>2. TypeOK' /\ Current'
    BY <1>2, <2>1 DEF PoolInv, TypeOK, Skip, Current
  <2> QED
    BY <1>2, <2>2, QuietPool DEF Skip
<1>3. CASE Start
  BY <1>3, StartPool
<1>4. CASE EndFill
  <2>1. TypeOK' /\ Current'
    BY <1>4 DEF PoolInv, TypeOK, EndFill, Current, Labels
  <2> QED
    BY <1>4, <2>1, QuietPool DEF EndFill
<1>5. CASE Poll
  <2>1. done' \in SUBSET added
    BY <1>5 DEF PoolInv, TypeOK, Poll, MultiPerform
  <2>2. TypeOK' /\ Current'
    BY <1>5, <2>1 DEF PoolInv, TypeOK, Poll, Current, Labels
  <2> QED
    BY <1>5, <2>2, QuietPool DEF Poll
<1>6. ASSUME NEW c \in Conns, Receive(c)
      PROVE  PoolInv'
  <2>1. PICK r \in Responses[url[c]] :
          /\ resp' = r
          /\ pc' \in {"release", "redirect", "body"}
    BY <1>6 DEF Receive
  <2>2. r \in Response
    BY <2>1, SiteAssumption DEF PoolInv, TypeOK
  <2>3. /\ c \in done
        /\ done' = done \ {c}
        /\ conn' = c
        /\ pc = "read"
        /\ UNCHANGED <<url_frontier, visted_url, free, in_use, buffer, added,
                       url, i, png_count, png_urls>>
    BY <1>6 DEF Receive
  <2>4. TypeOK'
    BY <2>1, <2>2, <2>3 DEF PoolInv, TypeOK, Labels
  <2>5. Current'
    BY <2>3 DEF PoolInv, TypeOK, Current
  <2> QED
    BY <2>1, <2>3, <2>4, <2>5, QuietPool
<1>7. CASE EndRead
  <2>1. TypeOK' /\ Current'
    BY <1>7 DEF PoolInv, TypeOK, EndRead, Current, Labels
  <2> QED
    BY <1>7, <2>1, QuietPool DEF EndRead
<1>8. CASE Redirect
  <2>1. visted_url' \in Seq(Urls)
    BY <1>8, ProcessUrlType DEF PoolInv, TypeOK, Redirect, Response
  <2>2. TypeOK' /\ Current'
    BY <1>8, <2>1 DEF PoolInv, TypeOK, Redirect, Current, Labels
  <2> QED
    BY <1>8, <2>2, QuietPool DEF Redirect
<1>9. CASE ProcessHtml
  <2>1. TypeOK' /\ Current'
    BY <1>9 DEF PoolInv, TypeOK, ProcessHtml, Current, Labels
  <2> QED
    BY <1>9, <2>1, QuietPool DEF ProcessHtml
<1>10. CASE EnqueueLink
  <2>1. resp.links[i + 1] \in Urls \cup {NotHttp}
    BY <1>10 DEF PoolInv, TypeOK, EnqueueLink, Response
  <2>2. url_frontier' \in Seq(Urls)
    BY <1>10, <2>1 DEF PoolInv, TypeOK, EnqueueLink
  <2>3. TypeOK' /\ Current'
    BY <1>10, <2>2 DEF PoolInv, TypeOK, EnqueueLink, Current
  <2> QED
    BY <1>10, <2>3, QuietPool DEF EnqueueLink
<1>11. CASE EndLinks
  <2>1. TypeOK' /\ Current'
    BY <1>11 DEF PoolInv, TypeOK, EndLinks, Current, Labels
  <2> QED
    BY <1>11, <2>1, QuietPool DEF EndLinks
<1>12. CASE ProcessPng
  <2>1. png_count' \in Nat /\ png_urls' \in Seq(Urls)
    BY <1>12, ListedPng DEF PoolInv
  <2>2. TypeOK' /\ Current'
    BY <1>12, <2>1 DEF PoolInv, TypeOK, ProcessPng, Current, Labels
  <2> QED
    BY <1>12, <2>2, QuietPool DEF ProcessPng
<1>13. CASE Other \/ NoContentType
  <2>1. TypeOK' /\ Current'
    BY <1>13 DEF PoolInv, TypeOK, Other, NoContentType, Current, Labels
  <2> QED
    BY <1>13, <2>1, QuietPool DEF Other, NoContentType
<1>14. CASE Release
  BY <1>14, ReleasePool
<1>15. CASE Teardown
  <2>1. /\ {c \in Conns : in_use[c]} = added
        /\ buffer = added
        /\ done \in SUBSET added
    BY <1>15 DEF PoolInv, TypeOK, PoolAccounting, Teardown
  <2>2. added' = {} /\ done' = {} /\ buffer' = {}
    BY <1>15, <2>1 DEF Teardown
  <2>3. TypeOK'
    BY <1>15, <2>2 DEF PoolInv, TypeOK, Teardown, Labels
  <2>4. PoolAccounting' /\ Current' /\ CleanEnd'
    BY <1>15, <2>2 DEF Teardown, PoolAccounting, Current, CleanEnd
  <2> QED
    BY <2>3, <2>4 DEF PoolInv
<1>16. CASE UNCHANGED vars
  BY <1>16 DEF vars, PoolInv, TypeOK, PoolAccounting, Current, CleanEnd
<1> QED
  BY <1>1, <1>2, <1>3, <1>4, <1>5, <1>6, <1>7, <1>8, <1>9, <1>10, <1>11, <1>12,
     <1>13, <1>14, <1>15, <1>16 DEF Next

\* The invariant about the pool of handles holds of every behaviour.
THEOREM PoolInvariant == Spec => []PoolInv
BY PoolInit, PoolNext, PTL DEF Spec

\* Every variable of findpng3 keeps its type.
THEOREM TypeCorrect == Spec => []TypeOK
<1>1. PoolInv => TypeOK
  BY DEF PoolInv
<1> QED
  BY <1>1, PoolInvariant, PTL

\* While main is in its loop every handle is free, once, or in flight with its
\* buffer allocated and its flag set (findpng3.c:87-152).
THEOREM PoolAccountingHolds == Spec => []PoolAccounting
<1>1. PoolInv => PoolAccounting
  BY DEF PoolInv
<1> QED
  BY <1>1, PoolInvariant, PTL

\* The teardown at findpng3.c:157-168 leaves no transfer and no buffer behind.
THEOREM CleanEndHolds == Spec => []CleanEnd
<1>1. PoolInv => CleanEnd
  BY DEF PoolInv
<1> QED
  BY <1>1, PoolInvariant, PTL

-------------------------------------------------------------------------------
(* Listing. *)

LEMMA QuotaNext == TypeOK /\ QuotaExact /\ [Next]_vars => QuotaExact'
<1> SUFFICES ASSUME TypeOK, QuotaExact, [Next]_vars PROVE QuotaExact'
  OBVIOUS
<1>1. CASE ProcessPng
  <2>1. png_count \in Nat /\ NumPngs \in Nat /\ Len(png_urls) \in Nat
    BY OptionAssumption DEF TypeOK
  <2> DEFINE unreliable == FALSE \in FopenResults
  <2>2. /\ png_count <= NumPngs /\ Len(png_urls) <= png_count
        /\ ~unreliable => Len(png_urls) = png_count
    BY DEF QuotaExact
  <2>3. \/ UNCHANGED <<png_count, png_urls>>
        \/ /\ png_count < NumPngs
           /\ png_count' = png_count + 1
           /\ \/ Len(png_urls') = Len(png_urls) + 1
              \/ unreliable /\ png_urls' = png_urls
    BY <1>1, ListedPng
  <2>4. QuotaExact' <=> /\ png_count' <= NumPngs /\ Len(png_urls') <= png_count'
                        /\ ~unreliable => Len(png_urls') = png_count'
    BY DEF QuotaExact
  <2> HIDE DEF unreliable
  <2> QED
    BY <2>1, <2>2, <2>3, <2>4
<1>2. CASE ~ProcessPng
  <2>1. UNCHANGED files
    BY <1>2 DEF Next, vars, files, CheckQuota, Skip, Start, EndFill, Poll, Receive,
         EndRead, Redirect, ProcessHtml, EnqueueLink, EndLinks, Other,
         NoContentType, Release, Teardown
  <2> QED
    BY <2>1 DEF files, QuotaExact
<1> QED
  BY <1>1, <1>2

\* findpng3 never lists more PNGs than it was asked for, whatever the number of
\* replies in a round, and the file matches the count while fopen succeeds.
THEOREM QuotaExactHolds == Spec => []QuotaExact
<1>1. Init => QuotaExact
  BY OptionAssumption DEF Init, QuotaExact
<1> QED
  BY <1>1, QuotaNext, TypeCorrect, PTL DEF Spec

-------------------------------------------------------------------------------
(* Visiting. *)

\* process_url makes its argument visited, and no slot of the array repeats.
LEMMA ProcessUrlVisits ==
  ASSUME TypeOK, NEW u \in Urls, ProcessUrl(u)
  PROVE  /\ Visited' = Visited \cup {u}
         /\ VisitedOnce => VisitedOnce'
<1>0. visted_url \in Seq(Urls)
  BY DEF TypeOK
<1>1. CASE ~IsNew(u)
  BY <1>1 DEF ProcessUrl, IsNew, Visited, VisitedOnce
<1>2. CASE IsNew(u)
  <2>1. visted_url' = Append(visted_url, u)
    BY <1>2 DEF ProcessUrl
  <2> QED
    BY <1>0, <1>2, <2>1, AppendRange, InjectiveAppend
    DEF IsNew, Visited, VisitedOnce
<1> QED
  BY <1>1, <1>2

\* The array changes in process_url only.
LEMMA OnlyProcessUrl ==
  ASSUME TypeOK, [Next]_vars
  PROVE  \/ \E u \in Urls : ProcessUrl(u)
         \/ UNCHANGED visted_url
<1>1. CASE Start
  BY <1>1, HeadTail DEF TypeOK, Start, CanFill
<1>2. CASE Redirect
  BY <1>2 DEF TypeOK, Redirect, Response
<1>3. CASE ~Start /\ ~Redirect
  BY <1>3 DEF Next, vars, CheckQuota, Skip, EndFill, Poll, Receive,
       EndRead, ProcessHtml, EnqueueLink, EndLinks, ProcessPng, Other,
       NoContentType, Release, Teardown
<1> QED
  BY <1>1, <1>2, <1>3

LEMMA VisitedGrows ==
  ASSUME TypeOK, [Next]_vars
  PROVE  /\ Visited \subseteq Visited'
         /\ VisitedOnce => VisitedOnce'
<1>1. ASSUME NEW u \in Urls, ProcessUrl(u)
      PROVE  Visited \subseteq Visited' /\ (VisitedOnce => VisitedOnce')
  BY <1>1, ProcessUrlVisits
<1>2. CASE UNCHANGED visted_url
  BY <1>2 DEF Visited, VisitedOnce
<1> QED
  BY <1>1, <1>2, OnlyProcessUrl

\* No url is in the array of visited urls twice.
THEOREM VisitedOnceHolds == Spec => []VisitedOnce
<1>1. Init => VisitedOnce
  BY DEF Init, VisitedOnce, IsInjective
<1>2. TypeOK /\ VisitedOnce /\ [Next]_vars => VisitedOnce'
  BY VisitedGrows
<1> QED
  BY <1>1, <1>2, TypeCorrect, PTL DEF Spec

LEMMA OneTransferNext ==
  ASSUME PoolInv, OneTransferPerUrl, [Next]_vars
  PROVE  OneTransferPerUrl'
<1>0. TypeOK /\ Visited \subseteq Visited'
  BY VisitedGrows DEF PoolInv
<1>1. CASE Start
  <2> DEFINE u == Head(url_frontier)
             c == Head(free)
  <2>1. /\ u \in Urls
        /\ c \in Conns \ added
    BY <1>1, HeadTail DEF PoolInv, TypeOK, PoolAccounting, Start, CanFill
  <2>2. u \notin Visited /\ ProcessUrl(u)
    BY <1>1 DEF Start, IsNew
  <2>3. added' = added \cup {c} /\ url' = [url EXCEPT ![c] = u]
    BY <1>1 DEF Start
  <2>4. u \in Visited'
    BY <1>0, <2>1, <2>2, ProcessUrlVisits
  <2> HIDE DEF u, c
  <2> QED
    BY <1>0, <2>1, <2>2, <2>3, <2>4 DEF OneTransferPerUrl, TypeOK
<1>2. CASE Release
  BY <1>0, <1>2 DEF OneTransferPerUrl, TypeOK, Release
<1>3. CASE ~Start /\ ~Release
  <2>1. added' \subseteq added /\ UNCHANGED url
    BY <1>3 DEF Next, vars, pool, CheckQuota, Skip, EndFill, Poll, Receive,
         EndRead, Redirect, ProcessHtml, EnqueueLink, EndLinks, ProcessPng,
         Other, NoContentType, Teardown
  <2> QED
    BY <1>0, <2>1 DEF OneTransferPerUrl
<1> QED
  BY <1>1, <1>2, <1>3

\* No two transfers in flight fetch the same url.
THEOREM OneTransferHolds == Spec => []OneTransferPerUrl
<1>1. Init => OneTransferPerUrl
  BY DEF Init, OneTransferPerUrl
<1>2. PoolInv /\ OneTransferPerUrl /\ [Next]_vars => OneTransferPerUrl'
  BY OneTransferNext
<1> QED
  BY <1>1, <1>2, PoolInvariant, PTL DEF Spec

-------------------------------------------------------------------------------
(* The crawler implements Crawl: what is known when a reply is in hand. *)

\* The reply in hand is one of the url that conn fetches, and what process_data
\* found it to be.
ReplyInHand ==
    /\ pc # "links" => i = 0
    /\ pc \in {"redirect", "body", "links"} =>
          resp \in Responses[url[conn]] /\ resp.accepted
    /\ pc = "redirect" => IsRedirect(resp)
    /\ pc = "links" => IsHtml(resp)

\* The loop is left at the quota, or with nothing queued and nothing in flight.
LoopLeft ==
    pc = "teardown" =>
        \/ png_count >= NumPngs
        \/ url_frontier = <<>> /\ added = {}

CrawlInv == PoolInv /\ OneTransferPerUrl /\ QuotaExact /\ ReplyInHand /\ LoopLeft

-------------------------------------------------------------------------------
(* The invariant. *)

LEMMA CrawlInit == Init => CrawlInv
<1> SUFFICES ASSUME Init PROVE CrawlInv
  OBVIOUS
<1>1. OneTransferPerUrl /\ QuotaExact /\ ReplyInHand /\ LoopLeft
  BY OptionAssumption DEF Init, OneTransferPerUrl, QuotaExact, ReplyInHand, LoopLeft
<1> QED
  BY <1>1, PoolInit DEF CrawlInv

\* With every handle in the queue none is in flight.
LEMMA AllFree ==
  ASSUME PoolInv, pc # "end", Len(free) = Cardinality(Conns)
  PROVE  added = {}
<1>1. /\ free \in Seq(Conns)
      /\ IsInjective(free)
      /\ Range(free) = Conns \ added
      /\ added \subseteq Conns
  BY DEF PoolInv, TypeOK, PoolAccounting
<1>2. free \in [1..Cardinality(Conns) -> Conns]
  BY <1>1
<1>3. Range(free) = Conns
  BY <1>1, <1>2, FullPool
<1> QED
  BY <1>1, <1>3

LEMMA ReplyNext ==
  ASSUME TypeOK, ReplyInHand, [Next]_vars
  PROVE  ReplyInHand'
<1> USE DEF pool, message, files
<1>1. ASSUME NEW c \in Conns, Receive(c)
      PROVE  ReplyInHand'
  <2>1. PICK r \in Responses[url[c]] :
          /\ resp' = r
          /\ pc' = CASE ~r.accepted  -> "release"
                     [] IsRedirect(r) -> "redirect"
                     [] OTHER         -> "body"
    BY <1>1 DEF Receive
  <2>2. pc = "read" /\ conn' = c /\ url' = url /\ i' = i
    BY <1>1 DEF Receive
  <2>3. r.accepted = TRUE \/ r.accepted = FALSE
    BY <2>1, SiteAssumption DEF TypeOK, Response
  <2>4. CASE ~r.accepted
    <3>1. pc' = "release"
      <4>1. ~IsRedirect(r)
        BY <2>4 DEF IsRedirect
      <4> QED
        BY <2>1, <2>4, <4>1, Zenon
    <3>2. i' = 0
      BY <2>2 DEF ReplyInHand
    <3> QED
      BY <3>1, <3>2 DEF ReplyInHand
  <2>5. CASE r.accepted /\ IsRedirect(r)
    BY <2>1, <2>2, <2>5 DEF ReplyInHand, IsRedirect
  <2>6. CASE r.accepted /\ ~IsRedirect(r)
    BY <2>1, <2>2, <2>6 DEF ReplyInHand
  <2> QED
    BY <2>3, <2>4, <2>5, <2>6
<1>2. CASE ProcessHtml
  BY <1>2 DEF ProcessHtml, ReplyInHand, IsHtml
<1>3. CASE EnqueueLink \/ EndLinks
  BY <1>3 DEF EnqueueLink, EndLinks, ReplyInHand
<1>4. CASE Redirect
  BY <1>4 DEF Redirect, ReplyInHand
<1>5. CASE CheckQuota \/ Skip \/ Start \/ EndFill \/ Poll \/ EndRead
  BY <1>5 DEF CheckQuota, Skip, Start, EndFill, Poll, EndRead, ReplyInHand
<1>6. CASE ProcessPng \/ Other \/ NoContentType \/ Release \/ Teardown
  BY <1>6 DEF ProcessPng, Other, NoContentType, Release, Teardown, ReplyInHand
<1>7. CASE UNCHANGED vars
  BY <1>7 DEF vars, ReplyInHand
<1> QED
  BY <1>1, <1>2, <1>3, <1>4, <1>5, <1>6, <1>7 DEF Next

LEMMA LoopLeftNext ==
  ASSUME PoolInv, LoopLeft, [Next]_vars
  PROVE  LoopLeft'
<1> USE DEF pool, message, files
<1>1. CASE CheckQuota
  BY <1>1 DEF CheckQuota, LoopLeft
<1>2. CASE EndFill
  BY <1>2, AllFree DEF EndFill, LoopLeft
<1>3. CASE UNCHANGED vars
  BY <1>3 DEF vars, LoopLeft
<1>4. CASE Next /\ ~CheckQuota /\ ~EndFill
  <2>1. pc' # "teardown"
    BY <1>4 DEF Next, Skip, Start, Poll, Receive, EndRead, Redirect, ProcessHtml,
         EnqueueLink, EndLinks, ProcessPng, Other, NoContentType, Release, Teardown
  <2> QED
    BY <2>1 DEF LoopLeft
<1> QED
  BY <1>1, <1>2, <1>3, <1>4

LEMMA CrawlInvNext == CrawlInv /\ [Next]_vars => CrawlInv'
<1> SUFFICES ASSUME CrawlInv, [Next]_vars PROVE CrawlInv'
  OBVIOUS
<1>1. PoolInv /\ TypeOK /\ OneTransferPerUrl /\ QuotaExact /\ ReplyInHand /\ LoopLeft
  BY DEF CrawlInv, PoolInv
<1>2. PoolInv'
  BY <1>1, PoolNext
<1>3. OneTransferPerUrl'
  BY <1>1, OneTransferNext
<1>4. QuotaExact'
  BY <1>1, QuotaNext
<1>5. ReplyInHand' /\ LoopLeft'
  BY <1>1, ReplyNext, LoopLeftNext
<1> QED
  BY <1>2, <1>3, <1>4, <1>5 DEF CrawlInv
-------------------------------------------------------------------------------
(* The mapping. *)

\* The hrefs from one position on are the next href and those from the position after,
\* and there are none from the end on.
LEMMA NextLink ==
  ASSUME NEW r \in Response, NEW n \in Nat
  PROVE  LinksFrom(r, n) = IF n < Len(r.links)
                           THEN LinksFrom(r, n + 1) \cup ({r.links[n + 1]} \ {NotHttp})
                           ELSE {}
<1>1. r.links \in Seq(Urls \cup {NotHttp})
  BY DEF Response
<1>2. {r.links[k] : k \in (n + 1)..Len(r.links)}
        = IF n < Len(r.links)
          THEN {r.links[n + 1]} \cup {r.links[k] : k \in ((n + 1) + 1)..Len(r.links)}
          ELSE {}
  BY <1>1, ElementsFrom
<1> QED
  BY <1>2 DEF LinksFrom

\* The url of the handle whose reply is in hand is visited, and waits no more.
LEMMA HandledUrl ==
  ASSUME PoolInv, OneTransferPerUrl, Handling
  PROVE  url[conn] \in Urls /\ url[conn] \in Visited \ Open
<1>1. conn \in added /\ conn \in Conns /\ url \in [Conns -> Urls]
  BY DEF PoolInv, TypeOK, Current, Handling
<1>2. \A c \in added : url[c] = url[conn] => c = conn
  BY <1>1 DEF OneTransferPerUrl
<1>3. url[conn] \notin Open
  BY <1>2 DEF Open, Handling
<1> QED
  BY <1>1, <1>3 DEF OneTransferPerUrl

\* What a stutter of Crawl leaves alone.
Same == /\ Known' = Known /\ Visited' = Visited /\ Open' = Open
        /\ png_urls' = png_urls /\ pc # "end" /\ pc' # "end"

LEMMA StutterStep == Same => UNCHANGED Promise!vars
BY DEF Same, Promise!vars

-------------------------------------------------------------------------------
(* The steps. *)

LEMMA StartVisits ==
  ASSUME CrawlInv, Start
  PROVE  Promise!Next
<1> DEFINE u == Head(url_frontier)
           c == Head(free)
<1>1. /\ PoolInv /\ TypeOK
      /\ url_frontier \in Seq(Urls) /\ url_frontier # <<>>
      /\ free \in Seq(Conns) /\ free # <<>>
      /\ Range(free) = Conns \ added
      /\ pc = "fill" /\ pc' = "fill"
  BY DEF CrawlInv, PoolInv, TypeOK, PoolAccounting, Start, CanFill
<1>2. /\ u \in Urls /\ c \in Conns \ added
      /\ Range(url_frontier) = Range(Tail(url_frontier)) \cup {u}
  BY <1>1, HeadTail, TailRange
<1>3. u \notin Visited /\ ProcessUrl(u)
  BY DEF Start, IsNew
<1>4. Visited' = Visited \cup {u}
  BY <1>1, <1>2, <1>3, ProcessUrlVisits
<1>5. /\ url_frontier' = Tail(url_frontier)
      /\ added' = added \cup {c}
      /\ url' = [url EXCEPT ![c] = u]
      /\ png_urls' = png_urls
  BY DEF Start, files
<1>6. url \in [Conns -> Urls] /\ added \subseteq Conns
  BY <1>1 DEF TypeOK
<1> HIDE DEF u, c
<1>7. Known' = Known
  BY <1>1, <1>2, <1>4, <1>5 DEF Known, Unqueued
<1>8. Open = {url[d] : d \in added} /\ Open' = {url'[d] : d \in added'}
  BY <1>1 DEF Open, Handling
<1>9. Open' = Open \cup {u}
  BY <1>2, <1>5, <1>6, <1>8
<1>10. u \in Known
  BY <1>2 DEF Known
<1>11. Promise!Visit(u)
  BY <1>1, <1>3, <1>4, <1>5, <1>7, <1>9, <1>10 DEF Promise!Visit
<1> QED
  BY <1>1, <1>2, <1>11 DEF Promise!Next

LEMMA ReceiveFetches ==
  ASSUME CrawlInv, NEW c \in Conns, Receive(c)
  PROVE  Promise!Next
<1>1. /\ PoolInv /\ TypeOK /\ OneTransferPerUrl
      /\ pc = "read" /\ i = 0
      /\ c \in done /\ c \in added
      /\ conn' = c
      /\ UNCHANGED <<url_frontier, visted_url, added, url, i, png_count, png_urls>>
  BY DEF CrawlInv, PoolInv, TypeOK, ReplyInHand, Receive, files
<1>2. PICK r \in Responses[url[c]] :
        /\ resp' = r
        /\ pc' = CASE ~r.accepted  -> "release"
                   [] IsRedirect(r) -> "redirect"
                   [] OTHER         -> "body"
  BY DEF Receive
<1>3. pc' \in {"release", "redirect", "body"}
  BY <1>2
<1>4. Visited' = Visited
  BY <1>1 DEF Visited
<1>5. Open = {url[d] : d \in added} /\ Open' = {url[d] : d \in added \ {c}}
  BY <1>1, <1>3 DEF Open, Handling
<1>6. url[c] \in Urls /\ url[c] \in Open /\ Open' = Open \ {url[c]}
  BY <1>1, <1>5 DEF TypeOK, OneTransferPerUrl
<1>7. Unqueued = {}
  BY <1>1 DEF Unqueued
<1>8. Unqueued' = IF IsHtml(r) THEN LinksFrom(r, 0) ELSE {}
  <2>1. CASE ~r.accepted
    <3>1. ~IsHtml(r) /\ ~IsRedirect(r)
      BY <2>1 DEF IsHtml, IsRedirect
    <3>2. pc' = "release"
      BY <1>2, <2>1, <3>1, Zenon
    <3> QED
      BY <3>1, <3>2 DEF Unqueued
  <2>2. CASE r.accepted
    <3>1. pc' \in {"redirect", "body"}
      BY <1>2, <2>2
    <3> QED
      BY <1>1, <1>2, <3>1 DEF Unqueued
  <2> QED
    BY <2>1, <2>2
<1>9. Known' = Known \cup (IF IsHtml(r) THEN LinksFrom(r, 0) ELSE {})
  BY <1>1, <1>4, <1>7, <1>8 DEF Known
<1>10. Promise!Fetch(url[c])
  BY <1>1, <1>2, <1>3, <1>4, <1>6, <1>9
  DEF Promise!Fetch, Promise!IsHtml, Promise!LinksFrom, IsHtml, LinksFrom
<1> QED
  BY <1>1, <1>6, <1>10 DEF Promise!Next

LEMMA RedirectFollows ==
  ASSUME CrawlInv, Redirect
  PROVE  Promise!Next
<1>1. /\ PoolInv /\ TypeOK /\ OneTransferPerUrl
      /\ pc = "redirect" /\ pc' = "body"
      /\ resp \in Responses[url[conn]] /\ IsRedirect(resp)
      /\ resp.eff \in Urls /\ ProcessUrl(resp.eff)
      /\ UNCHANGED <<url_frontier, added, url, conn, resp, i, png_urls>>
  BY DEF CrawlInv, PoolInv, TypeOK, ReplyInHand, Redirect, Response, pool, message, files
<1>2. Visited' = Visited \cup {resp.eff}
  BY <1>1, ProcessUrlVisits
<1>3. Unqueued' = Unqueued
  BY <1>1 DEF Unqueued
<1>4. Known' = Known \cup {resp.eff}
  BY <1>1, <1>2, <1>3 DEF Known
<1>5. Open' = Open
  BY <1>1 DEF Open, Handling
<1>6. url[conn] \in Urls /\ url[conn] \in Visited \ Open
  BY <1>1, HandledUrl DEF Handling
<1>7. Promise!Follow(url[conn])
  BY <1>1, <1>2, <1>4, <1>5, <1>6 DEF Promise!Follow, Promise!IsRedirect, IsRedirect
<1> QED
  BY <1>1, <1>6, <1>7 DEF Promise!Next

LEMMA EnqueueLinkStutters ==
  ASSUME CrawlInv, EnqueueLink
  PROVE  Same
<1> DEFINE href == resp.links[i + 1]
<1>1. /\ TypeOK /\ pc = "links" /\ pc' = "links" /\ IsHtml(resp)
      /\ i \in Nat /\ resp \in Response /\ i < Len(resp.links) /\ i' = i + 1
      /\ url_frontier' = IF href = NotHttp THEN url_frontier ELSE Append(url_frontier, href)
      /\ UNCHANGED <<visted_url, added, url, conn, resp, png_urls>>
  BY DEF CrawlInv, PoolInv, TypeOK, ReplyInHand, EnqueueLink, pool, files
<1>2. href \in Urls \cup {NotHttp}
  BY <1>1 DEF Response
<1>3. Range(url_frontier') = Range(url_frontier) \cup ({href} \ {NotHttp})
  <2>1. url_frontier \in Seq(Urls)
    BY <1>1 DEF TypeOK
  <2> QED
    BY <1>1, <1>2, <2>1, AppendRange
<1>4. LinksFrom(resp, i) = LinksFrom(resp, i') \cup ({href} \ {NotHttp})
  BY <1>1, NextLink
<1> HIDE DEF href
<1>5. Unqueued = LinksFrom(resp, i) /\ Unqueued' = LinksFrom(resp, i')
  BY <1>1 DEF Unqueued
<1>6. Visited' = Visited /\ Open' = Open
  BY <1>1 DEF Visited, Open, Handling
<1>7. Known' = Known
  BY <1>3, <1>4, <1>5, <1>6 DEF Known
<1> QED
  BY <1>1, <1>6, <1>7 DEF Same

LEMMA ProcessPngLists ==
  ASSUME CrawlInv, ProcessPng
  PROVE  Promise!Next \/ Same
<1>1. /\ PoolInv /\ TypeOK /\ OneTransferPerUrl /\ QuotaExact
      /\ pc = "body" /\ pc' = "release"
      /\ resp \in Responses[url[conn]] /\ resp.accepted /\ resp.ctype = "png"
      /\ UNCHANGED <<url_frontier, visted_url, added, url, conn, resp, i>>
  BY DEF CrawlInv, PoolInv, ReplyInHand, ProcessPng, pool, message
<1>2. Visited' = Visited /\ Open' = Open
  BY <1>1 DEF Visited, Open, Handling
<1>3. Known' = Known
  BY <1>1, <1>2 DEF Known, Unqueued, IsHtml
<1>4. CASE png_urls' = png_urls
  BY <1>1, <1>2, <1>3, <1>4 DEF Same
<1>5. CASE png_urls' # png_urls
  <2>1. /\ resp.sig /\ png_count < NumPngs
        /\ png_urls' = Append(png_urls, resp.eff)
    BY <1>5 DEF ProcessPng, WriteUrl, files
  <2>2. png_count \in Nat /\ NumPngs \in Nat /\ Len(png_urls) \in Nat
    BY <1>1, OptionAssumption DEF TypeOK
  <2>3. Len(png_urls) < NumPngs + 0
    BY <1>1, <2>1, <2>2 DEF QuotaExact
  <2>4. url[conn] \in Urls /\ url[conn] \in Visited \ Open
    BY <1>1, HandledUrl DEF Handling
  <2>5. Promise!List(url[conn])
    BY <1>1, <1>2, <1>3, <2>1, <2>3, <2>4 DEF Promise!List, Promise!IsPng
  <2> QED
    BY <1>1, <2>4, <2>5 DEF Promise!Next
<1> QED
  BY <1>4, <1>5

LEMMA TeardownFinishes ==
  ASSUME CrawlInv, Teardown, FALSE \notin FopenResults
  PROVE  Promise!Next
<1>1. /\ PoolInv /\ TypeOK /\ QuotaExact /\ LoopLeft
      /\ pc = "teardown" /\ pc' = "end"
      /\ UNCHANGED <<url_frontier, visted_url, png_urls>>
  BY DEF CrawlInv, PoolInv, Teardown, message, files
<1>2. added' = {}
  BY <1>1 DEF Teardown, PoolInv, PoolAccounting
<1>3. Visited' = Visited /\ Open' = {}
  BY <1>1, <1>2 DEF Visited, Open
<1>4. Known = Visited \cup Range(url_frontier) /\ Known' = Known
  BY <1>1, <1>3 DEF Known, Unqueued
<1>5. (Known \subseteq Visited /\ Open = {}) \/ Len(png_urls) >= NumPngs
  <2>1. CASE png_count >= NumPngs
    <3>1. Len(png_urls) = png_count
      BY <1>1 DEF QuotaExact
    <3> QED
      BY <2>1, <3>1
  <2>2. CASE url_frontier = <<>> /\ added = {}
    BY <1>4, <2>2 DEF Open, Range
  <2> QED
    BY <1>1, <2>1, <2>2 DEF LoopLeft
<1>6. Promise!Finish
  BY <1>1, <1>3, <1>4, <1>5 DEF Promise!Finish
<1> QED
  BY <1>1, <1>6 DEF Promise!Next
\* Steps that nobody outside sees: at the pool, at the queue, in the loops.
LEMMA QuietStutters ==
  ASSUME CrawlInv, CheckQuota \/ Skip \/ EndFill \/ Poll \/ EndRead
  PROVE  Same
<1>1. /\ pc \in {"head", "fill", "poll", "read"}
      /\ pc' \in {"teardown", "head", "fill", "poll", "read", "failed"}
      /\ UNCHANGED <<visted_url, added, url, png_urls>>
  BY DEF CheckQuota, Skip, EndFill, Poll, EndRead, pool, message, files
<1>2. Visited' = Visited /\ Open' = Open
  BY <1>1 DEF Visited, Open, Handling
<1>3. Unqueued = {} /\ Unqueued' = {}
  BY <1>1 DEF Unqueued
<1>4. CASE Skip
  <2>1. /\ url_frontier \in Seq(Urls) /\ url_frontier # <<>>
        /\ url_frontier' = Tail(url_frontier) /\ Head(url_frontier) \in Visited
    BY <1>4 DEF CrawlInv, PoolInv, TypeOK, Skip, CanFill, IsNew
  <2>2. Known' = Known
    BY <1>2, <1>3, <2>1, TailRange DEF Known
  <2> QED
    BY <1>1, <1>2, <2>2 DEF Same
<1>5. CASE ~Skip
  <2>1. url_frontier' = url_frontier
    BY <1>5 DEF CheckQuota, EndFill, Poll, EndRead
  <2> QED
    BY <1>1, <1>2, <1>3, <2>1 DEF Same, Known
<1> QED
  BY <1>4, <1>5

\* Steps after a reply has arrived that Crawl does not know of.
LEMMA HandlingStutters ==
  ASSUME CrawlInv, ProcessHtml \/ EndLinks \/ Other \/ NoContentType
  PROVE  Same
<1>1. /\ pc \in {"body", "links"} /\ pc' \in {"links", "release", "crashed"}
      /\ UNCHANGED <<visted_url, url_frontier, added, url, conn, resp, png_urls>>
  BY DEF ProcessHtml, EndLinks, Other, NoContentType, pool, message, files
<1>2. Visited' = Visited /\ Open' = Open
  BY <1>1 DEF Visited, Open, Handling
<1>3. Unqueued' = Unqueued
  <2>1. CASE ProcessHtml
    BY <2>1 DEF ProcessHtml, Unqueued, CrawlInv, ReplyInHand
  <2>2. CASE EndLinks
    <3>1. resp \in Response /\ i \in Nat /\ i >= Len(resp.links)
      BY <2>2 DEF CrawlInv, PoolInv, TypeOK, EndLinks
    <3> QED
      BY <2>2, <3>1, NextLink DEF EndLinks, Unqueued
  <2>3. CASE Other \/ NoContentType
    BY <2>3 DEF Other, NoContentType, Unqueued, IsHtml
  <2> QED
    BY <2>1, <2>2, <2>3
<1> QED
  BY <1>1, <1>2, <1>3 DEF Same, Known

LEMMA ReleaseStutters ==
  ASSUME CrawlInv, Release
  PROVE  Same
<1>1. /\ TypeOK /\ pc = "release" /\ pc' = "read"
      /\ added' = added \ {conn}
      /\ url' = [url EXCEPT ![conn] = Seed]
      /\ UNCHANGED <<visted_url, url_frontier, conn, i, png_urls>>
  BY DEF CrawlInv, PoolInv, Release, files
<1>2. Open = {url[d] : d \in added \ {conn}} /\ Open' = {url'[d] : d \in added'}
  BY <1>1 DEF Open, Handling
<1>3. \A d \in added \ {conn} : url'[d] = url[d]
  BY <1>1 DEF TypeOK
<1>4. Open' = Open
  BY <1>1, <1>2, <1>3
<1>5. Known' = Known /\ Visited' = Visited
  BY <1>1 DEF Known, Unqueued, Visited
<1> QED
  BY <1>1, <1>4, <1>5 DEF Same

LEMMA EveryStep ==
  ASSUME CrawlInv, [Next]_vars, FALSE \notin FopenResults
  PROVE  [Promise!Next]_(Promise!vars)
<1>1. CASE CheckQuota \/ Skip \/ EndFill \/ Poll \/ EndRead
  BY <1>1, QuietStutters, StutterStep
<1>2. CASE ProcessHtml \/ EndLinks \/ Other \/ NoContentType
  BY <1>2, HandlingStutters, StutterStep
<1>3. CASE EnqueueLink \/ Release
  BY <1>3, EnqueueLinkStutters, ReleaseStutters, StutterStep
<1>4. CASE Start \/ Redirect \/ Teardown
  BY <1>4, StartVisits, RedirectFollows, TeardownFinishes
<1>5. CASE \E c \in Conns : Receive(c)
  BY <1>5, ReceiveFetches
<1>6. CASE ProcessPng
  BY <1>6, ProcessPngLists, StutterStep
<1>7. CASE UNCHANGED vars
  BY <1>7 DEF vars, Promise!vars, Known, Unqueued, Visited, Open, Handling
<1> QED
  BY <1>1, <1>2, <1>3, <1>4, <1>5, <1>6, <1>7 DEF Next

LEMMA FirstState == Init => Promise!Init
<1> SUFFICES ASSUME Init PROVE Promise!Init
  OBVIOUS
<1>1. Visited = {} /\ Range(url_frontier) = {Seed}
  BY DEF Init, Visited, Range
<1>2. Known = {Seed} /\ Open = {}
  BY <1>1 DEF Init, Known, Unqueued, Open
<1> QED
  BY <1>1, <1>2 DEF Init, Promise!Init

\* findpng3 visits only urls it knows, each once, lists only what it fetched, the quota
\* at most, and ends with nothing left to visit or at the quota: it implements Crawl
\* with no slack, if every fopen of png_urls.txt succeeds.
THEOREM ImplementsCrawl == FALSE \notin FopenResults => (Spec => Refinement)
<1> SUFFICES ASSUME FALSE \notin FopenResults PROVE Spec => Refinement
  OBVIOUS
<1>1. CrawlInv /\ [Next]_vars => [Promise!Next]_(Promise!vars)
  BY EveryStep
<1> QED
  BY <1>1, CrawlInit, CrawlInvNext, FirstState, PTL DEF Spec, Refinement, Promise!Spec
===============================================================================
