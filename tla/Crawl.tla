-------------------------------- MODULE Crawl --------------------------------
(***************************************************************************)
(* What a crawler promises, whatever its threads, connections and queues:  *)
(* it visits only urls it has learnt of, each once; it learns of urls only *)
(* from the pages of visited urls, and of every link of such a page; it    *)
(* lists only PNGs that a visited url leads to, at most Quota + Slack of   *)
(* them; and it finishes only when it has listed Quota PNGs, or when it    *)
(* has visited every url it knows and waits for no reply.                  *)
(***************************************************************************)
EXTENDS Web, Naturals

CONSTANTS
    Quota,  \* the number of PNGs asked for (option -m)
    Slack   \* how far past Quota the listing may run

VARIABLES
    known,    \* the urls the crawler has learnt of
    visited,  \* the urls it has visited or is visiting
    open,     \* those whose reply it still waits for
    listed,   \* the lines of png_urls.txt
    finished  \* it has returned

vars == <<known, visited, open, listed, finished>>

Init == /\ known = {Seed}
        /\ visited = {}
        /\ open = {}
        /\ listed = <<>>
        /\ finished = FALSE

\* The visit of a known url begins.
Visit(u) == /\ u \in known \ visited
            /\ visited' = visited \cup {u}
            /\ open' = open \cup {u}
            /\ UNCHANGED <<known, listed, finished>>

\* The reply to a visit arrives: if it is a page, all its links become known.
Fetch(u) == /\ u \in open
            /\ open' = open \ {u}
            /\ \E r \in Responses[u] :
                  known' = known \cup (IF IsHtml(r) THEN LinksFrom(r, 0) ELSE {})
            /\ UNCHANGED <<visited, listed, finished>>

\* The reply came from another url, which counts as visited from then on.
Follow(u) == /\ u \in visited \ open
             /\ \E r \in Responses[u] :
                   /\ IsRedirect(r)
                   /\ known' = known \cup {r.eff}
                   /\ visited' = visited \cup {r.eff}
             /\ UNCHANGED <<open, listed, finished>>

\* The PNG that a visited url leads to is listed.
List(u) == /\ u \in visited \ open
           /\ Len(listed) < Quota + Slack
           /\ \E r \in Responses[u] :
                 /\ IsPng(r)
                 /\ listed' = Append(listed, r.eff)
           /\ UNCHANGED <<known, visited, open, finished>>

\* Replies that are still to come are given up only at the quota.
Finish == /\ \/ known \subseteq visited /\ open = {}
             \/ Len(listed) >= Quota
          /\ finished' = TRUE
          /\ open' = {}
          /\ UNCHANGED <<known, visited, listed>>

Next == /\ ~finished
        /\ \/ \E u \in Urls : Visit(u) \/ Fetch(u) \/ Follow(u) \/ List(u)
           \/ Finish

Spec == Init /\ [][Next]_vars
===============================================================================
