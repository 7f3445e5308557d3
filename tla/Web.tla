--------------------------------- MODULE Web ---------------------------------
(***************************************************************************)
(* The site being crawled, as findpng2.c and findpng3.c see it through     *)
(* libcurl and libxml2: what one transfer of a url may come back with.     *)
(* Both crawlers look at nothing else of a reply: the transfer result, the *)
(* response code, the redirect count and effective url, the content type,  *)
(* the PNG signature of the body and the hrefs of an HTML body.            *)
(***************************************************************************)
EXTENDS Sequences, Functions

CONSTANTS
    Urls,       \* the absolute http urls of the site
    NotHttp,    \* an href whose resolved form does not start with "http"
    Seed,       \* the url on the command line
    Responses   \* what a transfer of a url may return

(***************************************************************************)
(* complete: the transfer ended with CURLE_OK; accepted: the response code *)
(* is neither 0 nor from 400 up (a transfer that broke off may still have  *)
(* one). eff is the effective url, redirected: the redirect count is not 0,*)
(* ctype "none" is a reply without a Content-Type header, and sig the      *)
(* verdict of is_png on the body. links are the hrefs of the <a> elements  *)
(* in document order, resolved against the effective url. A body that is   *)
(* shorter than the 8 signature bytes is compared with whatever malloc     *)
(* left in the buffer, so such a reply is in Responses with both verdicts. *)
(***************************************************************************)
Response == [complete   : BOOLEAN,
             accepted   : BOOLEAN,
             eff        : Urls,
             redirected : BOOLEAN,
             ctype      : {"html", "png", "other", "none"},
             links      : Seq(Urls \cup {NotHttp}),
             sig        : BOOLEAN]

ASSUME SiteAssumption ==
    /\ NotHttp \notin Urls
    /\ Seed \in Urls
    /\ Responses \in [Urls -> SUBSET Response]

\* The reply of an actor that is not fetching anything.
NoResponse == [complete |-> FALSE, accepted |-> FALSE, eff |-> Seed,
               redirected |-> FALSE, ctype |-> "none", links |-> <<>>,
               sig |-> FALSE]

\* The outcomes that process_data tells apart.
IsRedirect(r) == r.accepted /\ r.redirected
IsHtml(r)     == r.accepted /\ r.ctype = "html"
IsPng(r)      == r.accepted /\ r.ctype = "png" /\ r.sig

\* The hrefs from position n on (counted from 0) that pass the "http" test.
LinksFrom(r, n) == {r.links[k] : k \in (n + 1)..Len(r.links)} \ {NotHttp}
===============================================================================
