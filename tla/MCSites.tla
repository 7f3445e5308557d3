------------------------------- MODULE MCSites -------------------------------
(***************************************************************************)
(* Small sites to crawl. Every kind of reply that the crawlers tell apart  *)
(* occurs, with links back, repeated links and redirections to urls that   *)
(* have been visited before.                                               *)
(***************************************************************************)
EXTENDS Web

\* Replies.
Reply(eff, ctype) ==
    [complete |-> TRUE, accepted |-> TRUE, eff |-> eff, redirected |-> FALSE,
     ctype |-> ctype, links |-> <<>>, sig |-> FALSE]
Page(eff, links) == [Reply(eff, "html") EXCEPT !.links = links]
Png(eff)         == [Reply(eff, "png") EXCEPT !.sig = TRUE]
Fake(eff)        == Reply(eff, "png")
Moved(r)         == [r EXCEPT !.redirected = TRUE]
Refused(r)       == [r EXCEPT !.accepted = FALSE]
Broken(r)        == [r EXCEPT !.complete = FALSE]

\* The seed links to a directory, twice, and to a PNG; the directory links back
\* to the seed, to the PNG and to urls that are redirected.
MixedUrls == {"seed", "dir", "png", "alias", "gone"}
MixedSite ==
    [u \in MixedUrls |->
       CASE u = "seed"  -> {Page("seed", <<"dir", "png", "dir">>)}
         [] u = "dir"   -> {Page("dir", <<"seed", NotHttp, "alias", "gone">>),
                            Broken(Page("dir", <<"gone">>))}
         [] u = "png"   -> {Png("png"), Fake("png"), Reply("png", "none")}
         [] u = "alias" -> {Moved(Png("png")), Moved(Page("dir", <<"gone">>))}
         [] u = "gone"  -> {Refused(Page("gone", <<"seed">>)),
                            Reply("gone", "other")}]

\* The mixed site with a second directory that leads to the same places.
WideUrls == MixedUrls \cup {"sub", "pic"}
WideSite ==
    [u \in WideUrls |->
       CASE u = "seed" -> {Page("seed", <<"dir", "sub", "png", "dir">>)}
         [] u = "sub"  -> {Page("sub", <<"alias", "dir", "pic">>),
                           Moved(Page("dir", <<"pic">>))}
         [] u = "pic"  -> {Png("pic"), Broken(Png("pic"))}
         [] OTHER      -> MixedSite[u]]

\* Three PNGs next to each other, one of them linked twice and also under another
\* name; two of them may answer otherwise.
GalleryUrls == {"seed", "a", "b", "c", "d"}
GallerySite ==
    [u \in GalleryUrls |->
       CASE u = "seed" -> {Page("seed", <<"a", "b", "a", "d", "c">>)}
         [] u = "a"    -> {Png("a")}
         [] u = "b"    -> {Png("b"), Broken(Png("b")), Moved(Page("seed", <<"c">>))}
         [] u = "c"    -> {Moved(Png("a"))}
         [] u = "d"    -> {Png("d"), Page("d", <<"c">>)}]
===============================================================================
