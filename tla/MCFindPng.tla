----------------------------- MODULE MCFindPng ------------------------------
(* Directories of up to seven entries, flat, nested and with an empty one. *)
EXTENDS FindPng

\* entries for the directories, no entries for the files.
Tree(kind, entries) ==
    [root |-> 1, kind |-> kind,
     entries |-> [n \in DOMAIN kind |-> IF n \in DOMAIN entries THEN entries[n] ELSE {}]]

Mixed == Tree(<<"dir", "dir", "png", "other", "png", "short", "dir">>,
              <<{2, 5, 6, 7}, {3, 4}>>)

Nested == Tree(<<"dir", "dir", "dir", "png", "png">>, <<{2, 5}, {3}, {4}>>)

Guarded == Tree(<<"dir", "png", "denied", "dir", "png">>, <<{2, 3, 4}, {}, {}, {5}>>)

NoDirectory == Tree(<<"png">>, <<>>)

AllTrees == {Mixed, Nested, Guarded, NoDirectory}
=============================================================================
