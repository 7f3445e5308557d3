------------------------------ MODULE FindPng -------------------------------
(***************************************************************************)
(* findpng (p1/src/findpng.c): a directory is searched recursively, every  *)
(* entry is opened to look at its first bytes, and the paths of the PNG    *)
(* files are printed.                                                      *)
(*                                                                         *)
(* A tree is a record: root, kind and entries, functions on its nodes.     *)
(* kind is "dir", "png", "other" (a file of four bytes or more that is not *)
(* a PNG), "short" (less) or "denied" (it cannot be opened). readdir may   *)
(* return the entries of a directory in any order.                         *)
(***************************************************************************)
EXTENDS Integers, Sequences, FiniteSets

CONSTANTS
    Trees,   \* the trees below the argument
    Limits   \* how many files the process may have open

\* Every node but the root is an entry of one directory, and found from the root.
IsTree(t) ==
    LET nodes == DOMAIN t.kind
    IN  /\ IsFiniteSet(nodes) /\ t.root \in nodes
        /\ t.entries \in [nodes -> SUBSET nodes]
        /\ \A n \in nodes : t.kind[n] # "dir" => t.entries[n] = {}
        /\ \A d \in nodes : t.root \notin t.entries[d]
        /\ \A d, e \in nodes : d # e => t.entries[d] \cap t.entries[e] = {}
        /\ \A S \in SUBSET nodes :
               t.root \in S /\ (\A d \in S : t.entries[d] \subseteq S) => S = nodes

ASSUME TreeAssumption == \A t \in Trees : IsTree(t)

ASSUME LimitAssumption == Limits \subseteq Nat

VARIABLES
    tree, limit,
    pc,         \* "search", "returned" or "crashed"
    stack,      \* calls of findpng: the directory and the entries not yet read
    open_files, \* FILEs opened by ftype and not closed
    printed     \* the paths printed

vars == <<tree, limit, pc, stack, open_files, printed>>

Nodes == DOMAIN tree.kind

\* cnt is the number of paths printed.
cnt == Len(printed)

\* A DIR for every call on the stack, and the FILEs.
Descriptors == Len(stack) + open_files

TypeOK ==
    /\ tree \in Trees /\ limit \in Limits
    /\ pc \in {"search", "returned", "crashed"}
    /\ \A k \in DOMAIN stack : stack[k].dir \in Nodes /\ stack[k].rest \subseteq Nodes
    /\ open_files \in Nat
    /\ Descriptors <= limit
    /\ printed \in Seq(Nodes)

Frame(d) == [dir |-> d, rest |-> tree.entries[d]]

\* opendir succeeds: findpng of a directory with a descriptor left. For anything else
\* findpng returns at once.
CanOpen(n, used) == tree.kind[n] = "dir" /\ used < limit

Init ==
    /\ tree \in Trees /\ limit \in Limits
    /\ open_files = 0
    /\ printed = <<>>
    /\ \/ CanOpen(tree.root, 0) /\ stack = <<Frame(tree.root)>> /\ pc = "search"
       \/ ~CanOpen(tree.root, 0) /\ stack = <<>> /\ pc = "returned"

BugVerdicts(n) ==  \* the first bytes are not compared
    IF tree.kind[n] = "png" THEN {TRUE} ELSE BOOLEAN

\* What is_png makes of the eight bytes that ftype has read. For a directory and a
\* short file it reads some that fread did not write.
Verdicts(n) == CASE tree.kind[n] = "png"   -> {TRUE}
                 [] tree.kind[n] = "other" -> {FALSE}
                 [] OTHER                  -> BOOLEAN

Top == stack[Len(stack)]
Lower == SubSeq(stack, 1, Len(stack) - 1)

\* The stack after entry n of the top call: the entry is read, and searched in turn.
Search(n, used) ==
    LET above == Append(Lower, [Top EXCEPT !.rest = @ \ {n}])
    IN  IF CanOpen(n, used) THEN Append(above, Frame(n)) ELSE above

\* fopen succeeds.
CanRead(n) == Descriptors < limit /\ tree.kind[n] # "denied"

\* readdir returns an entry: ftype opens it, and never closes it, its path is printed if
\* it looks like a PNG, and findpng is called for it, whatever it is.
ReadEntry ==
    /\ stack # <<>> /\ Top.rest # {}
    /\ \E n \in Top.rest, verdict \in BOOLEAN :
          /\ CanRead(n)
          /\ verdict \in Verdicts(n)
          /\ open_files' = open_files + 1
          /\ printed' = IF verdict THEN Append(printed, n) ELSE printed
          /\ stack' = Search(n, Descriptors + 1)
    /\ UNCHANGED <<tree, limit, pc>>

\* fopen fails, and fread is called with a null pointer.
Crash ==
    /\ stack # <<>>
    /\ \E n \in Top.rest : ~CanRead(n)
    /\ pc' = "crashed"
    /\ stack' = <<>>
    /\ UNCHANGED <<tree, limit, open_files, printed>>

BugReturn ==  \* "." and ".." end the loop
    /\ stack # <<>>
    /\ stack' = Lower
    /\ pc' = IF stack' = <<>> THEN "returned" ELSE pc
    /\ UNCHANGED <<tree, limit, open_files, printed>>

\* readdir returns NULL: the directory is closed and the call returns.
Return ==
    /\ stack # <<>> /\ Top.rest = {}
    /\ stack' = Lower
    /\ pc' = IF stack' = <<>> THEN "returned" ELSE pc
    /\ UNCHANGED <<tree, limit, open_files, printed>>

Next == ReadEntry \/ Crash \/ Return

Spec == Init /\ [][Next]_vars

(***************************************************************************)
(* What the search is worth.                                               *)
(***************************************************************************)

Pngs == {n \in Nodes \ {tree.root} : tree.kind[n] = "png"}

Listed == {printed[k] : k \in DOMAIN printed}

\* The search stays within its descriptors (TypeOK), and in whatever order the entries
\* come, a path is printed once at most, and never that of a file that can be seen not
\* to be a PNG.
PrintedOnce == /\ TypeOK
               /\ Cardinality(Listed) = Len(printed)
               /\ \A n \in Listed : tree.kind[n] # "other"

\* Every PNG file below the directory has been printed when the program ends.
FindsAll == pc # "search" => Pngs \subseteq Listed

Dirs == {n \in Nodes : tree.kind[n] = "dir"}

\* With a descriptor for every entry and one more for every directory, and all entries
\* readable, the search misses nothing. With fewer it crashes or misses files, although
\* it looks at one at a time: ftype leaves them open (findpng.c:23).
EnoughFindsAll ==
    /\ limit >= Cardinality(Nodes) + Cardinality(Dirs)
    /\ \A n \in Nodes : tree.kind[n] # "denied"
    => FindsAll /\ pc # "crashed"
=============================================================================
