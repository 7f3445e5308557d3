------------------------------- MODULE RunLab --------------------------------
(***************************************************************************)
(* The scripts that time a program: run_lab3.sh for a producer-consumer    *)
(* program, run_lab4.sh and run_lab5.sh for the crawlers. Each runs its    *)
(* program NN times with every setting, appending a line to the .dat file  *)
(* of the setting, and then makes a table with the average and a table     *)
(* with the standard deviation of the lines of each file.                  *)
(*                                                                         *)
(* Scripts are processes that share the directory they are started in:     *)
(* started again after they were killed, or in the background with nohup,  *)
(* as their comments suggest. A line is known by the script and the run    *)
(* that wrote it; a run that prints no time writes a line all the same.    *)
(*                                                                         *)
(* The nested loops over the lists are at a tuple of positions in them,    *)
(* the outermost loop's first.                                             *)
(***************************************************************************)
EXTENDS Integers, Sequences, FiniteSets

CONSTANTS
    Scripts,        \* processes that execute one of the scripts
    Lab,            \* which: 3, 4 or 5
    Image,          \* run_lab3.sh's argument
    Parties,        \* sets of scripts that meet in a directory
    B, P, C, X,     \* run_lab3.sh's lists: buffer size, producers, consumers, delay
    T, M,           \* those of the others: threads (or handles), PNGs to find
    NN              \* runs per setting, 5 in the scripts

ASSUME ScriptAssumption ==
    /\ Lab \in [Scripts -> {3, 4, 5}]
    /\ Parties \subseteq SUBSET Scripts
    /\ NN \in Nat /\ NN > 1   \* the deviation divides by NN - 1

\* The lists ascend, and the loops do not break before they have begun.
ASSUME ListAssumption ==
    /\ \A list \in {B, P, C, X, T, M} :
          /\ list \in Seq(Nat) /\ list # <<>>
          /\ \A j, k \in 1..Len(list) : j < k => list[j] < list[k]
    /\ P[1] <= B[1] + 1 /\ C[1] <= B[1] + 1

VARIABLES
    pc,     \* "out" (not in this directory), "ready", "data", "table", "done",
            \* "killed" or "stuck" (its program does not return)
    at,     \* where its loops are
    xx,     \* the run it is at, 0 before the .dat file has been touched
    dat,    \* the .dat files that exist
    table   \* the rows of a script's two tables, which differ in their formula only

vars == <<pc, at, xx, dat, table>>

Init == /\ \E party \in Parties :
               pc = [s \in Scripts |-> IF s \in party THEN "ready" ELSE "out"]
        /\ at = [s \in Scripts |-> <<>>]
        /\ xx = [s \in Scripts |-> 0]
        /\ dat = <<>>
        /\ table = [s \in Scripts |-> <<>>]

-----------------------------------------------------------------------------
(* The loops. *)

Places(list) == 1..Len(list)

\* The loop over list is not left by its break at its k-th element or before.
Within(list, k, b) == \A j \in 1..k : list[j] <= b + 1

\* Where gen_data of run_lab3.sh measures.
GenData3 ==
    {q \in Places(X) \X Places(B) \X Places(P) \X Places(C) :
        Within(P, q[3], B[q[2]]) /\ Within(C, q[4], B[q[2]])}

BugGenTable3 ==  \* the consumers are not bounded
    {q \in Places(X) \X Places(B) \X Places(P) \X Places(C) : Within(P, q[3], B[q[2]])}

\* Where its gen_table has rows.
GenTable3 ==
    {q \in Places(X) \X Places(B) \X Places(P) \X Places(C) :
        Within(P, q[3], B[q[2]]) /\ Within(C, q[4], B[q[2]])}

\* Those of run_lab4.sh, and of run_lab5.sh.
GenData4 == Places(T) \X Places(M)

GenTable4 == Places(T) \X Places(M)

Measured(s) == IF Lab[s] = 3 THEN GenData3 ELSE GenData4
Rows(s)     == IF Lab[s] = 3 THEN GenTable3 ELSE GenTable4

\* Nested loops pass q before r.
Before(q, r) == \E k \in DOMAIN q : q[k] < r[k] /\ \A j \in 1..(k - 1) : q[j] = r[j]

\* The place in S that the loops come to first.
First(S, q) == q \in S /\ \A r \in S : ~Before(r, q)

\* The places in S that the loops of s come to after this one.
Left(s, S) == {q \in S : Before(at[s], q)}

Setting3(b, p, c, x) == [b |-> b, p |-> p, c |-> c, x |-> x]
Setting4(t, m)       == [t |-> t, m |-> m]

\* The setting at q.
Setting(s, q) == IF Lab[s] = 3 THEN Setting3(B[q[2]], P[q[3]], C[q[4]], X[q[1]])
                               ELSE Setting4(T[q[1]], M[q[2]])

\* The name of a setting's .dat file.
DatName3(s, c) == <<c.b, c.p, c.c, c.x, Image[s]>>

DatName4(c) == <<c.t, c.m>>

DatName(s, c) == IF Lab[s] = 3 THEN DatName3(s, c) ELSE DatName4(c)

-----------------------------------------------------------------------------
Start(s) == /\ pc[s] = "ready"
            /\ pc' = [pc EXCEPT ![s] = "data"]
            /\ \E q \in Measured(s) : First(Measured(s), q) /\ at' = [at EXCEPT ![s] = q]
            /\ UNCHANGED <<xx, dat, table>>

OFile(s) == DatName(s, Setting(s, at[s]))

\* exec_producer is entered: touch keeps the lines of a file that exists.
Touch(s) ==
    /\ pc[s] = "data" /\ xx[s] = 0
    /\ xx' = [xx EXCEPT ![s] = 1]
    /\ dat' = [name \in DOMAIN dat \cup {OFile(s)} |->
                  IF name \in DOMAIN dat THEN dat[name] ELSE <<>>]
    /\ UNCHANGED <<pc, at, table>>

\* The loop of exec_producer is over; gen_data goes on to the next setting, and
\* behind the last one gen_table begins.
NextSetting(s) ==
    /\ xx' = [xx EXCEPT ![s] = 0]
    /\ LET left == Left(s, Measured(s))
       IN  \/ \E q \in left : First(left, q) /\ at' = [at EXCEPT ![s] = q] /\ pc' = pc
           \/ /\ left = {}
              /\ \E q \in Rows(s) : First(Rows(s), q) /\ at' = [at EXCEPT ![s] = q]
              /\ pc' = [pc EXCEPT ![s] = "table"]

BugLog(s) == [dat EXCEPT ![OFile(s)] = <<[by |-> s, run |-> xx[s]]>>]  \* > for >>

\* echo $str >> ${O_FILE}
Log(s) == [dat EXCEPT ![OFile(s)] = Append(@, [by |-> s, run |-> xx[s]])]

\* The program runs and returns, and its line is appended.
RunProgram(s) ==
    /\ pc[s] = "data" /\ xx[s] \in 1..NN
    /\ dat' = Log(s)
    /\ \/ xx[s] < NN /\ xx' = [xx EXCEPT ![s] = @ + 1] /\ UNCHANGED <<pc, at>>
       \/ xx[s] = NN /\ NextSetting(s)
    /\ UNCHANGED table

\* gen_stat_per_pair: awk evaluates every line of the file, whoever wrote it;
\* without a file or a line it gives up and leaves the row without a value.
GenStatPerPair(s, row) ==
    LET name == DatName(s, row)
    IN  IF name \in DOMAIN dat THEN dat[name] ELSE <<>>

\* One row of gen_table: the setting, and what awk makes of its file.
GenTable(s) ==
    /\ pc[s] = "table"
    /\ LET row == Setting(s, at[s])
       IN  table' = [table EXCEPT ![s] =
                        Append(@, [setting |-> row, lines |-> GenStatPerPair(s, row)])]
    /\ LET left == Left(s, Rows(s))
       IN  \/ \E q \in left : First(left, q) /\ at' = [at EXCEPT ![s] = q] /\ pc' = pc
           \/ left = {} /\ pc' = [pc EXCEPT ![s] = "done"] /\ at' = at
    /\ UNCHANGED <<xx, dat>>

\* The program does not return, as findpng2 may not at the quota.
Hang(s) == /\ pc[s] = "data" /\ xx[s] > 0
           /\ pc' = [pc EXCEPT ![s] = "stuck"]
           /\ UNCHANGED <<at, xx, dat, table>>

\* The script is killed, and leaves its files.
Kill(s) == /\ pc[s] \in {"data", "table", "stuck"}
           /\ pc' = [pc EXCEPT ![s] = "killed"]
           /\ UNCHANGED <<at, xx, dat, table>>

Next == \E s \in Scripts :
            \/ Start(s) \/ Touch(s) \/ RunProgram(s) \/ GenTable(s)
            \/ Hang(s) \/ Kill(s)

Spec == Init /\ [][Next]_vars

-----------------------------------------------------------------------------
Values(list) == {list[k] : k \in Places(list)}

\* The combinations that the tables are about.
Wanted(s) ==
    IF Lab[s] = 3
    THEN {q \in {Setting3(b, p, c, x) : b \in Values(B), p \in Values(P),
                                        c \in Values(C), x \in Values(X)} :
             q.p <= q.b + 1 /\ q.c <= q.b + 1}
    ELSE {Setting4(t, m) : t \in Values(T), m \in Values(M)}

Filled(s) == {table[s][k].setting : k \in DOMAIN table[s]}

\* Every row finds its data, no setting has two rows, and a finished table has a
\* row for each combination that makes sense: gen_table breaks out of its loops
\* where gen_data does.
TableComplete ==
    \A s \in Scripts :
        /\ \A k \in DOMAIN table[s] : table[s][k].lines # <<>>
        /\ Len(table[s]) = Cardinality(Filled(s))
        /\ pc[s] = "done" => Filled(s) = Wanted(s)

\* Scripts whose results get mixed: the crawlers' always, run_lab3.sh's for the same
\* image.
Mixed(s, r) == \/ Lab[s] = 3 /\ Lab[r] = 3 /\ Image[s] = Image[r]
               \/ Lab[s] # 3 /\ Lab[r] # 3

\* Where the lines of s are.
Own(s, lines) == {k \in DOMAIN lines : lines[k].by = s}

\* Of the lines, s has written those of its first n runs, each once and in order.
RunsOf(s, lines, n) ==
    /\ {lines[k].run : k \in Own(s, lines)} = 1..n
    /\ \A j, k \in Own(s, lines) : j < k => lines[j].run < lines[k].run

\* A row holds the NN results that the script has measured for it, in order, whatever
\* other scripts do in the directory. Results of an earlier, killed or concurrent
\* script are averaged in only if it measured the same thing under the same names;
\* run_lab3.sh can run for several images at a time.
RowHasOwnRuns ==
    \A s \in Scripts : \A k \in DOMAIN table[s] :
        LET lines == table[s][k].lines
        IN  /\ RunsOf(s, lines, NN)
            /\ \A j \in DOMAIN lines : lines[j].by = s \/ Mixed(s, lines[j].by)
===============================================================================
