---------------------------- MODULE RunLab_proofs ----------------------------
(***************************************************************************)
(* Theorems about RunLab: for any lists that ascend, any number of runs    *)
(* and any scripts that meet in a directory, a finished table is complete  *)
(* and each of its rows is made of the script's own runs.                  *)
(*                                                                         *)
(* The invariant says how many lines a script has in the file of every     *)
(* setting, by where its loops are; that the files of two settings have    *)
(* two names; and that a file has lines of those scripts only that name it *)
(* for one of their settings.                                              *)
(***************************************************************************)
EXTENDS RunLab, SeqLemmas

Lines == [by : Scripts, run : Nat]

TypeOK ==
    /\ pc \in [Scripts -> {"out", "ready", "data", "table", "done", "killed", "stuck"}]
    /\ DOMAIN at = Scripts
    /\ xx \in [Scripts -> 0..NN]
    /\ \A name \in DOMAIN dat : dat[name] \in Seq(Lines)
    /\ DOMAIN table = Scripts

\* The lines that are there for the setting at q.
FileOf(s, q) == GenStatPerPair(s, Setting(s, q))

\* The lines that s has written for it while it measures.
Written(s, q) == IF Before(q, at[s]) THEN NN
                 ELSE IF q = at[s] /\ xx[s] > 0 THEN xx[s] - 1 ELSE 0

\* A script that has not started has written nothing.
Fresh(s) == pc[s] \in {"out", "ready"} =>
               xx[s] = 0 /\ \A name \in DOMAIN dat : Own(s, dat[name]) = {}

Measuring(s) == pc[s] = "data" =>
    /\ at[s] \in Measured(s)
    /\ xx[s] > 0 => OFile(s) \in DOMAIN dat
    /\ \A q \in Measured(s) : RunsOf(s, FileOf(s, q), Written(s, q))

\* Once it makes its tables, every file is complete.
Complete(s) == pc[s] \in {"table", "done"} =>
                  \A q \in Measured(s) : RunsOf(s, FileOf(s, q), NN)

\* It has the rows of the settings before the one it is at.
Tabling(s) ==
    /\ pc[s] \in {"out", "ready", "data", "stuck"} => table[s] = <<>>
    /\ pc[s] = "table" =>
          /\ at[s] \in Rows(s)
          /\ Filled(s) = {Setting(s, q) : q \in {r \in Rows(s) : Before(r, at[s])}}

\* Whoever has a line in a file names it for one of its settings.
Named == \A name \in DOMAIN dat : \A k \in DOMAIN dat[name] :
            \E q \in Measured(dat[name][k].by) :
               name = DatName(dat[name][k].by, Setting(dat[name][k].by, q))

Row(s) == [setting : {Setting(s, q) : q \in Rows(s)}, lines : Seq(Lines)]

\* What the properties say of a table.
Tabled(s) ==
    /\ table[s] \in Seq(Row(s))
    /\ IsFiniteSet(Filled(s)) /\ Len(table[s]) = Cardinality(Filled(s))
    /\ \A k \in DOMAIN table[s] :
          /\ RunsOf(s, table[s][k].lines, NN)
          /\ \A j \in DOMAIN table[s][k].lines :
                 table[s][k].lines[j].by = s \/ Mixed(s, table[s][k].lines[j].by)
    /\ pc[s] = "done" => Filled(s) = Wanted(s)

InOrder(s) == Fresh(s) /\ Measuring(s) /\ Complete(s) /\ Tabling(s) /\ Tabled(s)

LabInv == TypeOK /\ Named /\ \A s \in Scripts : InOrder(s)

-----------------------------------------------------------------------------
(* Where nested loops are. *)

LEMMA Lists ==
    ASSUME NEW list \in {B, P, C, X, T, M}
    PROVE  /\ Len(list) \in Nat /\ Places(list) \subseteq Nat \ {0}
           /\ \A k \in Places(list) : list[k] \in Nat
           /\ \A j, k \in Places(list) : list[j] = list[k] => j = k
           /\ \A j, k \in Places(list) : j <= k => list[j] <= list[k]
<1>1. list \in Seq(Nat) /\ \A j, k \in 1..Len(list) : j < k => list[j] < list[k]
  BY ListAssumption
<1>2. Len(list) \in Nat /\ \A k \in 1..Len(list) : list[k] \in Nat
  BY <1>1
<1>3. ASSUME NEW j \in 1..Len(list), NEW k \in 1..Len(list)
      PROVE  (list[j] = list[k] => j = k) /\ (j <= k => list[j] <= list[k])
  <2>1. j < k => list[j] < list[k]
    BY <1>1
  <2>2. k < j => list[k] < list[j]
    BY <1>1
  <2>3. list[j] \in Nat /\ list[k] \in Nat /\ j \in Nat /\ k \in Nat
    BY <1>2
  <2> QED
    BY <2>1, <2>2, <2>3
<1> QED
  BY <1>2, <1>3 DEF Places

LEMMA Places3 ==
    ASSUME NEW q \in GenData3
    PROVE  /\ q[1] \in Places(X) /\ q[2] \in Places(B)
           /\ q[3] \in Places(P) /\ q[4] \in Places(C)
           /\ q = <<q[1], q[2], q[3], q[4]>> /\ DOMAIN q = 1..4
BY DEF GenData3

LEMMA Places4 ==
    ASSUME NEW q \in GenData4
    PROVE  /\ q[1] \in Places(T) /\ q[2] \in Places(M)
           /\ q = <<q[1], q[2]>> /\ DOMAIN q = 1..2
BY DEF GenData4

\* The order of the loops, spelled out.
LEMMA Order3 ==
    ASSUME NEW q \in GenData3, NEW r \in GenData3
    PROVE  Before(q, r) <=>
             \/ q[1] < r[1]
             \/ q[1] = r[1] /\ q[2] < r[2]
             \/ q[1] = r[1] /\ q[2] = r[2] /\ q[3] < r[3]
             \/ q[1] = r[1] /\ q[2] = r[2] /\ q[3] = r[3] /\ q[4] < r[4]
<1>1. DOMAIN q = {1, 2, 3, 4}
  BY Places3
<1>2. 1..(1 - 1) = {} /\ 1..(2 - 1) = {1} /\ 1..(3 - 1) = {1, 2} /\ 1..(4 - 1) = {1, 2, 3}
  OBVIOUS
<1>3. Before(q, r) <=> \E k \in {1, 2, 3, 4} : q[k] < r[k] /\ \A j \in 1..(k - 1) : q[j] = r[j]
  BY <1>1 DEF Before
<1> QED
  BY <1>2, <1>3

LEMMA Order4 ==
    ASSUME NEW q \in GenData4, NEW r \in GenData4
    PROVE  Before(q, r) <=> \/ q[1] < r[1]
                            \/ q[1] = r[1] /\ q[2] < r[2]
<1>1. DOMAIN q = {1, 2}
  BY Places4
<1>2. 1..(1 - 1) = {} /\ 1..(2 - 1) = {1}
  OBVIOUS
<1>3. Before(q, r) <=> \E k \in {1, 2} : q[k] < r[k] /\ \A j \in 1..(k - 1) : q[j] = r[j]
  BY <1>1 DEF Before
<1> QED
  BY <1>2, <1>3

\* Nested loops pass any two places one before the other.
LEMMA Ordered ==
    ASSUME NEW s \in Scripts,
           NEW q \in Measured(s), NEW r \in Measured(s), NEW u \in Measured(s)
    PROVE  /\ ~Before(q, q)
           /\ Before(q, r) \/ q = r \/ Before(r, q)
           /\ Before(q, r) /\ Before(r, u) => Before(q, u)
<1>1. CASE Lab[s] = 3
  <2>1. q \in GenData3 /\ r \in GenData3 /\ u \in GenData3
    BY <1>1 DEF Measured
  <2>2. ASSUME NEW v \in {q, r, u}
        PROVE  /\ v[1] \in Nat /\ v[2] \in Nat /\ v[3] \in Nat /\ v[4] \in Nat
               /\ v = <<v[1], v[2], v[3], v[4]>>
    BY <2>1, Places3, Lists
  <2>3. ~Before(q, q)
    BY <2>1, <2>2, Order3
  <2>4. Before(q, r) \/ q = r \/ Before(r, q)
    BY <2>1, <2>2, Order3
  <2>5. Before(q, r) /\ Before(r, u) => Before(q, u)
    BY <2>1, <2>2, Order3
  <2> QED
    BY <2>3, <2>4, <2>5
<1>2. CASE Lab[s] # 3
  <2>1. q \in GenData4 /\ r \in GenData4 /\ u \in GenData4
    BY <1>2 DEF Measured
  <2>2. ASSUME NEW v \in {q, r, u}
        PROVE  v[1] \in Nat /\ v[2] \in Nat /\ v = <<v[1], v[2]>>
    BY <2>1, Places4, Lists
  <2>3. ~Before(q, q)
    BY <2>1, <2>2, Order4
  <2>4. Before(q, r) \/ q = r \/ Before(r, q)
    BY <2>1, <2>2, Order4
  <2>5. Before(q, r) /\ Before(r, u) => Before(q, u)
    BY <2>1, <2>2, Order4
  <2> QED
    BY <2>3, <2>4, <2>5
<1> QED
  BY <1>1, <1>2

\* gen_table breaks out of its loops where gen_data does.
LEMMA SameLoops == ASSUME NEW s \in Scripts PROVE Rows(s) = Measured(s)
BY DEF Rows, Measured, GenData3, GenTable3, GenData4, GenTable4

\* The next place of the loops: all those before it are behind.
LEMMA Advance ==
    ASSUME NEW s \in Scripts, at[s] \in Measured(s), NEW r \in Measured(s)
    PROVE  /\ \A q : First(Left(s, Measured(s)), q) =>
                  /\ q \in Measured(s)
                  /\ Before(r, q) <=> r = at[s] \/ Before(r, at[s])
                  /\ q # at[s]
           /\ Left(s, Measured(s)) = {} => r = at[s] \/ Before(r, at[s])
<1>1. r = at[s] \/ Before(r, at[s]) \/ r \in Left(s, Measured(s))
  BY Ordered DEF Left
<1>2. ASSUME NEW q, First(Left(s, Measured(s)), q)
      PROVE  /\ q \in Measured(s)
             /\ Before(r, q) <=> r = at[s] \/ Before(r, at[s])
             /\ q # at[s]
  <2>1. q \in Measured(s) /\ Before(at[s], q)
    BY <1>2 DEF First, Left
  <2>2. r \in Left(s, Measured(s)) => ~Before(r, q)
    BY <1>2 DEF First
  <2>3. Before(r, at[s]) => Before(r, q)
    BY <2>1, Ordered
  <2>4. ~Before(at[s], at[s])
    BY Ordered
  <2> QED
    BY <1>1, <2>1, <2>2, <2>3, <2>4
<1> QED
  BY <1>1, <1>2

-----------------------------------------------------------------------------
(* The settings and their files. *)

\* The files of two settings have two names.
LEMMA Names ==
    ASSUME NEW s \in Scripts, NEW q \in Measured(s), NEW r \in Measured(s),
           DatName(s, Setting(s, q)) = DatName(s, Setting(s, r))
    PROVE  q = r
<1>1. CASE Lab[s] = 3
  <2>1. q \in GenData3 /\ r \in GenData3
    BY <1>1 DEF Measured
  <2>2. <<B[q[2]], P[q[3]], C[q[4]], X[q[1]], Image[s]>>
          = <<B[r[2]], P[r[3]], C[r[4]], X[r[1]], Image[s]>>
    BY <1>1 DEF DatName, DatName3, Setting, Setting3
  <2>3. B[q[2]] = B[r[2]] /\ P[q[3]] = P[r[3]] /\ C[q[4]] = C[r[4]] /\ X[q[1]] = X[r[1]]
    BY <2>2
  <2>4. q[1] = r[1] /\ q[2] = r[2] /\ q[3] = r[3] /\ q[4] = r[4]
    BY <2>1, <2>3, Places3, Lists
  <2> QED
    BY <2>1, <2>4, Places3
<1>2. CASE Lab[s] # 3
  <2>1. q \in GenData4 /\ r \in GenData4
    BY <1>2 DEF Measured
  <2>2. <<T[q[1]], M[q[2]]>> = <<T[r[1]], M[r[2]]>>
    BY <1>2 DEF DatName, DatName4, Setting, Setting4
  <2>3. T[q[1]] = T[r[1]] /\ M[q[2]] = M[r[2]]
    BY <2>2
  <2>4. q[1] = r[1] /\ q[2] = r[2]
    BY <2>1, <2>3, Places4, Lists
  <2> QED
    BY <2>1, <2>4, Places4
<1> QED
  BY <1>1, <1>2

\* Scripts that name the same file measure the same thing.
LEMMA SameName ==
    ASSUME NEW s \in Scripts, NEW r \in Scripts, NEW q, NEW u,
           DatName(s, Setting(s, q)) = DatName(r, Setting(r, u))
    PROVE  Mixed(s, r)
<1>1. ASSUME NEW a, NEW b, NEW c, NEW d, NEW e, NEW f, NEW g
      PROVE  <<a, b, c, d, e>> # <<f, g>>
  <2>1. 5 \in DOMAIN <<a, b, c, d, e>>
    OBVIOUS
  <2>2. 5 \notin DOMAIN <<f, g>>
    OBVIOUS
  <2> QED
    BY <2>1, <2>2
<1>2. \A v \in {s, r} : \A w :
         DatName(v, Setting(v, w))
           = IF Lab[v] = 3 THEN <<B[w[2]], P[w[3]], C[w[4]], X[w[1]], Image[v]>>
                           ELSE <<T[w[1]], M[w[2]]>>
  BY DEF DatName, DatName3, DatName4, Setting, Setting3, Setting4
<1>3. Lab[s] = 3 <=> Lab[r] = 3
  BY <1>1, <1>2
<1>4. ASSUME Lab[s] = 3, Lab[r] = 3
      PROVE  Image[s] = Image[r]
  <2>1. <<B[q[2]], P[q[3]], C[q[4]], X[q[1]], Image[s]>>
          = <<B[u[2]], P[u[3]], C[u[4]], X[u[1]], Image[r]>>
    BY <1>2, <1>4
  <2> QED
    BY <2>1
<1> QED
  BY <1>3, <1>4 DEF Mixed

\* Where the loops break is where the lists are too large: what is measured is what
\* the tables are about.
LEMMA AllWanted ==
    ASSUME NEW s \in Scripts
    PROVE  {Setting(s, q) : q \in Measured(s)} = Wanted(s)
<1>1. CASE Lab[s] = 3
  <2>1. ASSUME NEW list \in {P, C}, NEW k \in Places(list), NEW b \in Nat
        PROVE  Within(list, k, b) <=> list[k] <= b + 1
    <3>1. k \in 1..k /\ 1..k \subseteq Places(list) /\ \A j \in 1..k : j <= k
      BY Lists DEF Places
    <3>2. \A j \in 1..k : list[j] <= list[k] /\ list[j] \in Nat
      BY <3>1, Lists
    <3>3. list[k] <= b + 1 => \A j \in 1..k : list[j] <= b + 1
      BY <3>1, <3>2, Lists
    <3> QED
      BY <3>1, <3>3 DEF Within
  <2>2. ASSUME NEW q \in Measured(s) PROVE Setting(s, q) \in Wanted(s)
    <3>1. q \in GenData3
      BY <1>1 DEF Measured
    <3>2. /\ q[1] \in Places(X) /\ q[2] \in Places(B)
          /\ q[3] \in Places(P) /\ q[4] \in Places(C)
      BY <3>1, Places3
    <3>3. Within(P, q[3], B[q[2]]) /\ Within(C, q[4], B[q[2]])
      BY <3>1 DEF GenData3
    <3>4. B[q[2]] \in Nat
      BY <3>2, Lists
    <3>5. P[q[3]] <= B[q[2]] + 1 /\ C[q[4]] <= B[q[2]] + 1
      BY <2>1, <3>2, <3>3, <3>4
    <3>6. /\ B[q[2]] \in Values(B) /\ P[q[3]] \in Values(P)
          /\ C[q[4]] \in Values(C) /\ X[q[1]] \in Values(X)
      BY <3>2 DEF Values
    <3>7. Setting(s, q) = Setting3(B[q[2]], P[q[3]], C[q[4]], X[q[1]])
      BY <1>1 DEF Setting
    <3>8. Setting(s, q).p <= Setting(s, q).b + 1 /\ Setting(s, q).c <= Setting(s, q).b + 1
      BY <3>5, <3>7 DEF Setting3
    <3> QED
      BY <1>1, <3>6, <3>7, <3>8 DEF Wanted
  <2>3. ASSUME NEW v \in Wanted(s) PROVE \E q \in Measured(s) : v = Setting(s, q)
    <3>1. PICK kb \in Places(B), kp \in Places(P), kc \in Places(C), kx \in Places(X) :
              v = Setting3(B[kb], P[kp], C[kc], X[kx])
      BY <1>1 DEF Wanted, Values
    <3>2. v.p <= v.b + 1 /\ v.c <= v.b + 1
      BY <1>1 DEF Wanted
    <3>3. P[kp] <= B[kb] + 1 /\ C[kc] <= B[kb] + 1
      BY <3>1, <3>2 DEF Setting3
    <3>4. Within(P, kp, B[kb]) /\ Within(C, kc, B[kb])
      BY <2>1, <3>3, Lists
    <3>5. <<kx, kb, kp, kc>> \in GenData3
      BY <3>4 DEF GenData3
    <3> QED
      BY <1>1, <3>1, <3>5 DEF Measured, Setting
  <2> QED
    BY <2>2, <2>3
<1>2. CASE Lab[s] # 3
  <2>1. Measured(s) = Places(T) \X Places(M)
    BY <1>2 DEF Measured, GenData4
  <2>2. Wanted(s) = {Setting4(t, m) : t \in Values(T), m \in Values(M)}
    BY <1>2 DEF Wanted
  <2>3. \A q : Setting(s, q) = Setting4(T[q[1]], M[q[2]])
    BY <1>2 DEF Setting
  <2>4. ASSUME NEW q \in Measured(s) PROVE Setting(s, q) \in Wanted(s)
    <3>1. q[1] \in Places(T) /\ q[2] \in Places(M)
      BY <2>1
    <3>2. T[q[1]] \in Values(T) /\ M[q[2]] \in Values(M)
      BY <3>1 DEF Values
    <3> QED
      BY <2>2, <2>3, <3>2
  <2>5. ASSUME NEW v \in Wanted(s) PROVE \E q \in Measured(s) : v = Setting(s, q)
    <3>1. PICK kt \in Places(T), km \in Places(M) : v = Setting4(T[kt], M[km])
      BY <2>2 DEF Values
    <3>2. <<kt, km>> \in Measured(s)
      BY <2>1
    <3> QED
      BY <2>3, <3>1, <3>2
  <2> QED
    BY <2>4, <2>5
<1> QED
  BY <1>1, <1>2

\* A setting is known by its name.
LEMMA Settings ==
    ASSUME NEW s \in Scripts, NEW q \in Measured(s), NEW r \in Measured(s),
           Setting(s, q) = Setting(s, r)
    PROVE  q = r
BY Names

-----------------------------------------------------------------------------
(* Lines. *)

\* No lines, no runs.
LEMMA NoRuns ==
    ASSUME NEW s, NEW lines, Own(s, lines) = {}
    PROVE  RunsOf(s, lines, 0)
BY DEF RunsOf

\* The line of the next run.
LEMMA OneMoreRun ==
    ASSUME NEW s \in Scripts, NEW lines \in Seq(Lines), NEW n \in Nat, RunsOf(s, lines, n)
    PROVE  RunsOf(s, Append(lines, [by |-> s, run |-> n + 1]), n + 1)
<1> DEFINE line == [by |-> s, run |-> n + 1]
           more == Append(lines, line)
           here == Len(lines) + 1
<1>1. line \in Lines /\ line.by = s /\ line.run = n + 1
  BY DEF Lines
<1>2. /\ Len(lines) \in Nat
      /\ DOMAIN lines = 1..Len(lines)
      /\ DOMAIN more = 1..here
      /\ more[here] = line
      /\ \A k \in 1..Len(lines) : more[k] = lines[k]
  BY <1>1
<1> HIDE DEF line, more
<1>3. Own(s, more) = Own(s, lines) \cup {here}
  BY <1>1, <1>2 DEF Own
<1>4. \A k \in Own(s, lines) : /\ k \in 1..Len(lines) /\ more[k] = lines[k]
                               /\ lines[k].run \in 1..n
  BY <1>2 DEF Own, RunsOf
<1>5. {more[k].run : k \in Own(s, more)} = {lines[k].run : k \in Own(s, lines)} \cup {n + 1}
  BY <1>1, <1>2, <1>3, <1>4
<1>6. {more[k].run : k \in Own(s, more)} = 1..(n + 1)
  BY <1>5 DEF RunsOf
<1>7. ASSUME NEW j \in Own(s, more), NEW k \in Own(s, more), j < k
      PROVE  more[j].run < more[k].run
  <2>1. CASE k = here
    <3>1. j \in Own(s, lines)
      BY <1>2, <1>3, <1>7, <2>1
    <3>2. more[j].run \in 1..n
      BY <1>4, <3>1
    <3>3. more[k].run = n + 1
      BY <1>1, <1>2, <2>1
    <3> QED
      BY <3>2, <3>3
  <2>2. CASE k # here
    <3>1. k \in Own(s, lines) /\ j \in Own(s, lines)
      BY <1>2, <1>3, <1>4, <1>7, <2>2
    <3> QED
      BY <1>4, <1>7, <3>1 DEF RunsOf
  <2> QED
    BY <2>1, <2>2
<1> QED
  BY <1>6, <1>7 DEF RunsOf, line, more

\* Another script's line is none of its own.
LEMMA OtherLine ==
    ASSUME NEW s \in Scripts, NEW lines \in Seq(Lines), NEW line \in Lines, line.by # s
    PROVE  /\ Own(s, Append(lines, line)) = Own(s, lines)
           /\ \A n : RunsOf(s, lines, n) => RunsOf(s, Append(lines, line), n)
<1> DEFINE more == Append(lines, line)
<1>1. /\ Len(lines) \in Nat
      /\ DOMAIN lines = 1..Len(lines)
      /\ DOMAIN more = 1..(Len(lines) + 1)
      /\ more[Len(lines) + 1] = line
      /\ \A k \in 1..Len(lines) : more[k] = lines[k]
  OBVIOUS
<1> HIDE DEF more
<1>2. Own(s, more) = Own(s, lines)
  BY <1>1 DEF Own
<1>3. \A k \in Own(s, lines) : more[k] = lines[k]
  BY <1>1 DEF Own
<1>4. {more[k].run : k \in Own(s, more)} = {lines[k].run : k \in Own(s, lines)}
  BY <1>2, <1>3
<1>5. ASSUME NEW n, RunsOf(s, lines, n) PROVE RunsOf(s, more, n)
  BY <1>2, <1>3, <1>4, <1>5 DEF RunsOf
<1> QED
  BY <1>2, <1>5 DEF more

-----------------------------------------------------------------------------
(* The steps. *)

LEMMA LabInit == Init => LabInv
<1> SUFFICES ASSUME Init PROVE LabInv
  OBVIOUS
<1>1. TypeOK
  BY ScriptAssumption DEF Init, TypeOK
<1>2. DOMAIN dat = {} /\ Named
  BY DEF Init, Named
<1>3. ASSUME NEW s \in Scripts PROVE InOrder(s)
  <2>1. pc[s] \in {"out", "ready"} /\ xx[s] = 0 /\ table[s] = <<>>
    BY DEF Init
  <2>2. Fresh(s) /\ Measuring(s) /\ Complete(s) /\ Tabling(s)
    BY <1>2, <2>1 DEF Fresh, Measuring, Complete, Tabling
  <2>3. Filled(s) = {}
    BY <2>1 DEF Filled
  <2>4. IsFiniteSet(Filled(s)) /\ Len(table[s]) = Cardinality(Filled(s))
    BY <2>1, <2>3, FS_EmptySet
  <2>5. Tabled(s)
    BY <2>1, <2>4 DEF Tabled
  <2> QED
    BY <2>2, <2>5 DEF InOrder
<1> QED
  BY <1>1, <1>2, <1>3 DEF LabInv

LEMMA WrittenNat ==
    ASSUME LabInv, NEW s \in Scripts, NEW q
    PROVE  Written(s, q) \in Nat
BY ScriptAssumption DEF LabInv, TypeOK, Written

\* A step of another script that leaves the lines of s alone.
LEMMA Others ==
    ASSUME LabInv, NEW s \in Scripts,
           pc'[s] = pc[s], at'[s] = at[s], xx'[s] = xx[s], table'[s] = table[s],
           DOMAIN dat \subseteq DOMAIN dat',
           \A q \in Measured(s), n \in Nat :
              RunsOf(s, FileOf(s, q), n) => RunsOf(s, FileOf(s, q), n)',
           \A name \in DOMAIN dat' : \/ Own(s, dat'[name]) = {}
                                     \/ name \in DOMAIN dat /\ Own(s, dat[name]) # {}
    PROVE  InOrder(s)'
<1>1. Fresh(s) /\ Measuring(s) /\ Complete(s) /\ Tabling(s) /\ Tabled(s)
  BY DEF LabInv, InOrder
<1>2. Filled(s)' = Filled(s)
  BY DEF Filled
<1>3. Fresh(s)'
  BY <1>1 DEF Fresh
<1>4. Measuring(s)'
  <2> SUFFICES ASSUME pc[s] = "data" PROVE Measuring(s)'
    BY DEF Measuring
  <2>1. at'[s] \in Measured(s) /\ OFile(s)' = OFile(s)
    BY <1>1 DEF Measuring, OFile
  <2>2. xx'[s] > 0 => OFile(s)' \in DOMAIN dat'
    BY <1>1, <2>1 DEF Measuring
  <2>3. \A q : Written(s, q)' = Written(s, q)
    BY DEF Written
  <2>4. \A q \in Measured(s) : RunsOf(s, FileOf(s, q), Written(s, q))'
    BY <1>1, <2>3, WrittenNat DEF Measuring
  <2> QED
    BY <2>1, <2>2, <2>4 DEF Measuring
<1>5. Complete(s)'
  BY <1>1, ScriptAssumption DEF Complete
<1>6. Tabling(s)'
  BY <1>1, <1>2 DEF Tabling
<1>7. Tabled(s)'
  BY <1>1, <1>2 DEF Tabled
<1> QED
  BY <1>3, <1>4, <1>5, <1>6, <1>7 DEF InOrder

\* The files stay as they are.
LEMMA SameFiles ==
    ASSUME dat' = dat
    PROVE  \A s, q : FileOf(s, q)' = FileOf(s, q)
BY DEF FileOf, GenStatPerPair

LEMMA StartStep == ASSUME LabInv, NEW s \in Scripts, Start(s) PROVE LabInv'
<1> USE DEF LabInv, Start
<1>1. TypeOK'
  BY DEF TypeOK
<1>2. Named'
  BY DEF Named
<1>3. ASSUME NEW r \in Scripts, r # s PROVE InOrder(r)'
  BY <1>3, Others, SameFiles DEF TypeOK
<1>4. /\ pc[s] = "ready" /\ pc'[s] = "data" /\ xx'[s] = 0 /\ table'[s] = <<>>
      /\ \A name \in DOMAIN dat : Own(s, dat[name]) = {}
  BY DEF TypeOK, InOrder, Fresh, Tabling
<1>5. at'[s] \in Measured(s) /\ \A q \in Measured(s) : ~Before(q, at'[s])
  BY DEF TypeOK, First
<1>6. ASSUME NEW q \in Measured(s) PROVE RunsOf(s, FileOf(s, q), Written(s, q))'
  <2>1. Own(s, FileOf(s, q)) = {}
    BY <1>4 DEF FileOf, GenStatPerPair, Own
  <2>2. Written(s, q)' = 0
    BY <1>4, <1>5 DEF Written
  <2> QED
    BY <2>1, <2>2, NoRuns, SameFiles
<1>7. InOrder(s)'
  <2>1. Fresh(s)' /\ Measuring(s)' /\ Complete(s)' /\ Tabling(s)'
    BY <1>4, <1>5, <1>6 DEF Fresh, Measuring, Complete, Tabling
  <2>2. table' = table /\ Tabled(s)
    BY DEF InOrder
  <2>3. Tabled(s)'
    BY <1>4, <2>2 DEF Tabled, Filled
  <2> QED
    BY <2>1, <2>3 DEF InOrder
<1> QED
  BY <1>1, <1>2, <1>3, <1>7

LEMMA TouchStep == ASSUME LabInv, NEW s \in Scripts, Touch(s) PROVE LabInv'
<1> USE DEF LabInv, Touch
<1> DEFINE file == OFile(s)
<1>1. /\ DOMAIN dat' = DOMAIN dat \cup {file}
      /\ \A name \in DOMAIN dat : dat'[name] = dat[name]
      /\ file \notin DOMAIN dat => dat'[file] = <<>>
  OBVIOUS
<1> HIDE DEF file
<1>2. TypeOK'
  <2>1. xx' \in [Scripts -> 0..NN]
    BY ScriptAssumption DEF TypeOK
  <2>2. \A name \in DOMAIN dat' : dat'[name] \in Seq(Lines)
    BY <1>1 DEF TypeOK
  <2> QED
    BY <2>1, <2>2 DEF TypeOK
<1>3. ASSUME NEW name \in DOMAIN dat', NEW k \in DOMAIN dat'[name]
      PROVE  name \in DOMAIN dat /\ dat'[name] = dat[name]
  BY <1>1
<1>4. Named'
  BY <1>3 DEF Named
<1>5. ASSUME NEW r, NEW q PROVE FileOf(r, q)' = FileOf(r, q)
  BY <1>1 DEF FileOf, GenStatPerPair
<1>6. \A r : \A name \in DOMAIN dat' : \/ Own(r, dat'[name]) = {}
                                       \/ name \in DOMAIN dat /\ Own(r, dat[name]) # {}
  BY <1>3 DEF Own
<1>7. ASSUME NEW r \in Scripts, r # s PROVE InOrder(r)'
  BY <1>1, <1>5, <1>6, <1>7, Others DEF TypeOK
<1>8. pc[s] = "data" /\ pc' = pc /\ at' = at /\ table' = table /\ xx[s] = 0 /\ xx'[s] = 1
  BY DEF TypeOK
<1>9. Fresh(s) /\ Measuring(s) /\ Complete(s) /\ Tabling(s) /\ Tabled(s)
  BY DEF InOrder
<1>10. Measuring(s)'
  <2>1. OFile(s)' = file
    BY <1>8 DEF file, OFile
  <2>2. \A q : Written(s, q)' = Written(s, q)
    BY <1>8 DEF Written
  <2> QED
    BY <1>1, <1>5, <1>8, <1>9, <2>1, <2>2 DEF Measuring
<1>11. Filled(s)' = Filled(s)
  BY <1>8 DEF Filled
<1>12. InOrder(s)'
  BY <1>8, <1>9, <1>10, <1>11 DEF InOrder, Fresh, Complete, Tabling, Tabled
<1> QED
  BY <1>2, <1>4, <1>7, <1>12

LEMMA HangStep == ASSUME LabInv, NEW s \in Scripts, Hang(s) PROVE LabInv'
<1> USE DEF LabInv, Hang
<1>1. TypeOK' /\ Named'
  BY DEF TypeOK, Named
<1>2. ASSUME NEW r \in Scripts, r # s PROVE InOrder(r)'
  BY <1>2, Others, SameFiles DEF TypeOK
<1>3. pc[s] = "data" /\ pc'[s] = "stuck" /\ table' = table
  BY DEF TypeOK
<1>4. InOrder(s)'
  BY <1>3 DEF InOrder, Fresh, Measuring, Complete, Tabling, Tabled, Filled
<1> QED
  BY <1>1, <1>2, <1>4

LEMMA KillStep == ASSUME LabInv, NEW s \in Scripts, Kill(s) PROVE LabInv'
<1> USE DEF LabInv, Kill
<1>1. TypeOK' /\ Named'
  BY DEF TypeOK, Named
<1>2. ASSUME NEW r \in Scripts, r # s PROVE InOrder(r)'
  BY <1>2, Others, SameFiles DEF TypeOK
<1>3. pc'[s] = "killed" /\ table' = table
  BY DEF TypeOK
<1>4. InOrder(s)'
  BY <1>3 DEF InOrder, Fresh, Measuring, Complete, Tabling, Tabled, Filled
<1> QED
  BY <1>1, <1>2, <1>4

\* What a run leaves in the files: the script's file has one line more.
LEMMA Logged ==
    ASSUME LabInv, NEW s \in Scripts, RunProgram(s)
    PROVE  /\ DOMAIN dat' = DOMAIN dat
           /\ \A name \in DOMAIN dat : dat'[name] \in Seq(Lines)
           /\ \A r \in Scripts \ {s} :
                 /\ \A name \in DOMAIN dat : Own(r, dat'[name]) = Own(r, dat[name])
                 /\ \A q \in Measured(r), n \in Nat :
                       RunsOf(r, FileOf(r, q), n) => RunsOf(r, FileOf(r, q), n)'
           /\ \A q \in Measured(s) :
                 IF q = at[s] THEN RunsOf(s, FileOf(s, q)', xx[s])
                              ELSE FileOf(s, q)' = FileOf(s, q)
           /\ Named'
<1> DEFINE file == OFile(s)
           line == [by |-> s, run |-> xx[s]]
<1>1. /\ at[s] \in Measured(s) /\ file \in DOMAIN dat
      /\ xx[s] \in 1..NN
      /\ RunsOf(s, FileOf(s, at[s]), xx[s] - 1)
  <2>1. pc[s] = "data" /\ xx[s] \in 1..NN /\ Measuring(s)
    BY DEF RunProgram, LabInv, InOrder
  <2>2. xx[s] \in Nat /\ xx[s] > 0
    BY <2>1, ScriptAssumption
  <2>3. at[s] \in Measured(s) /\ file \in DOMAIN dat
    BY <2>1, <2>2 DEF Measuring
  <2>4. Written(s, at[s]) = xx[s] - 1
    BY <2>2, <2>3, Ordered DEF Written
  <2>5. RunsOf(s, FileOf(s, at[s]), Written(s, at[s]))
    BY <2>1, <2>3 DEF Measuring
  <2> QED
    BY <2>1, <2>3, <2>4, <2>5
<1>2. xx[s] \in Nat /\ xx[s] - 1 \in Nat /\ (xx[s] - 1) + 1 = xx[s]
  BY <1>1, ScriptAssumption
<1>3. line \in Lines
  BY <1>2 DEF Lines
<1>4. /\ DOMAIN dat' = DOMAIN dat
      /\ dat'[file] = Append(dat[file], line)
      /\ \A name \in DOMAIN dat \ {file} : dat'[name] = dat[name]
  BY <1>1 DEF RunProgram, Log
<1>5. \A name \in DOMAIN dat : dat[name] \in Seq(Lines)
  BY DEF LabInv, TypeOK
<1>6. line.by = s /\ file = DatName(s, Setting(s, at[s]))
  BY DEF OFile
<1>7. line = [by |-> s, run |-> (xx[s] - 1) + 1]
  BY <1>2
<1> HIDE DEF file, line
<1>8. dat'[file] \in Seq(Lines)
  BY <1>1, <1>3, <1>4, <1>5
<1>9. \A name \in DOMAIN dat : dat'[name] \in Seq(Lines)
  BY <1>4, <1>5, <1>8
<1>10. ASSUME NEW r \in Scripts \ {s}, NEW name \in DOMAIN dat
       PROVE  /\ Own(r, dat'[name]) = Own(r, dat[name])
              /\ \A n : RunsOf(r, dat[name], n) => RunsOf(r, dat'[name], n)
  <2>1. CASE name = file
    <3>1. r \in Scripts /\ line.by # r /\ line \in Lines
      BY <1>3, <1>6
    <3>2. dat[name] \in Seq(Lines) /\ dat'[name] = Append(dat[name], line)
      BY <1>4, <1>5, <2>1
    <3> HIDE <2>1
    <3> QED
      BY <3>1, <3>2, OtherLine
  <2>2. CASE name # file
    BY <1>4, <2>2
  <2> QED
    BY <2>1, <2>2
<1>11. ASSUME NEW r \in Scripts \ {s}, NEW q \in Measured(r), NEW n \in Nat,
              RunsOf(r, FileOf(r, q), n)
       PROVE  RunsOf(r, FileOf(r, q), n)'
  <2> DEFINE name == DatName(r, Setting(r, q))
  <2>1. CASE name \in DOMAIN dat
    <3>1. FileOf(r, q) = dat[name] /\ FileOf(r, q)' = dat'[name]
      BY <1>4, <2>1 DEF FileOf, GenStatPerPair
    <3> HIDE DEF name
    <3> QED
      BY <1>10, <1>11, <2>1, <3>1
  <2>2. CASE name \notin DOMAIN dat
    <3>1. FileOf(r, q)' = FileOf(r, q)
      BY <1>4, <2>2 DEF FileOf, GenStatPerPair
    <3> QED
      BY <1>11, <3>1
  <2> QED
    BY <2>1, <2>2
<1>12. ASSUME NEW q \in Measured(s)
       PROVE  IF q = at[s] THEN RunsOf(s, FileOf(s, q)', xx[s])
                           ELSE FileOf(s, q)' = FileOf(s, q)
  <2>1. ASSUME q = at[s] PROVE RunsOf(s, FileOf(s, q)', xx[s])
    <3>1. FileOf(s, q) = dat[file] /\ FileOf(s, q)' = dat'[file]
      BY <1>1, <1>4, <1>6, <2>1 DEF FileOf, GenStatPerPair
    <3>2. RunsOf(s, dat[file], xx[s] - 1)
      BY <1>1, <2>1, <3>1
    <3>3. RunsOf(s, Append(dat[file], line), (xx[s] - 1) + 1)
      BY <1>1, <1>2, <1>5, <1>7, <3>2, OneMoreRun
    <3> QED
      BY <1>2, <1>4, <3>1, <3>3
  <2>2. ASSUME q # at[s] PROVE FileOf(s, q)' = FileOf(s, q)
    <3>1. DatName(s, Setting(s, q)) # file
      BY <1>1, <1>6, <2>2, Names
    <3> QED
      BY <1>4, <3>1 DEF FileOf, GenStatPerPair
  <2> QED
    BY <2>1, <2>2
<1>13. Named'
  <2> SUFFICES ASSUME NEW name \in DOMAIN dat', NEW k \in DOMAIN dat'[name]
               PROVE  \E q \in Measured(dat'[name][k].by) :
                         name = DatName(dat'[name][k].by, Setting(dat'[name][k].by, q))
    BY DEF Named
  <2>1. CASE name = file /\ k = Len(dat[file]) + 1
    <3>1. dat'[name][k] = line
      BY <1>1, <1>3, <1>4, <1>5, <2>1
    <3> QED
      BY <1>1, <1>6, <2>1, <3>1
  <2>2. CASE ~(name = file /\ k = Len(dat[file]) + 1)
    <3>1. name \in DOMAIN dat
      BY <1>4
    <3>2. k \in DOMAIN dat[name] /\ dat'[name][k] = dat[name][k]
      <4>1. CASE name = file
        <5>1. DOMAIN dat'[name] = 1..(Len(dat[file]) + 1) /\ dat[file] \in Seq(Lines)
          BY <1>1, <1>3, <1>4, <1>5, <4>1
        <5>2. k \in 1..Len(dat[file])
          BY <2>2, <4>1, <5>1
        <5> QED
          BY <1>3, <1>4, <4>1, <5>1, <5>2
      <4>2. CASE name # file
        BY <1>4, <4>2
      <4> QED
        BY <4>1, <4>2
    <3> QED
      BY <3>1, <3>2 DEF LabInv, Named
  <2> QED
    BY <2>1, <2>2
<1>14. \A r \in Scripts \ {s} :
          /\ \A name \in DOMAIN dat : Own(r, dat'[name]) = Own(r, dat[name])
          /\ \A q \in Measured(r), n \in Nat :
                RunsOf(r, FileOf(r, q), n) => RunsOf(r, FileOf(r, q), n)'
  BY <1>10, <1>11
<1> QED
  BY <1>4, <1>9, <1>12, <1>13, <1>14

\* After a run that is not the last one of its setting.
LEMMA SameSettingStep ==
    ASSUME LabInv, NEW s \in Scripts, RunProgram(s), xx[s] < NN,
           xx' = [xx EXCEPT ![s] = @ + 1], UNCHANGED <<pc, at, table>>
    PROVE  InOrder(s)'
<1>1. Fresh(s) /\ Measuring(s) /\ Complete(s) /\ Tabling(s) /\ Tabled(s)
  BY DEF LabInv, InOrder
<1>2. pc[s] = "data" /\ xx[s] \in 1..NN /\ xx'[s] = xx[s] + 1
  BY DEF RunProgram, LabInv, TypeOK
<1>3. xx[s] \in Nat /\ xx'[s] > 0 /\ xx'[s] - 1 = xx[s] /\ xx[s] > 0
  BY <1>2, ScriptAssumption
<1>4. ASSUME NEW q \in Measured(s) PROVE RunsOf(s, FileOf(s, q)', Written(s, q)')
  <2>1. at[s] \in Measured(s) /\ RunsOf(s, FileOf(s, q), Written(s, q))
    BY <1>1, <1>2 DEF Measuring
  <2>2. CASE q = at[s]
    <3>1. Written(s, q)' = xx[s]
      BY <1>3, <2>1, <2>2, Ordered DEF Written
    <3> QED
      BY <2>2, <3>1, Logged
  <2>3. CASE q # at[s]
    <3>1. Written(s, q)' = Written(s, q)
      BY <2>3 DEF Written
    <3> QED
      BY <2>1, <2>3, <3>1, Logged
  <2> QED
    BY <2>2, <2>3
<1>5. at'[s] \in Measured(s) /\ OFile(s)' \in DOMAIN dat'
  BY <1>1, <1>2, <1>3, Logged DEF Measuring, OFile
<1>6. Measuring(s)'
  BY <1>4, <1>5 DEF Measuring
<1>7. Filled(s)' = Filled(s)
  BY DEF Filled
<1> QED
  BY <1>1, <1>2, <1>6, <1>7 DEF InOrder, Fresh, Complete, Tabling, Tabled

\* After the last one.
LEMMA NextSettingStep ==
    ASSUME LabInv, NEW s \in Scripts, RunProgram(s), xx[s] = NN, NextSetting(s)
    PROVE  InOrder(s)'
<1>1. Fresh(s) /\ Measuring(s) /\ Complete(s) /\ Tabling(s) /\ Tabled(s)
  BY DEF LabInv, InOrder
<1>2. pc[s] = "data" /\ xx'[s] = 0 /\ table' = table /\ NN \in Nat
  BY ScriptAssumption DEF RunProgram, NextSetting, LabInv, TypeOK
<1>3. at[s] \in Measured(s)
  BY <1>1, <1>2 DEF Measuring
<1>4. ASSUME NEW q \in Measured(s), q = at[s] \/ Before(q, at[s])
      PROVE  RunsOf(s, FileOf(s, q)', NN)
  <2>1. CASE q = at[s]
    BY <2>1, Logged
  <2>2. CASE q # at[s] /\ Before(q, at[s])
    <3>1. RunsOf(s, FileOf(s, q), NN)
      BY <1>1, <1>2, <2>2 DEF Measuring, Written
    <3> QED
      BY <2>2, <3>1, Logged
  <2> QED
    BY <1>4, <2>1, <2>2
<1>5. Filled(s)' = Filled(s) /\ table'[s] = <<>>
  BY <1>1, <1>2 DEF Filled, Tabling
<1>6. CASE \E q : First(Left(s, Measured(s)), q) /\ at' = [at EXCEPT ![s] = q] /\ pc' = pc
  <2>1. PICK p : First(Left(s, Measured(s)), p) /\ at' = [at EXCEPT ![s] = p] /\ pc' = pc
    BY <1>6
  <2>2. at'[s] = p /\ pc'[s] = "data"
    BY <1>2, <2>1 DEF LabInv, TypeOK
  <2>3. ASSUME NEW q \in Measured(s)
        PROVE  /\ p \in Measured(s) /\ p # at[s]
               /\ Before(q, p) <=> q = at[s] \/ Before(q, at[s])
    BY <1>3, <2>1, Advance
  <2>4. ASSUME NEW q \in Measured(s) PROVE RunsOf(s, FileOf(s, q)', Written(s, q)')
    <3>1. CASE Before(q, p)
      <4>1. Written(s, q)' = NN
        BY <2>2, <3>1 DEF Written
      <4> QED
        BY <1>4, <2>3, <3>1, <4>1
    <3>2. CASE ~Before(q, p)
      <4>1. Written(s, q)' = 0
        BY <1>2, <2>2, <3>2 DEF Written
      <4>2. q # at[s] /\ ~Before(q, at[s])
        BY <2>3, <3>2
      <4>3. RunsOf(s, FileOf(s, q), 0)
        BY <1>1, <1>2, <4>2 DEF Measuring, Written
      <4> QED
        BY <4>1, <4>2, <4>3, Logged
    <3> QED
      BY <3>1, <3>2
  <2>5. Measuring(s)'
    BY <1>2, <1>3, <2>2, <2>3, <2>4 DEF Measuring
  <2> QED
    BY <1>1, <1>2, <1>5, <2>2, <2>5 DEF InOrder, Fresh, Complete, Tabling, Tabled
<1>7. CASE /\ Left(s, Measured(s)) = {}
           /\ \E q \in Rows(s) : First(Rows(s), q) /\ at' = [at EXCEPT ![s] = q]
           /\ pc' = [pc EXCEPT ![s] = "table"]
  <2>1. PICK p \in Rows(s) : First(Rows(s), p) /\ at' = [at EXCEPT ![s] = p]
    BY <1>7
  <2>2. at'[s] = p /\ pc'[s] = "table"
    BY <1>7, <2>1 DEF LabInv, TypeOK
  <2>3. \A q \in Rows(s) : ~Before(q, p)
    BY <2>1 DEF First
  <2>4. Complete(s)'
    BY <1>3, <1>4, <1>7, Advance DEF Complete
  <2>5. Filled(s)' = {}
    BY <1>5 DEF Filled
  <2>6. Tabling(s)'
    BY <2>1, <2>2, <2>3, <2>5 DEF Tabling
  <2> QED
    BY <1>1, <1>2, <1>5, <2>2, <2>4, <2>6 DEF InOrder, Fresh, Measuring, Tabled
<1> QED
  BY <1>6, <1>7 DEF NextSetting, First

LEMMA RunProgramStep == ASSUME LabInv, NEW s \in Scripts, RunProgram(s) PROVE LabInv'
<1>1. TypeOK'
  <2>1. DOMAIN at' = Scripts /\ table' = table
        /\ pc' \in [Scripts -> {"out", "ready", "data", "table", "done", "killed", "stuck"}]
    BY DEF LabInv, TypeOK, RunProgram, NextSetting
  <2>2. xx' \in [Scripts -> 0..NN]
    BY ScriptAssumption DEF LabInv, TypeOK, RunProgram, NextSetting
  <2> QED
    BY <2>1, <2>2, Logged DEF LabInv, TypeOK
<1>2. ASSUME NEW r \in Scripts, r # s PROVE InOrder(r)'
  <2>1. pc'[r] = pc[r] /\ at'[r] = at[r] /\ xx'[r] = xx[r] /\ table'[r] = table[r]
    BY <1>2 DEF LabInv, TypeOK, RunProgram, NextSetting
  <2>2. /\ DOMAIN dat' = DOMAIN dat
        /\ \A name \in DOMAIN dat : Own(r, dat'[name]) = Own(r, dat[name])
        /\ \A q \in Measured(r), n \in Nat :
              RunsOf(r, FileOf(r, q), n) => RunsOf(r, FileOf(r, q), n)'
    BY <1>2, Logged
  <2> QED
    BY <2>1, <2>2, Others
<1>3. InOrder(s)'
  BY SameSettingStep, NextSettingStep DEF RunProgram
<1> QED
  BY <1>1, <1>2, <1>3, Logged DEF LabInv

\* The file that a row is made of.
LEMMA RowOfFile ==
    ASSUME LabInv, NEW s \in Scripts, NEW q \in Measured(s), pc[s] = "table"
    PROVE  /\ FileOf(s, q) \in Seq(Lines)
           /\ RunsOf(s, FileOf(s, q), NN)
           /\ \A j \in DOMAIN FileOf(s, q) :
                 FileOf(s, q)[j].by = s \/ Mixed(s, FileOf(s, q)[j].by)
<1> DEFINE name == DatName(s, Setting(s, q))
           lines == FileOf(s, q)
<1>1. lines = IF name \in DOMAIN dat THEN dat[name] ELSE <<>>
  BY DEF FileOf, GenStatPerPair
<1>2. lines \in Seq(Lines)
  BY <1>1 DEF LabInv, TypeOK
<1>3. RunsOf(s, lines, NN)
  BY DEF LabInv, InOrder, Complete
<1> HIDE DEF lines
<1>4. ASSUME NEW j \in DOMAIN lines PROVE Mixed(s, lines[j].by)
  <2>1. lines[j] \in Lines
    BY <1>2, <1>4
  <2>2. lines[j].by \in Scripts
    BY <2>1 DEF Lines
  <2>3. name \in DOMAIN dat /\ lines = dat[name]
    BY <1>1, <1>4
  <2>4. PICK u \in Measured(lines[j].by) : name = DatName(lines[j].by, Setting(lines[j].by, u))
    BY <1>4, <2>3 DEF LabInv, Named
  <2> QED
    BY <2>2, <2>4, SameName
<1> QED
  BY <1>2, <1>3, <1>4 DEF lines

\* One more row: it is the first of its setting.
LEMMA OneMoreRow ==
    ASSUME LabInv, NEW s \in Scripts, GenTable(s)
    PROVE  /\ Filled(s)' = Filled(s) \cup {Setting(s, at[s])}
           /\ table'[s] \in Seq(Row(s))
           /\ IsFiniteSet(Filled(s)') /\ Len(table'[s]) = Cardinality(Filled(s)')
           /\ \A k \in DOMAIN table'[s] :
                 /\ RunsOf(s, table'[s][k].lines, NN)
                 /\ \A j \in DOMAIN table'[s][k].lines :
                       table'[s][k].lines[j].by = s \/ Mixed(s, table'[s][k].lines[j].by)
<1> DEFINE rows == table[s]
           row == [setting |-> Setting(s, at[s]), lines |-> FileOf(s, at[s])]
           more == Append(rows, row)
<1>1. pc[s] = "table" /\ at[s] \in Rows(s) /\ Tabled(s)
      /\ Filled(s) = {Setting(s, q) : q \in {r \in Rows(s) : Before(r, at[s])}}
  BY DEF LabInv, InOrder, Tabling, GenTable
<1>2. at[s] \in Measured(s)
  BY <1>1, SameLoops
<1>3. table'[s] = more
  BY DEF LabInv, TypeOK, GenTable, FileOf
<1>4. row \in Row(s)
  BY <1>1, <1>2, RowOfFile DEF Row
<1>5. /\ RunsOf(s, row.lines, NN)
      /\ \A j \in DOMAIN row.lines : row.lines[j].by = s \/ Mixed(s, row.lines[j].by)
      /\ row.setting = Setting(s, at[s])
  BY <1>1, <1>2, RowOfFile
<1>6. rows \in Seq(Row(s))
  BY <1>1 DEF Tabled
<1> HIDE DEF row
<1>7. /\ Len(rows) \in Nat /\ DOMAIN rows = 1..Len(rows)
      /\ DOMAIN more = 1..(Len(rows) + 1) /\ Len(more) = Len(rows) + 1
      /\ more \in Seq(Row(s))
      /\ more[Len(rows) + 1] = row
      /\ \A k \in 1..Len(rows) : more[k] = rows[k]
  BY <1>4, <1>6
<1> HIDE DEF more
<1>8. {more[k].setting : k \in DOMAIN more}
        = {rows[k].setting : k \in DOMAIN rows} \cup {row.setting}
  BY <1>7
<1>9. Filled(s)' = Filled(s) \cup {Setting(s, at[s])}
  BY <1>3, <1>5, <1>8 DEF Filled
<1>10. Setting(s, at[s]) \notin Filled(s)
  <2> SUFFICES ASSUME NEW q \in Rows(s), Before(q, at[s]), Setting(s, at[s]) = Setting(s, q)
               PROVE  FALSE
    BY <1>1
  <2>1. q = at[s]
    BY <1>2, SameLoops, Settings
  <2> QED
    BY <1>2, <2>1, Ordered
<1>11. IsFiniteSet(Filled(s)) /\ Len(rows) = Cardinality(Filled(s))
  BY <1>1 DEF Tabled
<1>12. /\ IsFiniteSet(Filled(s)')
       /\ Cardinality(Filled(s)') = Cardinality(Filled(s)) + 1
  BY <1>9, <1>10, <1>11, FS_AddElement
<1>13. ASSUME NEW k \in DOMAIN more
       PROVE  /\ RunsOf(s, more[k].lines, NN)
              /\ \A j \in DOMAIN more[k].lines :
                    more[k].lines[j].by = s \/ Mixed(s, more[k].lines[j].by)
  <2>1. CASE k \in DOMAIN rows
    BY <1>1, <1>7, <2>1 DEF Tabled
  <2>2. CASE k = Len(rows) + 1
    BY <1>5, <1>7, <2>2
  <2> QED
    BY <1>7, <2>1, <2>2
<1> QED
  BY <1>3, <1>7, <1>9, <1>11, <1>12, <1>13

LEMMA GenTableStep == ASSUME LabInv, NEW s \in Scripts, GenTable(s) PROVE LabInv'
<1>1. TypeOK'
  BY DEF LabInv, TypeOK, GenTable
<1>2. Named'
  BY DEF LabInv, Named, GenTable
<1>3. ASSUME NEW r \in Scripts, r # s PROVE InOrder(r)'
  <2>1. /\ pc'[r] = pc[r] /\ at'[r] = at[r] /\ xx'[r] = xx[r] /\ table'[r] = table[r]
        /\ dat' = dat
    BY <1>3 DEF LabInv, TypeOK, GenTable
  <2> QED
    BY <2>1, Others, SameFiles
<1>4. InOrder(s)'
  <2>1. /\ pc[s] = "table" /\ at[s] \in Rows(s) /\ Complete(s)
        /\ Filled(s) = {Setting(s, q) : q \in {r \in Rows(s) : Before(r, at[s])}}
    BY DEF LabInv, InOrder, Tabling, GenTable
  <2>2. at[s] \in Measured(s) /\ Rows(s) = Measured(s)
    BY <2>1, SameLoops
  <2>3. /\ Filled(s)' = Filled(s) \cup {Setting(s, at[s])}
        /\ dat' = dat
    BY OneMoreRow DEF GenTable
  <2>4. \A q \in Measured(s) : RunsOf(s, FileOf(s, q), NN)'
    BY <2>1, <2>3, SameFiles DEF Complete
  <2>5. CASE \E q : First(Left(s, Rows(s)), q) /\ at' = [at EXCEPT ![s] = q] /\ pc' = pc
    <3>1. PICK p : First(Left(s, Rows(s)), p) /\ at' = [at EXCEPT ![s] = p] /\ pc' = pc
      BY <2>5
    <3>2. at'[s] = p /\ pc'[s] = "table"
      BY <2>1, <3>1 DEF LabInv, TypeOK
    <3>3. ASSUME NEW q \in Measured(s)
          PROVE  /\ p \in Measured(s)
                 /\ Before(q, p) <=> q = at[s] \/ Before(q, at[s])
      BY <2>2, <3>1, Advance
    <3>4. Filled(s)' = {Setting(s, q) : q \in {r \in Rows(s) : Before(r, p)}}
      BY <2>1, <2>2, <2>3, <3>3
    <3>5. Tabling(s)'
      BY <2>2, <3>2, <3>3, <3>4 DEF Tabling
    <3>6. Tabled(s)'
      BY <3>2, OneMoreRow DEF Tabled
    <3> QED
      BY <2>4, <3>2, <3>5, <3>6 DEF InOrder, Fresh, Measuring, Complete
  <2>6. CASE Left(s, Rows(s)) = {} /\ pc' = [pc EXCEPT ![s] = "done"] /\ at' = at
    <3>1. pc'[s] = "done"
      BY <2>6 DEF LabInv, TypeOK
    <3>2. \A q \in Measured(s) : q = at[s] \/ Before(q, at[s])
      BY <2>2, <2>6, Advance
    <3>3. Filled(s)' = {Setting(s, q) : q \in Measured(s)}
      BY <2>1, <2>2, <2>3, <3>2
    <3>4. Filled(s)' = Wanted(s)
      BY <3>3, AllWanted
    <3>5. Tabled(s)'
      BY <3>4, OneMoreRow DEF Tabled
    <3> QED
      BY <2>4, <3>1, <3>5 DEF InOrder, Fresh, Measuring, Complete, Tabling
  <2> QED
    BY <2>5, <2>6 DEF GenTable
<1> QED
  BY <1>1, <1>2, <1>3, <1>4 DEF LabInv

-----------------------------------------------------------------------------

\* How many lines of whom are in the files and what is in the tables, wherever the
\* scripts are.
THEOREM LabInvariant == Spec => []LabInv
<1>1. LabInv /\ [Next]_vars => LabInv'
  <2> SUFFICES ASSUME LabInv, [Next]_vars PROVE LabInv'
    OBVIOUS
  <2>1. CASE Next
    BY <2>1, StartStep, TouchStep, RunProgramStep, GenTableStep, HangStep, KillStep DEF Next
  <2>2. CASE UNCHANGED vars
    <3>1. TypeOK' /\ Named'
      BY <2>2 DEF LabInv, TypeOK, Named, vars
    <3>2. \A s \in Scripts : InOrder(s)'
      BY <2>2, Others, SameFiles DEF LabInv, vars, InOrder
    <3> QED
      BY <3>1, <3>2 DEF LabInv
  <2> QED
    BY <2>1, <2>2
<1> QED
  BY <1>1, LabInit, PTL DEF Spec

\* Every row of a table finds its data, no setting has two, and a finished table has
\* one for each combination that makes sense (gen_data and gen_table of the scripts).
THEOREM TableCompleteHolds == Spec => []TableComplete
<1>1. LabInv => TableComplete
  <2> SUFFICES ASSUME LabInv, NEW s \in Scripts
               PROVE  /\ \A k \in DOMAIN table[s] : table[s][k].lines # <<>>
                      /\ Len(table[s]) = Cardinality(Filled(s))
                      /\ pc[s] = "done" => Filled(s) = Wanted(s)
    BY DEF TableComplete
  <2>1. Tabled(s)
    BY DEF LabInv, InOrder
  <2>2. ASSUME NEW k \in DOMAIN table[s] PROVE table[s][k].lines # <<>>
    <3>1. {table[s][k].lines[j].run : j \in Own(s, table[s][k].lines)} = 1..NN
      BY <2>1, <2>2 DEF Tabled, RunsOf
    <3>2. 1 \in 1..NN
      BY ScriptAssumption
    <3>3. PICK j \in Own(s, table[s][k].lines) : TRUE
      BY <3>1, <3>2
    <3> QED
      BY <3>3 DEF Own
  <2> QED
    BY <2>1, <2>2 DEF Tabled
<1> QED
  BY <1>1, LabInvariant, PTL

\* A row holds the script's own NN results in order, and those of others only if they
\* have measured the same thing under the same name (the .dat files that scripts
\* share).
THEOREM RowHasOwnRunsHolds == Spec => []RowHasOwnRuns
<1>1. LabInv => RowHasOwnRuns
  BY DEF LabInv, InOrder, Tabled, RowHasOwnRuns
<1> QED
  BY <1>1, LabInvariant, PTL
=============================================================================
