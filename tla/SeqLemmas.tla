----------------------------- MODULE SeqLemmas -----------------------------
(***************************************************************************)
(* What Append, Head and Tail do to the elements of a sequence, and        *)
(* induction over the natural numbers.                                     *)
(***************************************************************************)
EXTENDS Sequences, Integers, Functions, FiniteSetTheorems, WellFoundedInduction, TLAPS

\* Append adds its element to what a sequence holds.
LEMMA AppendRange ==
  ASSUME NEW S, NEW s \in Seq(S), NEW u \in S
  PROVE  Range(Append(s, u)) = Range(s) \cup {u}
<1>1. /\ DOMAIN Append(s, u) = 1..(Len(s) + 1)
      /\ DOMAIN s = 1..Len(s)
      /\ Len(s) \in Nat
  OBVIOUS
<1>2. \A k \in 1..Len(s) : Append(s, u)[k] = s[k]
  OBVIOUS
<1>3. Append(s, u)[Len(s) + 1] = u
  OBVIOUS
<1>4. 1..(Len(s) + 1) = 1..Len(s) \cup {Len(s) + 1}
  BY <1>1
<1> QED
  BY <1>1, <1>2, <1>3, <1>4 DEF Range

\* A sequence without repetitions stays so when something new is appended.
LEMMA InjectiveAppend ==
  ASSUME NEW S, NEW s \in Seq(S), NEW u \in S, IsInjective(s), u \notin Range(s)
  PROVE  IsInjective(Append(s, u))
<1>1. /\ DOMAIN Append(s, u) = 1..(Len(s) + 1)
      /\ DOMAIN s = 1..Len(s)
      /\ Len(s) \in Nat
  OBVIOUS
<1>2. \A k \in 1..Len(s) : Append(s, u)[k] = s[k] /\ s[k] # u
  BY <1>1 DEF Range
<1>3. Append(s, u)[Len(s) + 1] = u
  OBVIOUS
<1>4. \A j, k \in 1..Len(s) : s[j] = s[k] => j = k
  BY <1>1 DEF IsInjective
<1>5. ASSUME NEW j \in 1..(Len(s) + 1), NEW k \in 1..(Len(s) + 1),
             Append(s, u)[j] = Append(s, u)[k]
      PROVE  j = k
  <2>1. CASE j = Len(s) + 1 /\ k = Len(s) + 1
    BY <2>1
  <2>2. CASE j # Len(s) + 1 /\ k # Len(s) + 1
    <3>1. j \in 1..Len(s) /\ k \in 1..Len(s)
      BY <1>1, <2>2
    <3> QED
      BY <1>2, <1>4, <1>5, <3>1
  <2>3. CASE j = Len(s) + 1 /\ k # Len(s) + 1
    <3>1. k \in 1..Len(s)
      BY <1>1, <2>3
    <3> QED
      BY <1>2, <1>3, <1>5, <2>3, <3>1
  <2>4. CASE j # Len(s) + 1 /\ k = Len(s) + 1
    <3>1. j \in 1..Len(s)
      BY <1>1, <2>4
    <3> QED
      BY <1>2, <1>3, <1>5, <2>4, <3>1
  <2> QED
    BY <2>1, <2>2, <2>3, <2>4
<1> QED
  BY <1>1, <1>5 DEF IsInjective

\* The first element is in the sequence, and only there if nothing repeats; the
\* rest holds everything else, without repetitions.
LEMMA HeadTail ==
  ASSUME NEW S, NEW s \in Seq(S), s # <<>>
  PROVE  /\ Head(s) \in S /\ Head(s) \in Range(s)
         /\ Tail(s) \in Seq(S)
         /\ IsInjective(s) => /\ IsInjective(Tail(s))
                              /\ Range(Tail(s)) = Range(s) \ {Head(s)}
<1>1. /\ Len(s) \in Nat /\ Len(s) # 0
      /\ DOMAIN s = 1..Len(s)
      /\ Tail(s) \in Seq(S)
      /\ DOMAIN Tail(s) = 1..(Len(s) - 1)
      /\ Head(s) = s[1]
  OBVIOUS
<1>2. \A k \in 1..(Len(s) - 1) : Tail(s)[k] = s[k + 1]
  OBVIOUS
<1>3. Head(s) \in S /\ Head(s) \in Range(s)
  BY <1>1 DEF Range
<1>4. ASSUME IsInjective(s)
      PROVE  /\ IsInjective(Tail(s))
             /\ Range(Tail(s)) = Range(s) \ {Head(s)}
  <2>1. \A j, k \in 1..Len(s) : s[j] = s[k] => j = k
    BY <1>1, <1>4 DEF IsInjective
  <2>2. ASSUME NEW j \in 1..(Len(s) - 1), NEW k \in 1..(Len(s) - 1),
               Tail(s)[j] = Tail(s)[k]
        PROVE  j = k
    <3>1. s[j + 1] = s[k + 1] /\ j + 1 \in 1..Len(s) /\ k + 1 \in 1..Len(s)
      BY <1>1, <1>2, <2>2
    <3>2. j + 1 = k + 1
      BY <2>1, <3>1
    <3> QED BY <3>2
  <2>3. ASSUME NEW x \in Range(Tail(s))
        PROVE  x \in Range(s) \ {Head(s)}
    <3>1. PICK k \in 1..(Len(s) - 1) : x = Tail(s)[k]
      BY <1>1, <2>3 DEF Range
    <3>2. k + 1 \in 1..Len(s) /\ 1 \in 1..Len(s) /\ k + 1 # 1 /\ x = s[k + 1]
      BY <1>1, <1>2, <3>1
    <3>3. s[k + 1] # s[1]
      BY <2>1, <3>2
    <3> QED BY <1>1, <3>2, <3>3 DEF Range
  <2>4. ASSUME NEW x \in Range(s), x # Head(s)
        PROVE  x \in Range(Tail(s))
    <3>1. PICK k \in 1..Len(s) : x = s[k]
      BY <1>1, <2>4 DEF Range
    <3>2. k - 1 \in 1..(Len(s) - 1) /\ (k - 1) + 1 = k
      BY <1>1, <2>4, <3>1
    <3>3. x = Tail(s)[k - 1]
      BY <1>2, <3>1, <3>2
    <3> QED BY <1>1, <3>2, <3>3 DEF Range
  <2>5. IsInjective(Tail(s))
    BY <1>1, <2>2 DEF IsInjective
  <2>6. Range(Tail(s)) = Range(s) \ {Head(s)}
    BY <2>3, <2>4
  <2> QED BY <2>5, <2>6
<1> QED BY <1>1, <1>3, <1>4

\* Every element of a sequence is its first or in the rest.
LEMMA TailRange ==
  ASSUME NEW S, NEW s \in Seq(S), s # <<>>
  PROVE  Range(s) = Range(Tail(s)) \cup {Head(s)}
<1>1. /\ Len(s) \in Nat /\ Len(s) # 0
      /\ DOMAIN s = 1..Len(s)
      /\ DOMAIN Tail(s) = 1..(Len(s) - 1)
      /\ Head(s) = s[1]
  OBVIOUS
<1>2. \A k \in 1..(Len(s) - 1) : Tail(s)[k] = s[k + 1] /\ k + 1 \in 1..Len(s)
  BY <1>1
<1>3. \A k \in 2..Len(s) : k - 1 \in 1..(Len(s) - 1) /\ s[k] = Tail(s)[k - 1]
  BY <1>1, <1>2
<1>4. 1..Len(s) = {1} \cup 2..Len(s)
  BY <1>1
<1>5. Range(Tail(s)) \subseteq Range(s) /\ Head(s) \in Range(s)
  BY <1>1, <1>2 DEF Range
<1>6. ASSUME NEW x \in Range(s), x # Head(s)
      PROVE  x \in Range(Tail(s))
  <2>1. PICK k \in 1..Len(s) : x = s[k]
    BY <1>1, <1>6 DEF Range
  <2>2. k \in 2..Len(s)
    BY <1>1, <1>4, <1>6, <2>1
  <2> QED
    BY <1>1, <1>3, <2>1, <2>2 DEF Range
<1> QED
  BY <1>5, <1>6

\* The elements from one position on are the next one and those behind it.
LEMMA ElementsFrom ==
  ASSUME NEW S, NEW s \in Seq(S), NEW n \in Nat
  PROVE  {s[k] : k \in (n + 1)..Len(s)}
           = IF n < Len(s) THEN {s[n + 1]} \cup {s[k] : k \in ((n + 1) + 1)..Len(s)} ELSE {}
<1>1. Len(s) \in Nat
  OBVIOUS
<1>2. CASE n < Len(s)
  <2>1. (n + 1)..Len(s) = {n + 1} \cup ((n + 1) + 1)..Len(s)
    BY <1>1, <1>2
  <2> QED
    BY <1>2, <2>1
<1>3. CASE ~(n < Len(s))
  <2>1. (n + 1)..Len(s) = {}
    BY <1>1, <1>3
  <2> QED
    BY <1>3, <2>1
<1> QED
  BY <1>2, <1>3

\* A sequence holds finitely many elements.
LEMMA RangeFinite ==
  ASSUME NEW S, NEW s \in Seq(S)
  PROVE  IsFiniteSet(Range(s))
<1>1. /\ Len(s) \in Nat
      /\ s \in [1..Len(s) -> S]
      /\ DOMAIN s = 1..Len(s)
  OBVIOUS
<1>2. IsFiniteSet(1..Len(s))
  BY <1>1, FS_Interval
<1>3. s \in Surjection(1..Len(s), Range(s))
  BY <1>1 DEF Range, Surjection
<1> QED
  BY <1>2, <1>3, FS_Surjection

\* Append gives its element one more position, and no other element any.
LEMMA AppendLines ==
  ASSUME NEW S, NEW s \in Seq(S), NEW u \in S, NEW v
  PROVE  {k \in DOMAIN Append(s, u) : Append(s, u)[k] = v}
           = IF u = v THEN {k \in DOMAIN s : s[k] = v} \cup {Len(s) + 1}
                      ELSE {k \in DOMAIN s : s[k] = v}
<1>1. /\ DOMAIN Append(s, u) = 1..(Len(s) + 1)
      /\ DOMAIN s = 1..Len(s)
      /\ Len(s) \in Nat
  OBVIOUS
<1>2. \A k \in 1..Len(s) : Append(s, u)[k] = s[k]
  OBVIOUS
<1>3. Append(s, u)[Len(s) + 1] = u
  OBVIOUS
<1>4. 1..(Len(s) + 1) = 1..Len(s) \cup {Len(s) + 1} /\ Len(s) + 1 \notin 1..Len(s)
  BY <1>1
<1> QED
  BY <1>1, <1>2, <1>3, <1>4

\* A sequence without repetitions is as long as the set of its elements is large.
LEMMA InjectiveLen ==
  ASSUME NEW S, NEW s \in Seq(S), IsInjective(s)
  PROVE  Len(s) = Cardinality(Range(s))
<1>1. /\ Len(s) \in Nat
      /\ s \in [1..Len(s) -> S]
      /\ DOMAIN s = 1..Len(s)
  OBVIOUS
<1> DEFINE n == Len(s)
<1>2. n \in Int /\ n >= 0 /\ 1 \in Int
  BY <1>1
<1>3. s \in Bijection(1..n, Range(s))
  BY <1>1 DEF Range, IsInjective, Bijection, Injection, Surjection
<1> HIDE DEF n
<1>4. IsFiniteSet(1..n) /\ Cardinality(1..n) = IF 1 > n THEN 0 ELSE n - 1 + 1
  BY <1>2, FS_Interval
<1>5. Cardinality(1..n) = n
  BY <1>2, <1>4
<1>6. Cardinality(1..n) = Cardinality(Range(s))
  BY <1>3, <1>4, FS_Bijection DEF ExistsBijection
<1> QED
  BY <1>5, <1>6 DEF n

-----------------------------------------------------------------------------
(* Induction, in terms of a set, from the well-foundedness of <. *)

LEMMA LessWellFounded == IsWellFoundedOn({p \in Nat \X Nat : p[1] < p[2]}, Nat)
BY NatLessThanWellFounded DEF OpToRel

\* A set that holds 0, and with a number the next, holds every natural number.
LEMMA Induction ==
  ASSUME NEW S, 0 \in S, \A n \in Nat : n \in S => n + 1 \in S
  PROVE  Nat \subseteq S
<1> DEFINE R == {p \in Nat \X Nat : p[1] < p[2]}
           U == Nat \ S
<1> SUFFICES ASSUME U # {} PROVE FALSE
  OBVIOUS
<1>1. IsWellFoundedOn(R, Nat)
  BY LessWellFounded
<1>2. U \subseteq Nat
  OBVIOUS
<1>3. PICK x \in U : \A y \in U : ~(<<y, x>> \in R)
  <2> HIDE DEF R, U
  <2> QED
    BY <1>1, <1>2, WFMin
<1>4. x \in Nat /\ x # 0
  OBVIOUS
<1>5. x - 1 \in Nat /\ x - 1 < x /\ (x - 1) + 1 = x
  BY <1>4
<1>6. <<x - 1, x>> \in R
  BY <1>4, <1>5
<1>7. x - 1 \in S
  BY <1>3, <1>5, <1>6
<1> QED
  BY <1>3, <1>5, <1>7

\* A function that starts with x, and of which each value is made of the one before, exists.
LEMMA IteratesExist ==
  ASSUME NEW D, NEW x \in D, NEW N \in Nat, NEW G \in [1..N -> [D -> D]]
  PROVE  \E f \in [0..N -> D] :
            f[0] = x /\ \A n \in 1..N : f[n] = G[n][f[n - 1]]
<1> DEFINE Runs(f, m) == /\ f \in [0..m -> D]
                         /\ f[0] = x
                         /\ \A n \in 1..m : f[n] = G[n][f[n - 1]]
           Has(m) == \E f : Runs(f, m)
           P == {m \in Nat : m <= N => Has(m)}
<1>1. 0 \in P
  <2>1. Runs([n \in 0..0 |-> x], 0)
    OBVIOUS
  <2> HIDE DEF Runs
  <2>2. Has(0)
    BY <2>1
  <2> HIDE DEF Has
  <2> QED
    BY <2>2
<1>2. ASSUME NEW m \in Nat, m \in P
      PROVE  m + 1 \in P
  <2>1. ASSUME m + 1 <= N
        PROVE  Has(m + 1)
    <3>1. Has(m)
      <4> HIDE DEF Has
      <4> QED
        BY <1>2, <2>1
    <3>2. PICK f : Runs(f, m)
      <4> HIDE DEF Runs
      <4> QED
        BY <3>1
    <3> DEFINE g == [n \in 0..(m + 1) |-> IF n <= m THEN f[n] ELSE G[m + 1][f[m]]]
    <3>3. /\ f \in [0..m -> D] /\ f[0] = x
          /\ \A n \in 1..m : f[n] = G[n][f[n - 1]]
      BY <3>2
    <3>4. f[m] \in D /\ G[m + 1][f[m]] \in D
      BY <2>1, <3>3
    <3>5. g \in [0..(m + 1) -> D] /\ g[0] = x
      BY <3>3, <3>4
    <3>6. ASSUME NEW n \in 1..(m + 1)
          PROVE  g[n] = G[n][g[n - 1]]
      <4>1. CASE n <= m
        <5>1. n \in 1..m /\ g[n] = f[n] /\ g[n - 1] = f[n - 1]
          BY <4>1
        <5> QED
          BY <3>3, <5>1
      <4>2. CASE n = m + 1
        <5>1. n - 1 = m /\ g[n] = G[m + 1][f[m]] /\ g[n - 1] = f[m]
          BY <4>2
        <5> QED
          BY <4>2, <5>1
      <4> QED
        BY <4>1, <4>2
    <3>7. Runs(g, m + 1)
      BY <3>5, <3>6
    <3> HIDE DEF Runs
    <3> QED
      BY <3>7
  <2> HIDE DEF Has
  <2> QED
    BY <2>1
<1>3. N \in P
  <2> HIDE DEF P
  <2>1. Nat \subseteq P
    BY <1>1, <1>2, Induction
  <2> QED
    BY <2>1
<1>4. Has(N)
  <2> HIDE DEF Has
  <2> QED
    BY <1>3
<1>5. PICK f : Runs(f, N)
  <2> HIDE DEF Runs
  <2> QED
    BY <1>4
<1> QED
  BY <1>5

\* So do the sums of the first numbers of a sequence, ...
LEMMA SumsExist ==
  ASSUME NEW N \in Nat, NEW x \in [1..N -> Nat]
  PROVE  \E f \in [0..N -> Nat] :
            f = [n \in 0..N |-> IF n = 0 THEN 0 ELSE f[n - 1] + x[n]]
<1> DEFINE D == Nat
           z == 0
           G == [n \in 1..N |-> [y \in D |-> y + x[n]]]
<1>1. G \in [1..N -> [D -> D]] /\ z \in D
  OBVIOUS
<1>2. \E f \in [0..N -> D] : f[0] = z /\ \A n \in 1..N : f[n] = G[n][f[n - 1]]
  <2> HIDE DEF D, z, G
  <2> QED
    BY <1>1, IteratesExist
<1>3. PICK f \in [0..N -> Nat] : f[0] = 0 /\ \A n \in 1..N : f[n] = G[n][f[n - 1]]
  BY <1>2
<1>4. \A n \in 1..N : f[n] = f[n - 1] + x[n]
  <2> TAKE n \in 1..N
  <2>1. f[n - 1] \in Nat
    BY <1>3
  <2>2. f[n] = G[n][f[n - 1]]
    <3> HIDE DEF G
    <3> QED
      BY <1>3
  <2> QED
    BY <2>1, <2>2
<1>5. f = [n \in 0..N |-> IF n = 0 THEN 0 ELSE f[n - 1] + x[n]]
  <2>1. f = [n \in 0..N |-> f[n]]
    BY <1>3
  <2>2. \A n \in 0..N : f[n] = IF n = 0 THEN 0 ELSE f[n - 1] + x[n]
    BY <1>3, <1>4
  <2> HIDE DEF G
  <2> QED
    BY <2>1, <2>2
<1> QED
  BY <1>5

\* ... and grow.
LEMMA SumsGrow ==
  ASSUME NEW N \in Nat, NEW x \in [1..N -> Nat], NEW f \in [0..N -> Nat],
         \A n \in 1..N : f[n] = f[n - 1] + x[n],
         NEW m \in 0..N, NEW n \in 0..N, m <= n
  PROVE  f[m] <= f[n]
<1> DEFINE P == {d \in Nat : m + d <= N => f[m] <= f[m + d]}
<1>1. 0 \in P
  OBVIOUS
<1>2. ASSUME NEW d \in Nat, d \in P
      PROVE  d + 1 \in P
  <2> SUFFICES ASSUME m + (d + 1) <= N PROVE f[m] <= f[m + (d + 1)]
    OBVIOUS
  <2>1. m + d \in 0..N /\ m + (d + 1) \in 1..N /\ (m + (d + 1)) - 1 = m + d
    OBVIOUS
  <2>2. f[m + (d + 1)] = f[m + d] + x[m + (d + 1)]
    BY <2>1
  <2>3. f[m] <= f[m + d] /\ f[m] \in Nat /\ f[m + d] \in Nat /\ x[m + (d + 1)] \in Nat
    BY <1>2, <2>1
  <2> QED
    BY <2>2, <2>3
<1>3. n - m \in P
  <2> HIDE DEF P
  <2>1. Nat \subseteq P
    BY <1>1, <1>2, Induction
  <2>2. n - m \in Nat
    OBVIOUS
  <2> QED
    BY <2>1, <2>2
<1> QED
  BY <1>3
=============================================================================
