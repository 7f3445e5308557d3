-------------------------- MODULE PngTools_proofs ---------------------------
(***************************************************************************)
(* Theorems about the tools of p1 for PNG files.                           *)
(*                                                                         *)
(* Crc: for every message, however long, the value that crc.c computes     *)
(* with its table is the remainder of the standard's division; and         *)
(* messages that differ only within 32 consecutive bits have different     *)
(* CRCs.                                                                   *)
(*                                                                         *)
(* PngInfo: what pnginfo computes is that CRC in every state, and what it  *)
(* says of a file with such damage is right, whatever the pictures and     *)
(* the damage.                                                             *)
(*                                                                         *)
(* FindPng: in any finite tree, whatever order readdir chooses, no path is *)
(* printed twice, and with a descriptor for every entry and for every      *)
(* directory no PNG file is missed.                                        *)
(***************************************************************************)
EXTENDS FindPng, PngInfo, SeqLemmas, SequenceTheorems

-----------------------------------------------------------------------------
(* The CRC: words, messages, and what the operators do to them *)

\* The values of crc.c's unsigned long, of which the low 32 bits are used, and of a byte.
Words == SUBSET Ones
Byte == SUBSET (0..7)

\* Exclusive or, bit by bit.
LEMMA InDiff == ASSUME NEW A, NEW B, NEW e PROVE e \in SymDiff(A, B) <=> ~(e \in A <=> e \in B)
BY DEF SymDiff

\* A shift to the right.
LEMMA ShiftIn ==
  ASSUME NEW c \in Words, NEW k \in Nat
  PROVE  /\ \A b \in Nat : b \in Shift(c, k) <=> b + k \in c
         /\ Shift(c, k) \in Words
BY DEF Words, Ones, Shift

\* A turn of make_crc_table's inner loop, bit by bit: the word is shifted, and the
\* polynomial is in it if bit 0 was set.
LEMMA TurnIn ==
  ASSUME NEW c \in Words
  PROVE  /\ Turn(c) \in Words
         /\ \A b \in Ones : b \in Turn(c) <=>
               ~((0 \in c /\ b \in Polynomial) <=> b + 1 \in c)
<1>1. Polynomial \in Words
  BY DEF Polynomial, Words, Ones
<1>2. /\ \A b \in Ones : b \in Shift(c, 1) <=> b + 1 \in c
      /\ Shift(c, 1) \in Words
  <2>1. 1 \in Nat /\ Ones \subseteq Nat
    BY DEF Ones
  <2> QED
    BY <2>1, ShiftIn
<1> QED
  BY <1>1, <1>2, InDiff DEF Turn, Words, SymDiff

\* The eight turns.
LEMMA Turns ==
  ASSUME NEW byte \in Words
  PROVE  \E t \in [0..8 -> Words] :
            /\ t[0] = byte /\ t[8] = Entry(byte)
            /\ \A k \in 1..8 : t[k] = Turn(t[k - 1])
<1> DEFINE N == 8
           Is(f) == f = [k \in 0..8 |-> IF k = 0 THEN byte ELSE Turn(f[k - 1])]
           G == [k \in 1..N |-> [c \in Words |-> Turn(c)]]
<1>1. G \in [1..N -> [Words -> Words]]
  BY TurnIn
<1>2. PICK f \in [0..N -> Words] : f[0] = byte /\ \A n \in 1..N : f[n] = G[n][f[n - 1]]
  <2>1. N \in Nat
    OBVIOUS
  <2> HIDE DEF G, Is, N
  <2> QED
    BY <1>1, <2>1, IteratesExist
<1>3. Is(f)
  <2>1. \A n \in 0..8 : n # 0 => f[n - 1] \in Words /\ G[n][f[n - 1]] = Turn(f[n - 1])
    BY <1>2
  <2>2. \A n \in 0..8 : f[n] = IF n = 0 THEN byte ELSE Turn(f[n - 1])
    <3> HIDE DEF G
    <3> QED
      BY <1>2, <2>1
  <2>3. f = [n \in 0..8 |-> f[n]]
    BY <1>2
  <2> HIDE DEF G
  <2> QED
    BY <2>2, <2>3
<1> DEFINE t == CHOOSE g : Is(g)
<1>4. Is(t)
  <2> HIDE DEF Is
  <2> QED
    BY <1>3
<1>5. Entry(byte) = t[8]
  BY DEF Entry
<1> HIDE DEF t
<1>6. /\ t[0] = byte
      /\ \A k \in 1..8 : t[k] = Turn(t[k - 1])
      /\ DOMAIN t = 0..8
  BY <1>4
<1>7. \A k \in 0..8 : t[k] \in Words
  <2>1. t[0] \in Words /\ t[1] \in Words /\ t[2] \in Words
    BY <1>6, TurnIn
  <2>2. t[3] \in Words /\ t[4] \in Words /\ t[5] \in Words
    BY <1>6, <2>1, TurnIn
  <2>3. t[6] \in Words /\ t[7] \in Words /\ t[8] \in Words
    BY <1>6, <2>2, TurnIn
  <2> QED
    BY <2>1, <2>2, <2>3
<1>8. t = [k \in 0..8 |-> t[k]]
  BY <1>4
<1> QED
  BY <1>5, <1>6, <1>7, <1>8

\* The bits of a message, in the order of the division.
IsSet(s, q) == q \in 0..(8 * Len(s) - 1) /\ q % 8 \in s[q \div 8 + 1]

\* The coefficients of a message: its bits, the first 32 of them complemented.
LEMMA MessageIn ==
  ASSUME NEW s \in Seq(Byte)
  PROVE  /\ Message(s) \subseteq 0..(8 * Len(s) + 31)
         /\ \A e \in 0..(8 * Len(s) + 31) : e \in Message(s) <=>
               ~(IsSet(s, 8 * Len(s) + 31 - e) <=> 8 * Len(s) + 31 - e \in 0..31)
<1> DEFINE top == 8 * Len(s) + 31
           A == {top - p : p \in {q \in 0..(8 * Len(s) - 1) : q % 8 \in s[q \div 8 + 1]}}
           B == {top - p : p \in 0..31}
<1>1. Len(s) \in Nat
  OBVIOUS
<1>2. A \subseteq 0..top /\ B \subseteq 0..top
  <2>1. ASSUME NEW p \in 0..(8 * Len(s) - 1) PROVE top - p \in 0..top
    BY <1>1
  <2>2. ASSUME NEW p \in 0..31 PROVE top - p \in 0..top
    BY <1>1
  <2> HIDE DEF top
  <2> QED
    BY <2>1, <2>2
<1>3. ASSUME NEW e \in 0..top
      PROVE  e \in A <=> IsSet(s, top - e)
  <2>1. /\ top - e \in Nat /\ top - (top - e) = e
        /\ \A p \in Int : e = top - p <=> p = top - e
    BY <1>1
  <2>2. e \in A <=> \E p \in 0..(8 * Len(s) - 1) : p % 8 \in s[p \div 8 + 1] /\ e = top - p
    OBVIOUS
  <2>3. \A p \in 0..(8 * Len(s) - 1) : p \in Int
    OBVIOUS
  <2> HIDE DEF A, top
  <2> QED
    BY <2>1, <2>2, <2>3 DEF IsSet
<1>4. \A e \in 0..top : e \in B <=> top - e \in 0..31
  BY <1>1
<1>5. Message(s) = SymDiff(A, B)
  BY DEF Message
<1> HIDE DEF A, B
<1>6. \A e : e \in SymDiff(A, B) <=> ~(e \in A <=> e \in B)
  BY DEF SymDiff
<1> HIDE DEF top
<1>7. Message(s) \subseteq 0..top
  BY <1>2, <1>5, <1>6
<1>8. \A e \in 0..top : e \in Message(s) <=> ~(IsSet(s, top - e) <=> top - e \in 0..31)
  BY <1>3, <1>4, <1>5, <1>6
<1> QED
  BY <1>7, <1>8 DEF top

\* A step of the division takes the highest power away and changes the 32 below it by the
\* generator.
LEMMA RemoveIn ==
  ASSUME NEW d \in Nat, d >= 32, NEW poly \in SUBSET (0..d)
  PROVE  /\ Remove(poly, d) \in SUBSET (0..(d - 1))
         /\ \A e \in 0..(d - 1) : e \in Remove(poly, d) <=>
               ~((d \in poly /\ e + 32 - d \in Generator) <=> e \in poly)
<1> DEFINE M == {e + d - 32 : e \in Generator}
<1>1. Generator \subseteq 0..32 /\ 32 \in Generator
  BY DEF Generator
<1>2. M \subseteq 0..d /\ d \in M
  BY <1>1
<1>3. \A e \in 0..d : e \in M <=> e + 32 - d \in Generator
  BY <1>1
<1>4. \A e : e \in SymDiff(poly, M) <=> ~(e \in poly <=> e \in M)
  BY DEF SymDiff
<1>5. CASE d \in poly
  <2>1. Remove(poly, d) = SymDiff(poly, M)
    BY <1>5 DEF Remove
  <2>2. \A e \in 0..(d - 1) : e \in 0..d
    OBVIOUS
  <2>3. \A e \in 0..d : e # d => e \in 0..(d - 1)
    OBVIOUS
  <2> HIDE DEF M
  <2>4. SymDiff(poly, M) \subseteq 0..d /\ d \notin SymDiff(poly, M)
    BY <1>2, <1>4, <1>5
  <2> QED
    BY <1>3, <1>4, <1>5, <2>1, <2>2, <2>3, <2>4
<1>6. CASE d \notin poly
  <2>1. Remove(poly, d) = poly
    BY <1>6 DEF Remove
  <2> QED
    BY <1>6, <2>1
<1> QED
  BY <1>5, <1>6

\* The polynomials of a division: after k steps the k highest powers are gone, and those
\* which no step has come near are as they were.
LEMMA Divided ==
  ASSUME NEW n \in Nat, NEW poly \in SUBSET (0..(8 * n + 31))
  PROVE  \E r \in [0..(8 * n) -> SUBSET Int] :
            /\ r[0] = poly /\ r[8 * n] = Remainder(poly, n)
            /\ \A k \in 1..(8 * n) : r[k] = Remove(r[k - 1], 8 * n + 32 - k)
            /\ \A k \in 0..(8 * n) : r[k] \in SUBSET (0..(8 * n + 31 - k))
            /\ \A k \in 0..(8 * n), e \in Nat : e < 8 * n - k => (e \in r[k] <=> e \in poly)
<1> DEFINE N == 8 * n
           Is(f) == f = [k \in 0..N |-> IF k = 0 THEN poly ELSE Remove(f[k - 1], N + 32 - k)]
           D == SUBSET Int
           G == [k \in 1..N |-> [p \in D |-> Remove(p, N + 32 - k)]]
<1>1. N \in Nat
  OBVIOUS
<1>2. G \in [1..N -> [D -> D]]
  <2>1. ASSUME NEW k \in 1..N, NEW p \in D
        PROVE  Remove(p, N + 32 - k) \in D
    <3> DEFINE d == N + 32 - k
               M == {e + d - 32 : e \in Generator}
    <3>1. Generator \subseteq Int /\ d \in Int
      BY DEF Generator
    <3>2. M \subseteq Int
      <4> HIDE DEF d
      <4> QED
        BY <3>1
    <3>3. SymDiff(p, M) \subseteq Int
      <4> HIDE DEF M
      <4> QED
        BY <3>2 DEF SymDiff
    <3> QED
      BY <3>3 DEF Remove
  <2> HIDE DEF N, D
  <2> QED
    BY <2>1
<1>3. poly \in D
  BY <1>1
<1> HIDE DEF N, D
<1>4. PICK f \in [0..N -> D] : f[0] = poly /\ \A k \in 1..N : f[k] = G[k][f[k - 1]]
  <2> HIDE DEF G, Is
  <2> QED
    BY <1>1, <1>2, <1>3, IteratesExist
<1>5. Is(f)
  <2>1. \A k \in 0..N :
           k # 0 => f[k - 1] \in D /\ k \in 1..N /\ G[k][f[k - 1]] = Remove(f[k - 1], N + 32 - k)
    BY <1>1, <1>4
  <2>2. \A k \in 0..N : f[k] = IF k = 0 THEN poly ELSE Remove(f[k - 1], N + 32 - k)
    <3> HIDE DEF G
    <3> QED
      BY <1>1, <1>4, <2>1
  <2>3. f = [k \in 0..N |-> f[k]]
    BY <1>4
  <2> HIDE DEF G
  <2> QED
    BY <2>2, <2>3
<1> DEFINE r == CHOOSE g : Is(g)
<1>6. Is(r)
  <2> HIDE DEF Is
  <2> QED
    BY <1>5
<1>7. Remainder(poly, n) = r[N]
  BY DEF Remainder, N
<1> HIDE DEF r
<1>8. /\ r[0] = poly
      /\ \A k \in 1..N : r[k] = Remove(r[k - 1], N + 32 - k)
      /\ r = [k \in 0..N |-> r[k]]
  <2>1. \A k \in 0..N : r[k] = IF k = 0 THEN poly ELSE Remove(r[k - 1], N + 32 - k)
    BY <1>6
  <2>2. r = [k \in 0..N |-> r[k]]
    BY <1>6
  <2>3. 0 \in 0..N /\ \A k \in 1..N : k \in 0..N /\ k # 0
    BY <1>1
  <2> HIDE DEF Is
  <2> QED
    BY <2>1, <2>2, <2>3
<1> DEFINE Good(k) == /\ r[k] \in SUBSET (0..(N + 31 - k))
                      /\ \A e \in Nat : e < N - k => (e \in r[k] <=> e \in poly)
           S == {k \in Nat : k <= N => Good(k)}
<1>9. 0 \in S
  BY <1>1, <1>8 DEF N
<1>10. ASSUME NEW k \in Nat, k \in S
       PROVE  k + 1 \in S
  <2> SUFFICES ASSUME k + 1 <= N PROVE Good(k + 1)
    OBVIOUS
  <2> DEFINE d == N + 31 - k
  <2>1. d \in Nat /\ d >= 32 /\ r[k] \in SUBSET (0..d)
    BY <1>1, <1>10
  <2>2. r[k + 1] = Remove(r[k], d)
    <3>1. k + 1 \in 1..N /\ (k + 1) - 1 = k /\ N + 32 - (k + 1) = d
      BY <1>1
    <3> HIDE DEF d
    <3> QED
      BY <1>8, <3>1
  <2>3. /\ r[k + 1] \in SUBSET (0..(d - 1))
        /\ \A e \in 0..(d - 1) : e \in r[k + 1] <=>
              ~((d \in r[k] /\ e + 32 - d \in Generator) <=> e \in r[k])
    <3> HIDE DEF d
    <3> QED
      BY <2>1, <2>2, RemoveIn
  <2>4. d - 1 = N + 31 - (k + 1)
    BY <1>1
  <2>5. ASSUME NEW e \in Nat, e < N - (k + 1)
        PROVE  e \in r[k + 1] <=> e \in poly
    <3>1. e \in 0..(d - 1) /\ e + 32 - d \notin Generator
      BY <1>1, <2>5 DEF Generator
    <3>2. e \in r[k] <=> e \in poly
      BY <1>1, <1>10, <2>5
    <3> QED
      BY <2>3, <3>1, <3>2
  <2> HIDE DEF d
  <2> QED
    BY <2>3, <2>4, <2>5
<1>11. \A k \in 0..N : Good(k)
  <2> HIDE DEF Good
  <2>1. Nat \subseteq S
    <3> HIDE DEF S
    <3> QED
      BY <1>9, <1>10, Induction
  <2> QED
    BY <1>1, <2>1
<1>12. \A k \in 0..N : r[k] \in SUBSET Int
  <2>1. \A k \in 0..N : 0..(N + 31 - k) \subseteq Int
    BY <1>1
  <2> QED
    BY <1>11, <2>1
<1>13. r \in [0..N -> SUBSET Int]
  <2> HIDE DEF S
  <2> QED
    BY <1>8, <1>12
<1> QED
  BY <1>7, <1>8, <1>11, <1>13 DEF N

\* A turn of update_crc's loop looks the entry of the low byte up.
LEMMA UpdateIn ==
  ASSUME NEW c \in Words, NEW byte \in Byte
  PROVE  /\ Update(c, byte) \in Words
         /\ SymDiff(c, byte) \cap (0..7) \in Byte
         /\ Update(c, byte) = SymDiff(Entry(SymDiff(c, byte) \cap (0..7)), Shift(c, 8))
<1> DEFINE low == SymDiff(c, byte) \cap (0..7)
<1>1. low \in Byte /\ low \in Words
  BY DEF Byte, Words, Ones
<1>2. crc_table[low] = Entry(low)
  BY <1>1 DEF crc_table, Byte
<1>3. Entry(low) \in Words
  BY <1>1, Turns
<1>4. Shift(c, 8) \in Words
  BY ShiftIn
<1> HIDE DEF low
<1>5. SymDiff(Entry(low), Shift(c, 8)) \in Words
  BY <1>3, <1>4 DEF SymDiff, Words
<1>6. Update(c, byte) = SymDiff(crc_table[low], Shift(c, 8))
  BY DEF Update, low
<1> QED
  BY <1>1, <1>2, <1>5, <1>6 DEF low

\* The running values of update_crc.
LEMMA Updated ==
  ASSUME NEW s \in Seq(Byte), NEW crc \in Words
  PROVE  \E c \in [0..Len(s) -> Words] :
            /\ c[0] = crc /\ c[Len(s)] = UpdateCrc(crc, s)
            /\ \A n \in 1..Len(s) : c[n] = Update(c[n - 1], s[n])
<1> DEFINE N == Len(s)
           Is(f) == f = [n \in 0..N |-> IF n = 0 THEN crc ELSE Update(f[n - 1], s[n])]
           G == [n \in 1..N |-> [c \in Words |-> Update(c, s[n])]]
<1>1. N \in Nat /\ \A n \in 1..N : s[n] \in Byte
  OBVIOUS
<1> HIDE DEF N
<1>2. G \in [1..N -> [Words -> Words]]
  BY <1>1, UpdateIn
<1>3. PICK f \in [0..N -> Words] : f[0] = crc /\ \A n \in 1..N : f[n] = G[n][f[n - 1]]
  <2>1. N \in Nat
    BY <1>1
  <2> HIDE DEF G, Is
  <2> QED
    BY <1>2, <2>1, IteratesExist
<1>4. Is(f)
  <2>1. \A n \in 0..N :
           n # 0 => f[n - 1] \in Words /\ n \in 1..N /\ G[n][f[n - 1]] = Update(f[n - 1], s[n])
    BY <1>1, <1>3
  <2>2. \A n \in 0..N : f[n] = IF n = 0 THEN crc ELSE Update(f[n - 1], s[n])
    <3> HIDE DEF G
    <3> QED
      BY <1>1, <1>3, <2>1
  <2>3. f = [n \in 0..N |-> f[n]]
    BY <1>3
  <2> HIDE DEF G
  <2> QED
    BY <2>2, <2>3
<1> DEFINE c == CHOOSE g : Is(g)
<1>5. Is(c)
  <2> HIDE DEF Is
  <2> QED
    BY <1>4
<1>6. UpdateCrc(crc, s) = c[N]
  BY DEF UpdateCrc, N
<1> HIDE DEF c
<1>7. /\ c[0] = crc
      /\ \A n \in 1..N : c[n] = Update(c[n - 1], s[n])
      /\ c = [n \in 0..N |-> c[n]]
  <2>1. \A n \in 0..N : c[n] = IF n = 0 THEN crc ELSE Update(c[n - 1], s[n])
    BY <1>5
  <2>2. c = [n \in 0..N |-> c[n]]
    BY <1>5
  <2>3. 0 \in 0..N /\ \A n \in 1..N : n \in 0..N /\ n # 0
    BY <1>1
  <2> HIDE DEF Is
  <2> QED
    BY <2>1, <2>2, <2>3
<1> DEFINE S == {n \in Nat : n <= N => c[n] \in Words}
<1>8. 0 \in S
  BY <1>7
<1>9. ASSUME NEW n \in Nat, n \in S
      PROVE  n + 1 \in S
  <2> SUFFICES ASSUME n + 1 <= N PROVE c[n + 1] \in Words
    OBVIOUS
  <2>1. n + 1 \in 1..N /\ (n + 1) - 1 = n
    BY <1>1
  <2>2. c[n + 1] = Update(c[n], s[n + 1])
    BY <1>7, <2>1
  <2>3. c[n] \in Words /\ s[n + 1] \in Byte
    BY <1>1, <1>9, <2>1
  <2> QED
    BY <2>2, <2>3, UpdateIn
<1>10. \A n \in 0..N : c[n] \in Words
  <2>1. Nat \subseteq S
    <3> HIDE DEF S
    <3> QED
      BY <1>8, <1>9, Induction
  <2> QED
    BY <1>1, <2>1
<1>11. c \in [0..N -> Words]
  <2> HIDE DEF S
  <2> QED
    BY <1>7, <1>10
<1> QED
  BY <1>6, <1>7, <1>11 DEF N

-----------------------------------------------------------------------------
(* The CRC: the table computes the division *)

\* The bits of a byte, in the order of the division.
LEMMA ByteBits ==
  ASSUME NEW s \in Seq(Byte), NEW j \in Nat, j < Len(s), NEW b \in 0..7
  PROVE  IsSet(s, 8 * j + b) <=> b \in s[j + 1]
<1>1. (8 * j + b) % 8 = b /\ (8 * j + b) \div 8 = j
  OBVIOUS
<1>2. 8 * j + b \in 0..(8 * Len(s) - 1)
  OBVIOUS
<1> QED
  BY <1>1, <1>2 DEF IsSet

\* The constant of crc.c is the generator of the standard, the other way round.
LEMMA Flip ==
  ASSUME NEW b \in Ones
  PROVE  31 - b \in Generator <=> b \in Polynomial
<1>1. Generator = {32, 26, 23, 22, 16, 12, 11, 10, 8, 7, 5, 4, 2, 1, 0}
  BY DEF Generator
<1>2. Polynomial = {31, 30, 29, 27, 26, 24, 23, 21, 20, 19, 15, 9, 8, 5}
  BY DEF Polynomial
<1>3. b \in 0..31
  BY DEF Ones
<1> QED
  BY <1>1, <1>2, <1>3

\* One step of the division and one turn of the loop.
LEMMA OneTurn ==
  ASSUME NEW d \in Nat, d >= 32, NEW p \in SUBSET (0..d), NEW t \in Words, NEW rest \in SUBSET Nat,
         0 \notin rest, \A b \in 0..31 : d - b \in p <=> ~(b \in t <=> b \in rest),
         d - 32 \in p <=> 32 \in rest
  PROVE  \A b \in 0..31 : d - 1 - b \in Remove(p, d) <=> ~(b \in Turn(t) <=> b + 1 \in rest)
<1> TAKE b \in 0..31
<1>1. /\ d - 1 - b \in 0..(d - 1)
      /\ d - 1 - b + 32 - d = 31 - b
      /\ d - 1 - b = d - (b + 1)
  OBVIOUS
<1>2. d - 1 - b \in Remove(p, d) <=> ~((d \in p /\ 31 - b \in Generator) <=> d - (b + 1) \in p)
  BY <1>1, RemoveIn
<1>3. d \in p <=> 0 \in t
  <2>1. 0 \in 0..31 /\ d - 0 = d
    OBVIOUS
  <2> QED
    BY <2>1
<1>4. b \in Turn(t) <=> ~((0 \in t /\ b \in Polynomial) <=> b + 1 \in t)
  BY TurnIn DEF Ones
<1>5. d - (b + 1) \in p <=> ~(b + 1 \in t <=> b + 1 \in rest)
  <2>1. CASE b = 31
    <3>1. 32 \notin t
      BY DEF Words, Ones
    <3> QED
      BY <2>1, <3>1
  <2>2. CASE b # 31
    <3>1. b + 1 \in 0..31
      BY <2>2
    <3> QED
      BY <3>1
  <2> QED
    BY <2>1, <2>2
<1>6. 31 - b \in Generator <=> b \in Polynomial
  BY Flip DEF Ones
<1> QED
  BY <1>2, <1>3, <1>4, <1>5, <1>6

\* r is the division of the message s.
IsDivision(s, r) ==
    LET n == Len(s)
    IN  /\ r[0] = Message(s) /\ r[8 * n] = Remainder(Message(s), n)
        /\ \A k \in 1..(8 * n) : r[k] = Remove(r[k - 1], 8 * n + 32 - k)
        /\ \A k \in 0..(8 * n) : r[k] \in SUBSET (0..(8 * n + 31 - k))
        /\ \A k \in 0..(8 * n), e \in Nat : e < 8 * n - k => (e \in r[k] <=> e \in Message(s))

\* Every message has a division.
LEMMA DivisionExists ==
  ASSUME NEW s \in Seq(Byte)
  PROVE  \E r \in [0..(8 * Len(s)) -> SUBSET Int] : IsDivision(s, r)
<1>1. Len(s) \in Nat /\ Message(s) \in SUBSET (0..(8 * Len(s) + 31))
  BY MessageIn
<1> QED
  BY <1>1, Divided DEF IsDivision

\* After k steps, the 32 highest powers left are the running value and the bits to come.
Stands(s, r, k, c) ==
    \A b \in 0..31 : 8 * Len(s) + 31 - k - b \in r[k] <=> ~(b \in c <=> IsSet(s, k + b))

\* After a byte, eight steps of the division and a turn of update_crc's loop, the running
\* value stands for the division again.
LEMMA OneByte ==
  ASSUME NEW s \in Seq(Byte), NEW r, IsDivision(s, r), NEW j \in Nat, j < Len(s),
         NEW c \in Words, Stands(s, r, 8 * j, c)
  PROVE  Stands(s, r, 8 * (j + 1), Update(c, s[j + 1]))
<1>0. 8 * j + 0 = 8 * j
  OBVIOUS
<1> DEFINE n == Len(s)
           byte == s[j + 1]
           low == SymDiff(c, byte) \cap (0..7)
           Rest(i) == {b \in Nat : b + i >= 8 /\ ~(b + i \in c <=> IsSet(s, 8 * j + i + b))}
<1>1. n \in Nat /\ byte \in Byte
  OBVIOUS
<1>2. low \in Words
  BY DEF Words, Ones
<1>3. PICK t \in [0..8 -> Words] :
        /\ t[0] = low /\ t[8] = Entry(low)
        /\ \A k \in 1..8 : t[k] = Turn(t[k - 1])
  <2> HIDE DEF low
  <2> QED
    BY <1>2, Turns
<1> DEFINE Good(i) == \A b \in 0..31 : 8 * n + 31 - (8 * j + i) - b \in r[8 * j + i]
                                          <=> ~(b \in t[i] <=> b \in Rest(i))
<1>4. Good(0)
  <2> SUFFICES ASSUME NEW b \in 0..31
               PROVE  8 * n + 31 - 8 * j - b \in r[8 * j] <=> ~(b \in low <=> b \in Rest(0))
    <3> HIDE DEF low, Rest
    <3> QED
      BY <1>0, <1>3
  <2>1. 8 * n + 31 - 8 * j - b \in r[8 * j] <=> ~(b \in c <=> IsSet(s, 8 * j + b))
    BY DEF Stands
  <2>2. b \in low <=> b \in 0..7 /\ ~(b \in c <=> b \in byte)
    BY DEF SymDiff
  <2>3. b \in Rest(0) <=> b >= 8 /\ ~(b \in c <=> IsSet(s, 8 * j + b))
    <3>1. b \in Nat /\ b + 0 = b /\ 8 * j + 0 + b = 8 * j + b
      OBVIOUS
    <3> QED
      BY <3>1
  <2>4. CASE b \in 0..7
    <3>1. IsSet(s, 8 * j + b) <=> b \in byte
      BY <2>4, ByteBits
    <3>2. ~(b >= 8)
      BY <2>4
    <3> QED
      BY <2>1, <2>2, <2>3, <2>4, <3>1, <3>2
  <2>5. CASE b \notin 0..7
    <3>1. b >= 8
      BY <2>5
    <3> QED
      BY <2>1, <2>2, <2>3, <2>5, <3>1
  <2> QED
    BY <2>4, <2>5
<1>5. ASSUME NEW i \in 0..7, Good(i)
      PROVE  Good(i + 1)
  <2> DEFINE k == 8 * j + i
             d == 8 * n + 31 - k
  <2>1. /\ k \in 0..(8 * n) /\ k + 1 \in 1..(8 * n) /\ (k + 1) - 1 = k
        /\ d \in Nat /\ d >= 32 /\ 8 * n + 32 - (k + 1) = d
        /\ d - 32 \in Nat /\ d - 32 < 8 * n - k /\ d - 32 \in 0..(8 * n + 31)
        /\ 8 * n + 31 - (d - 32) = k + 32 /\ k + 32 \notin 0..31
    <3>1. j + 1 <= n
      BY <1>1
    <3>2. k \in Nat /\ k < 8 * n
      BY <1>1, <3>1
    <3> HIDE DEF k, n
    <3> QED
      BY <1>1, <3>2
  <2>2. k = 8 * j + i /\ 8 * j + (i + 1) = k + 1
    OBVIOUS
  <2>3. d - 1 = 8 * n + 31 - (k + 1)
    BY <2>1
  <2>4. \A b \in 0..31 : d - b \in r[k] <=> ~(b \in t[i] <=> b \in Rest(i))
    <3>1. \A b \in 0..31 : 8 * n + 31 - (8 * j + i) - b \in r[8 * j + i]
                              <=> ~(b \in t[i] <=> b \in Rest(i))
      <4> HIDE DEF Rest, n
      <4> QED
        BY <1>5
    <3>2. \A b \in 0..31 : d - b = 8 * n + 31 - (8 * j + i) - b
      BY <1>1
    <3> HIDE DEF Rest, n, Good, d
    <3> QED
      BY <3>1, <3>2
  <2> HIDE DEF k, d
  <2>5. r[k + 1] = Remove(r[k], d)
    BY <2>1 DEF IsDivision
  <2>6. r[k] \in SUBSET (0..d)
    BY <2>1 DEF IsDivision, d
  <2>7. d - 32 \in r[k] <=> 32 \in Rest(i)
    <3>1. d - 32 \in r[k] <=> d - 32 \in Message(s)
      BY <2>1 DEF IsDivision
    <3>2. d - 32 \in Message(s) <=> IsSet(s, k + 32)
      BY <2>1, MessageIn
    <3>3. 32 + i >= 8 /\ 32 + i \notin c /\ 8 * j + i + 32 = k + 32
      BY <2>2 DEF Words, Ones
    <3> QED
      BY <3>1, <3>2, <3>3
  <2>8. /\ Rest(i) \in SUBSET Nat /\ 0 \notin Rest(i)
        /\ \A b \in 0..31 : b + 1 \in Rest(i) <=> b \in Rest(i + 1)
    <3>1. \A b \in 0..31 : /\ b + 1 + i = b + (i + 1) /\ 8 * j + i + (b + 1) = 8 * j + (i + 1) + b
                           /\ b + 1 \in Nat /\ b \in Nat
      OBVIOUS
    <3>2. 0 \notin Rest(i)
      OBVIOUS
    <3> QED
      BY <3>1, <3>2
  <2>9. t[i] \in Words /\ t[i + 1] = Turn(t[i])
    <3>1. i + 1 \in 1..8 /\ (i + 1) - 1 = i /\ i \in 0..8
      OBVIOUS
    <3> QED
      BY <1>3, <3>1
  <2> HIDE DEF Rest
  <2>10. \A b \in 0..31 :
            d - 1 - b \in Remove(r[k], d) <=> ~(b \in Turn(t[i]) <=> b + 1 \in Rest(i))
    <3> DEFINE p == r[k]
               u == t[i]
               rest == Rest(i)
    <3>1. /\ d \in Nat /\ d >= 32 /\ p \in SUBSET (0..d) /\ u \in Words
          /\ rest \in SUBSET Nat /\ 0 \notin rest
          /\ d - 32 \in p <=> 32 \in rest
      BY <2>1, <2>6, <2>7, <2>8, <2>9
    <3>2. \A b \in 0..31 : d - b \in p <=> ~(b \in u <=> b \in rest)
      BY <2>4
    <3> HIDE DEF p, u, rest
    <3>3. \A b \in 0..31 : d - 1 - b \in Remove(p, d) <=> ~(b \in Turn(u) <=> b + 1 \in rest)
      BY <3>1, <3>2, OneTurn
    <3> QED
      BY <3>3 DEF p, u, rest
  <2>11. \A b \in 0..31 : 8 * n + 31 - (k + 1) - b \in r[k + 1]
                              <=> ~(b \in t[i + 1] <=> b \in Rest(i + 1))
    <3> TAKE b \in 0..31
    <3>1. 8 * n + 31 - (k + 1) - b = d - 1 - b
      BY <1>1, <2>1, <2>3
    <3>2. d - 1 - b \in r[k + 1] <=> ~(b \in t[i + 1] <=> b \in Rest(i + 1))
      BY <2>5, <2>8, <2>9, <2>10
    <3> QED
      BY <3>1, <3>2
  <2> QED
    BY <2>2, <2>11
<1>6. Good(8)
  <2> HIDE DEF Good
  <2>1. Good(1) /\ Good(2)
    BY <1>4, <1>5
  <2>2. Good(3) /\ Good(4)
    BY <1>5, <2>1
  <2>3. Good(5) /\ Good(6)
    BY <1>5, <2>2
  <2>4. Good(7)
    BY <1>5, <2>3
  <2> QED
    BY <1>5, <2>4
<1>7. ASSUME NEW b \in 0..31
      PROVE  ~(b \in t[8] <=> b \in Rest(8))
                <=> ~(b \in Update(c, byte) <=> IsSet(s, 8 * (j + 1) + b))
  <2>1. b \in Update(c, byte) <=> ~(b \in t[8] <=> b + 8 \in c)
    <3>1. Update(c, byte) = SymDiff(t[8], Shift(c, 8))
      BY <1>1, <1>3, UpdateIn
    <3>2. b \in Shift(c, 8) <=> b + 8 \in c
      BY ShiftIn
    <3> QED
      BY <3>1, <3>2 DEF SymDiff
  <2>2. b \in Rest(8) <=> ~(b + 8 \in c <=> IsSet(s, 8 * (j + 1) + b))
    <3>1. 8 * j + 8 + b = 8 * (j + 1) + b /\ b + 8 >= 8 /\ b \in Nat
      OBVIOUS
    <3> QED
      BY <3>1
  <2> QED
    BY <2>1, <2>2
<1>8. 8 * j + 8 = 8 * (j + 1)
  OBVIOUS
<1> HIDE DEF Rest, byte
<1> QED
  BY <1>6, <1>7, <1>8 DEF Stands, byte

\* The CRC of crc.c is the one of the standard: for every sequence of bytes, of whatever
\* length, update_crc with the table of make_crc_table (crc.c:22-53) computes the remainder
\* of the polynomial division.
THEOREM TableDivides ==
  ASSUME NEW s \in Seq(Byte)
  PROVE  UpdateCrc(Ones, s) = Reference(s)
<1> DEFINE n == Len(s)
<1>1. n \in Nat /\ \A j \in 1..n : s[j] \in Byte
  OBVIOUS
<1>2. PICK r \in [0..(8 * n) -> SUBSET Int] : IsDivision(s, r)
  BY DivisionExists
<1>3. PICK c \in [0..n -> Words] :
        /\ c[0] = Ones /\ c[n] = UpdateCrc(Ones, s)
        /\ \A k \in 1..n : c[k] = Update(c[k - 1], s[k])
  <2>1. Ones \in Words
    BY DEF Words
  <2> QED
    BY <2>1, Updated
<1>4. Stands(s, r, 0, Ones)
  <2> SUFFICES ASSUME NEW b \in 0..31
               PROVE  8 * n + 31 - b \in Message(s) <=> ~(b \in Ones <=> IsSet(s, b))
    <3>1. r[0] = Message(s)
      BY <1>2 DEF IsDivision
    <3>2. \A b \in 0..31 : 8 * n + 31 - 0 - b = 8 * n + 31 - b /\ 0 + b = b
      BY <1>1
    <3> QED
      BY <3>1, <3>2 DEF Stands
  <2>1. 8 * n + 31 - b \in 0..(8 * n + 31) /\ 8 * n + 31 - (8 * n + 31 - b) = b
    BY <1>1
  <2> HIDE DEF n
  <2> QED
    BY <2>1, MessageIn DEF Ones, n
<1> DEFINE S == {j \in Nat : j <= n => Stands(s, r, 8 * j, c[j])}
<1>5. 0 \in S
  <2>1. 8 * 0 = 0
    OBVIOUS
  <2> QED
    BY <1>3, <1>4, <2>1
<1>6. ASSUME NEW j \in Nat, j \in S
      PROVE  j + 1 \in S
  <2> SUFFICES ASSUME j + 1 <= n PROVE Stands(s, r, 8 * (j + 1), c[j + 1])
    OBVIOUS
  <2>1. /\ j < n /\ j \in 0..n /\ j + 1 \in 1..n /\ (j + 1) - 1 = j
        /\ Stands(s, r, 8 * j, c[j])
    BY <1>1, <1>6
  <2>2. c[j] \in Words /\ c[j + 1] = Update(c[j], s[j + 1])
    BY <1>3, <2>1
  <2> QED
    BY <1>2, <2>1, <2>2, OneByte
<1>7. n \in S
  <2> HIDE DEF S, n
  <2>1. Nat \subseteq S
    BY <1>5, <1>6, Induction
  <2> QED
    BY <1>1, <2>1
<1>8. Stands(s, r, 8 * n, c[n])
  BY <1>1, <1>7
<1>9. c[n] \in Words /\ r[8 * n] \in SUBSET (0..31) /\ r[8 * n] = Remainder(Message(s), n)
  <2>1. n \in 0..n /\ 8 * n \in 0..(8 * n) /\ 8 * n + 31 - 8 * n = 31
    BY <1>1
  <2> QED
    BY <1>2, <1>3, <2>1 DEF IsDivision
<1>10. \A b \in 0..31 : 31 - b \in r[8 * n] <=> b \in c[n]
  <2>1. ASSUME NEW b \in 0..31
        PROVE  8 * n + 31 - 8 * n - b = 31 - b /\ ~IsSet(s, 8 * n + b)
    <3>1. 8 * n + 31 - 8 * n - b = 31 - b /\ 8 * n + b \notin 0..(8 * n - 1)
      BY <1>1
    <3> QED
      BY <3>1 DEF IsSet
  <2> QED
    BY <1>8, <2>1 DEF Stands
<1>11. Reference(s) = {31 - e : e \in r[8 * n]}
  BY <1>9 DEF Reference
<1>12. \A b : b \in Reference(s) <=> b \in c[n]
  <2>1. \A b \in Reference(s) : b \in 0..31 /\ 31 - b \in r[8 * n]
    <3> TAKE b \in Reference(s)
    <3>1. PICK e \in r[8 * n] : b = 31 - e
      <4> HIDE DEF n
      <4> QED
        BY <1>11
    <3>2. e \in 0..31
      BY <1>9
    <3>3. b \in 0..31 /\ 31 - b = e
      BY <3>1, <3>2
    <3> HIDE DEF n
    <3> QED
      BY <3>1, <3>3
  <2>2. \A b \in 0..31 : 31 - b \in r[8 * n] => b \in Reference(s)
    <3>1. \A b \in 0..31 : 31 - (31 - b) = b
      OBVIOUS
    <3> HIDE DEF n
    <3> QED
      BY <1>11, <3>1
  <2>3. \A b \in c[n] : b \in 0..31
    BY <1>9 DEF Words, Ones
  <2> QED
    BY <1>10, <2>1, <2>2, <2>3
<1> QED
  BY <1>3, <1>12

-----------------------------------------------------------------------------
(* The CRC: bursts *)

\* Two messages differ only in the 32 bits from bit a on.
Burst(s, t, a) ==
    /\ Len(s) = Len(t) /\ s # t
    /\ \A q \in Nat : ~(IsSet(s, q) <=> IsSet(t, q)) => q \in a..(a + 31)

\* The difference of two divisions at the bit q, counted as in the message.
Differ(r, u, n, q) == ~(8 * n + 31 - q \in r <=> 8 * n + 31 - q \in u)

\* Messages that are not the same differ in a bit.
LEMMA SomeBit ==
  ASSUME NEW s \in Seq(Byte), NEW t \in Seq(Byte), Len(s) = Len(t), s # t
  PROVE  \E q \in 0..(8 * Len(s) - 1) : ~(IsSet(s, q) <=> IsSet(t, q))
<1>1. PICK k \in 1..Len(s) : s[k] # t[k]
  OBVIOUS
<1>2. s[k] \in Byte /\ t[k] \in Byte
  OBVIOUS
<1>3. PICK b \in 0..7 : ~(b \in s[k] <=> b \in t[k])
  BY <1>1, <1>2 DEF Byte
<1> DEFINE j == k - 1
<1>4. j \in Nat /\ j < Len(s) /\ j + 1 = k /\ 8 * j + b \in 0..(8 * Len(s) - 1)
  OBVIOUS
<1> HIDE DEF j
<1>5. IsSet(s, 8 * j + b) <=> b \in s[k]
  BY <1>4, ByteBits
<1>6. IsSet(t, 8 * j + b) <=> b \in t[k]
  BY <1>4, ByteBits
<1> QED
  BY <1>3, <1>4, <1>5, <1>6

\* A step of the division takes the difference at bit k away, and spreads it over the
\* 32 bits behind.
LEMMA StepDiffers ==
  ASSUME NEW n \in Nat, NEW k \in Nat, k < 8 * n,
         NEW r \in SUBSET (0..(8 * n + 31 - k)), NEW u \in SUBSET (0..(8 * n + 31 - k)),
         NEW q \in 0..(8 * n + 31)
  PROVE  Differ(Remove(r, 8 * n + 31 - k), Remove(u, 8 * n + 31 - k), n, q)
            <=> /\ q > k
                /\ ~(Differ(r, u, n, q) <=> Differ(r, u, n, k) /\ 32 - (q - k) \in Generator)
<1> DEFINE d == 8 * n + 31 - k
           e == 8 * n + 31 - q
<1>1. d \in Nat /\ d >= 32 /\ e \in Nat /\ e + 32 - d = 32 - (q - k)
  OBVIOUS
<1>2. q > k <=> e \in 0..(d - 1)
  OBVIOUS
<1>3. r \in SUBSET (0..d) /\ u \in SUBSET (0..d)
  OBVIOUS
<1> HIDE DEF d, e
<1>4. CASE q > k
  <2>1. e \in Remove(r, d) <=> ~((d \in r /\ 32 - (q - k) \in Generator) <=> e \in r)
    BY <1>1, <1>2, <1>3, <1>4, RemoveIn
  <2>2. e \in Remove(u, d) <=> ~((d \in u /\ 32 - (q - k) \in Generator) <=> e \in u)
    BY <1>1, <1>2, <1>3, <1>4, RemoveIn
  <2> QED
    BY <1>4, <2>1, <2>2 DEF Differ, d, e
<1>5. CASE ~(q > k)
  <2>1. e \notin Remove(r, d) /\ e \notin Remove(u, d)
    BY <1>1, <1>2, <1>3, <1>5, RemoveIn
  <2> QED
    BY <1>5, <2>1 DEF Differ, d, e
<1> QED
  BY <1>4, <1>5

\* What the CRC is for: messages of the same length that differ, but only within 32
\* consecutive bits, have different CRCs, so that crc_check (lab_png.c:128-155) sees the damage.
THEOREM BurstsDetected ==
  ASSUME NEW s \in Seq(Byte), NEW t \in Seq(Byte), NEW a \in Nat, Burst(s, t, a)
  PROVE  CrcOf(s) # CrcOf(t)
<1> DEFINE n == Len(s)
<1>1. n \in Nat /\ Len(t) = n
  BY DEF Burst
<1>2. PICK r \in [0..(8 * n) -> SUBSET Int] : IsDivision(s, r)
  BY DivisionExists
<1>3. PICK u \in [0..(8 * n) -> SUBSET Int] : IsDivision(t, u)
  <2> HIDE DEF n
  <2> QED
    BY <1>1, DivisionExists
<1> DEFINE Low(k) == IF k <= a THEN a ELSE k
           Good(k) == /\ \E q \in 0..(8 * n + 31) : Differ(r[k], u[k], n, q)
                      /\ \A q \in 0..(8 * n + 31) :
                            Differ(r[k], u[k], n, q) => q \in Low(k)..(Low(k) + 31)
           S == {k \in Nat : k <= 8 * n => Good(k)}
<1>4. 0 \in S
  <2>1. r[0] = Message(s) /\ u[0] = Message(t)
    BY <1>2, <1>3 DEF IsDivision
  <2>2. ASSUME NEW q \in 0..(8 * n + 31)
        PROVE  Differ(r[0], u[0], n, q) <=> ~(IsSet(s, q) <=> IsSet(t, q))
    <3>1. 8 * n + 31 - q \in 0..(8 * n + 31) /\ 8 * n + 31 - (8 * n + 31 - q) = q
      BY <1>1
    <3>2. 8 * n + 31 - q \in Message(s) <=> ~(IsSet(s, q) <=> q \in 0..31)
      <4> HIDE DEF n
      <4> QED
        BY <3>1, MessageIn DEF n
    <3>3. 8 * n + 31 - q \in Message(t) <=> ~(IsSet(t, q) <=> q \in 0..31)
      <4> HIDE DEF n
      <4> QED
        BY <1>1, <3>1, MessageIn
    <3> QED
      BY <2>1, <3>2, <3>3 DEF Differ
  <2>3. PICK q \in 0..(8 * n - 1) : ~(IsSet(s, q) <=> IsSet(t, q))
    BY SomeBit DEF Burst
  <2>4. \E x \in 0..(8 * n + 31) : Differ(r[0], u[0], n, x)
    <3>1. q \in 0..(8 * n + 31)
      BY <1>1
    <3> QED
      BY <2>2, <2>3, <3>1
  <2>5. Low(0) = a
    OBVIOUS
  <2>6. \A x \in 0..(8 * n + 31) : Differ(r[0], u[0], n, x) => x \in a..(a + 31)
    <3>1. \A x \in 0..(8 * n + 31) : x \in Nat
      BY <1>1
    <3> QED
      BY <2>2, <3>1 DEF Burst
  <2> HIDE DEF n, Low
  <2> QED
    BY <2>4, <2>5, <2>6
<1>5. ASSUME NEW k \in Nat, k \in S
      PROVE  k + 1 \in S
  <2> SUFFICES ASSUME k + 1 <= 8 * n PROVE Good(k + 1)
    OBVIOUS
  <2>1. /\ k < 8 * n /\ k \in 0..(8 * n) /\ k + 1 \in 1..(8 * n) /\ (k + 1) - 1 = k
        /\ 8 * n + 32 - (k + 1) = 8 * n + 31 - k
    BY <1>1
  <2>2. Good(k)
    BY <1>5, <2>1
  <2>3. /\ r[k + 1] = Remove(r[k], 8 * n + 31 - k)
        /\ u[k + 1] = Remove(u[k], 8 * n + 31 - k)
        /\ r[k] \in SUBSET (0..(8 * n + 31 - k))
        /\ u[k] \in SUBSET (0..(8 * n + 31 - k))
    <3> HIDE DEF n
    <3> QED
      BY <1>1, <1>2, <1>3, <2>1 DEF IsDivision, n
  <2> DEFINE Now(q) == Differ(r[k], u[k], n, q)
             Then(q) == Differ(r[k + 1], u[k + 1], n, q)
  <2>4. \A q \in 0..(8 * n + 31) : Then(q) <=>
           q > k /\ ~(Now(q) <=> Now(k) /\ 32 - (q - k) \in Generator)
    <3> DEFINE v == r[k]
               w == u[k]
    <3>1. v \in SUBSET (0..(8 * n + 31 - k)) /\ w \in SUBSET (0..(8 * n + 31 - k))
      BY <2>3
    <3> HIDE DEF n, v, w
    <3>2. \A q \in 0..(8 * n + 31) :
             Differ(Remove(v, 8 * n + 31 - k), Remove(w, 8 * n + 31 - k), n, q)
                <=> /\ q > k
                    /\ ~(Differ(v, w, n, q) <=> Differ(v, w, n, k) /\ 32 - (q - k) \in Generator)
      BY <1>1, <2>1, <3>1, StepDiffers
    <3> QED
      BY <2>3, <3>2 DEF v, w
  <2>5. \A q \in 0..(8 * n + 31) : Now(q) => q >= k
    <3> TAKE q \in 0..(8 * n + 31)
    <3> HAVE Now(q)
    <3>1. 8 * n + 31 - q \in 0..(8 * n + 31 - k)
      BY <2>3 DEF Differ
    <3> QED
      BY <1>1, <3>1
  <2> HIDE DEF Now, Then
  <2>6. CASE ~Now(k)
    <3>1. PICK q \in 0..(8 * n + 31) : Now(q)
      BY <2>2 DEF Now
    <3>2. q > k
      BY <1>1, <2>5, <2>6, <3>1
    <3>3. Then(q)
      BY <2>4, <2>6, <3>1, <3>2
    <3>4. ASSUME NEW x \in 0..(8 * n + 31), Then(x)
          PROVE  x \in Low(k + 1)..(Low(k + 1) + 31)
      <4>1. x > k /\ Now(x)
        BY <2>4, <2>6, <3>4
      <4>2. x \in Low(k)..(Low(k) + 31)
        BY <2>2, <4>1 DEF Now
      <4> QED
        BY <1>1, <4>1, <4>2
    <3> HIDE DEF Low
    <3> QED
      BY <3>3, <3>4 DEF Then
  <2>7. CASE Now(k)
    <3>1. Low(k) = k
      <4>1. k \in 0..(8 * n + 31)
        BY <1>1, <2>1
      <4>2. k \in Low(k)..(Low(k) + 31)
        BY <2>2, <2>7, <4>1 DEF Now
      <4> QED
        BY <4>2
    <3>2. \A x \in 0..(8 * n + 31) : Now(x) => x \in k..(k + 31)
      BY <2>2, <3>1 DEF Now
    <3>3. k + 32 \in 0..(8 * n + 31) /\ ~Now(k + 32)
      <4>1. k + 32 \in 0..(8 * n + 31) /\ k + 32 \notin k..(k + 31)
        BY <1>1, <2>1
      <4> QED
        BY <3>2, <4>1
    <3>4. Then(k + 32)
      <4>1. k + 32 > k /\ 32 - ((k + 32) - k) \in Generator
        BY DEF Generator
      <4> QED
        BY <2>4, <2>7, <3>3, <4>1
    <3>5. ASSUME NEW x \in 0..(8 * n + 31), Then(x)
          PROVE  x \in Low(k + 1)..(Low(k + 1) + 31)
      <4>1. x > k /\ (Now(x) \/ 32 - (x - k) \in Generator)
        BY <2>4, <3>5
      <4>2. x \in (k + 1)..(k + 32)
        <5>1. CASE Now(x)
          <6>1. x \in k..(k + 31)
            BY <3>2, <5>1
          <6> QED
            BY <4>1, <6>1
        <5>2. CASE 32 - (x - k) \in Generator
          <6>1. Generator \subseteq 0..32
            BY DEF Generator
          <6>2. 32 - (x - k) >= 0
            BY <5>2, <6>1
          <6> QED
            BY <1>1, <4>1, <6>2
        <5> QED
          BY <4>1, <5>1, <5>2
      <4>3. Low(k + 1) = k + 1
        BY <3>1
      <4> QED
        BY <4>2, <4>3
    <3> HIDE DEF Low
    <3> QED
      BY <3>3, <3>4, <3>5 DEF Then
  <2> QED
    BY <2>6, <2>7
<1>6. r[8 * n] # u[8 * n]
  <2>1. Nat \subseteq S
    <3> HIDE DEF S
    <3> QED
      BY <1>4, <1>5, Induction
  <2>2. Good(8 * n)
    <3> HIDE DEF Good
    <3>1. 8 * n \in Nat /\ 8 * n <= 8 * n
      BY <1>1
    <3> QED
      BY <2>1, <3>1
  <2> QED
    BY <2>2 DEF Differ
<1>7. Reference(s) # Reference(t)
  <2>1. /\ r[8 * n] \in SUBSET (0..31) /\ r[8 * n] = Remainder(Message(s), n)
        /\ u[8 * n] \in SUBSET (0..31) /\ u[8 * n] = Remainder(Message(t), n)
    <3>1. 8 * n \in 0..(8 * n) /\ 8 * n + 31 - 8 * n = 31
      BY <1>1
    <3> QED
      BY <1>1, <1>2, <1>3, <3>1 DEF IsDivision
  <2>2. Reference(s) = {31 - e : e \in r[8 * n]} /\ Reference(t) = {31 - e : e \in u[8 * n]}
    BY <1>1, <2>1 DEF Reference
  <2> DEFINE v == r[8 * n]
             w == u[8 * n]
  <2>3. v \in SUBSET (0..31) /\ w \in SUBSET (0..31) /\ v # w
    BY <1>6, <2>1
  <2> HIDE DEF v, w
  <2>4. {31 - e : e \in v} # {31 - e : e \in w}
    <3>1. \A x \in SUBSET (0..31), f \in 0..31 : f \in x <=> 31 - f \in {31 - e : e \in x}
      <4> TAKE x \in SUBSET (0..31), f \in 0..31
      <4>1. \A e \in x : 31 - e = 31 - f => e = f
        OBVIOUS
      <4> QED
        BY <4>1
    <3>2. PICK f \in 0..31 : ~(f \in v <=> f \in w)
      BY <2>3
    <3> QED
      BY <2>3, <3>1, <3>2
  <2> QED
    BY <2>2, <2>4 DEF v, w
<1>8. UpdateCrc(Ones, s) # UpdateCrc(Ones, t)
  BY <1>7, TableDivides
<1> QED
  BY <1>8 DEF CrcOf, SymDiff

-----------------------------------------------------------------------------
(* pnginfo: bytes, words and the file *)

\* A part of a message.
LEMMA Part ==
  ASSUME NEW s \in Seq(Byte), NEW m \in Nat, NEW n \in Nat, 1 <= m, m <= n + 1, n <= Len(s)
  PROVE  /\ SubSeq(s, m, n) \in Seq(Byte) /\ Len(SubSeq(s, m, n)) = n + 1 - m
         /\ \A k \in 1..(n + 1 - m) : SubSeq(s, m, n)[k] = s[m + k - 1]
<1>1. \A k \in m..n : s[k] \in Byte
  <2>1. \A k \in m..n : k \in 1..Len(s)
    OBVIOUS
  <2> QED
    BY <2>1
<1>2. /\ SubSeq(s, m, n) \in Seq(Byte)
      /\ Len(SubSeq(s, m, n)) = IF m <= n THEN n - m + 1 ELSE 0
      /\ \A k \in 1..(n - m + 1) : SubSeq(s, m, n)[k] = s[m + k - 1]
  BY <1>1, SubSeqProperties
<1> QED
  BY <1>2

\* UpdateCrc goes on where it was.
LEMMA UpdateNext ==
  ASSUME NEW s \in Seq(Byte), NEW n \in 0..(Len(s) - 1), NEW crc \in Words
  PROVE  /\ UpdateCrc(crc, SubSeq(s, 1, 0)) = crc
         /\ UpdateCrc(crc, SubSeq(s, 1, n)) \in Words
         /\ UpdateCrc(crc, SubSeq(s, 1, n + 1)) = Update(UpdateCrc(crc, SubSeq(s, 1, n)), s[n + 1])
<1> DEFINE u == SubSeq(s, 1, n)
           v == SubSeq(s, 1, n + 1)
           z == SubSeq(s, 1, 0)
<1>1. /\ u \in Seq(Byte) /\ Len(u) = n /\ v \in Seq(Byte) /\ Len(v) = n + 1
      /\ z \in Seq(Byte) /\ Len(z) = 0
      /\ n \in Nat /\ v[n + 1] = s[n + 1]
      /\ \A k \in 1..n : u[k] = v[k]
  <2>1. Len(s) \in Nat /\ n \in Nat /\ n + 1 \in Nat /\ n + 1 <= Len(s)
    OBVIOUS
  <2>2. z \in Seq(Byte) /\ Len(z) = 0
    BY <2>1, Part
  <2>3. u \in Seq(Byte) /\ Len(u) = n /\ \A k \in 1..n : u[k] = s[k]
    BY <2>1, Part
  <2>4. v \in Seq(Byte) /\ Len(v) = n + 1 /\ \A k \in 1..(n + 1) : v[k] = s[k]
    <3>1. 1 \in Nat /\ 1 <= n + 2 /\ n + 1 + 1 - 1 = n + 1 /\ \A k \in 1..(n + 1) : 1 + k - 1 = k
      BY <2>1
    <3> QED
      BY <2>1, <3>1, Part
  <2>5. n + 1 \in 1..(n + 1) /\ \A k \in 1..n : k \in 1..(n + 1)
    BY <2>1
  <2> HIDE DEF u, v, z
  <2> QED
    BY <2>1, <2>2, <2>3, <2>4, <2>5
<1> HIDE DEF u, v, z
<1>2. PICK c \in [0..Len(u) -> Words] :
        /\ c[0] = crc /\ c[Len(u)] = UpdateCrc(crc, u)
        /\ \A k \in 1..Len(u) : c[k] = Update(c[k - 1], u[k])
  BY <1>1, Updated
<1>3. PICK e \in [0..Len(v) -> Words] :
        /\ e[0] = crc /\ e[Len(v)] = UpdateCrc(crc, v)
        /\ \A k \in 1..Len(v) : e[k] = Update(e[k - 1], v[k])
  BY <1>1, Updated
<1>4. UpdateCrc(crc, z) = crc
  <2>1. PICK f \in [0..Len(z) -> Words] :
          /\ f[0] = crc /\ f[Len(z)] = UpdateCrc(crc, z)
          /\ \A k \in 1..Len(z) : f[k] = Update(f[k - 1], z[k])
    BY <1>1, Updated
  <2> QED
    BY <1>1, <2>1
<1> DEFINE S == {k \in Nat : k <= n => c[k] = e[k]}
<1>5. 0 \in S
  BY <1>2, <1>3
<1>6. ASSUME NEW k \in Nat, k \in S
      PROVE  k + 1 \in S
  <2> SUFFICES ASSUME k + 1 <= n PROVE c[k + 1] = e[k + 1]
    OBVIOUS
  <2>1. /\ k + 1 \in 1..Len(u) /\ k + 1 \in 1..Len(v) /\ k + 1 \in 1..n /\ (k + 1) - 1 = k
        /\ c[k] = e[k]
    <3>1. Len(u) = n /\ Len(v) = n + 1 /\ n \in Nat
      BY <1>1
    <3> HIDE DEF S
    <3>2. k + 1 \in 1..Len(u) /\ k + 1 \in 1..Len(v) /\ k + 1 \in 1..n /\ (k + 1) - 1 = k
      BY <3>1
    <3>3. c[k] = e[k]
      BY <1>6, <3>1 DEF S
    <3> QED
      BY <3>2, <3>3
  <2> QED
    BY <1>1, <1>2, <1>3, <2>1
<1>7. c[n] = e[n]
  <2>1. Nat \subseteq S
    <3> HIDE DEF S
    <3> QED
      BY <1>5, <1>6, Induction
  <2> QED
    BY <1>1, <2>1
<1>8. e[n + 1] = Update(e[n], v[n + 1])
  <2>1. n + 1 \in 1..Len(v) /\ (n + 1) - 1 = n
    BY <1>1
  <2> QED
    BY <1>3, <2>1
<1>9. c[n] \in Words
  BY <1>1, <1>2
<1> QED
  BY <1>1, <1>2, <1>3, <1>4, <1>7, <1>8, <1>9 DEF u, v, z

\* A word laid out in bytes is read back, and a length below 256 as well.
LEMMA BytesWord ==
  ASSUME NEW w \in Words
  PROVE  Bytes4(w) \in Seq(Byte) /\ Len(Bytes4(w)) = 4 /\ Word(Bytes4(w)) = w
<1>1. Bytes4(w) \in [1..4 -> Byte]
  BY DEF Bytes4, Byte
<1>2. Bytes4(w) \in Seq(Byte) /\ Len(Bytes4(w)) = 4
  <2> DEFINE f == Bytes4(w)
             n == 4
  <2>1. f \in [1..n -> Byte] /\ n \in Nat
    BY <1>1
  <2> HIDE DEF f, n
  <2>2. f \in Seq(Byte) /\ Len(f) = n
    BY <2>1
  <2> QED
    BY <2>2 DEF f, n
<1>3. ASSUME NEW e \in Ones
      PROVE  e \in Word(Bytes4(w)) <=> e \in w
  <2> DEFINE b == 4 - e \div 8
  <2>1. b \in 1..4 /\ e % 8 \in 0..7 /\ (e % 8) + 32 - 8 * b = e
    BY DEF Ones
  <2>2. e \in Word(Bytes4(w)) <=> e % 8 \in Bytes4(w)[b]
    BY DEF Word
  <2> HIDE DEF b
  <2>3. e % 8 \in Bytes4(w)[b] <=> (e % 8) + 32 - 8 * b \in w
    BY <2>1 DEF Bytes4
  <2> QED
    BY <2>1, <2>2, <2>3
<1>4. Word(Bytes4(w)) \subseteq Ones /\ w \subseteq Ones
  BY DEF Word, Words
<1> QED
  BY <1>2, <1>3, <1>4

\* What ntohl makes of four bytes is a word.
LEMMA WordWords ==
  ASSUME NEW f
  PROVE  Word(f) \in Words
BY DEF Word, Words

\* The sum that a length is, bit by bit from the highest.
Digit(w, e) == IF e \in w THEN 1 ELSE 0

\* A length is added up bit by bit from the highest, ...
LEMMA ValueSteps ==
  ASSUME NEW w
  PROVE  \E v \in [0..16 -> Nat] :
            /\ v[0] = 0 /\ Value(w) = IF w \subseteq 0..15 THEN v[16] ELSE Huge
            /\ \A b \in 1..16 : v[b] = 2 * v[b - 1] + Digit(w, 16 - b)
<1> DEFINE N == 16
           Is(f) == f = [b \in 0..16 |-> IF b = 0 THEN 0 ELSE 2 * f[b - 1] + Digit(w, 16 - b)]
           D == Nat
           G == [b \in 1..N |-> [x \in D |-> 2 * x + Digit(w, 16 - b)]]
<1>1. \A e : Digit(w, e) \in {0, 1}
  BY DEF Digit
<1>2. G \in [1..N -> [D -> D]]
  BY <1>1
<1>3. PICK f \in [0..N -> Nat] : f[0] = 0 /\ \A b \in 1..N : f[b] = G[b][f[b - 1]]
  <2>1. N \in Nat /\ 0 \in D
    OBVIOUS
  <2>2. \E f \in [0..N -> D] : f[0] = 0 /\ \A b \in 1..N : f[b] = G[b][f[b - 1]]
    <3> HIDE DEF G, Is, N, D
    <3> QED
      BY <1>2, <2>1, IteratesExist
  <2> QED
    BY <2>2
<1>4. \A b \in 1..N : f[b] = 2 * f[b - 1] + Digit(w, 16 - b)
  <2> TAKE b \in 1..N
  <2>1. f[b] = G[b][f[b - 1]] /\ f[b - 1] \in Nat
    BY <1>3
  <2> QED
    BY <2>1
<1>5. Is(f)
  <2>1. f = [b \in 0..16 |-> f[b]]
    BY <1>3
  <2>2. \A b \in 0..16 : f[b] = IF b = 0 THEN 0 ELSE 2 * f[b - 1] + Digit(w, 16 - b)
    BY <1>3, <1>4
  <2> HIDE DEF G
  <2> QED
    BY <2>1, <2>2
<1> DEFINE v == CHOOSE g : Is(g)
<1>6. Is(v)
  <2> HIDE DEF Is
  <2> QED
    BY <1>5
<1>7. Value(w) = IF w \subseteq 0..15 THEN v[16] ELSE Huge
  BY DEF Value, Digit
<1> HIDE DEF v
<1>8. /\ v[0] = 0 /\ v = [b \in 0..16 |-> v[b]]
      /\ \A b \in 1..16 : v[b] = 2 * v[b - 1] + Digit(w, 16 - b)
  BY <1>6
<1> DEFINE S == {b \in Nat : b <= 16 => v[b] \in Nat}
<1>9. 0 \in S
  BY <1>8
<1>10. ASSUME NEW b \in Nat, b \in S
       PROVE  b + 1 \in S
  <2> SUFFICES ASSUME b + 1 <= 16 PROVE v[b + 1] \in Nat
    OBVIOUS
  <2>1. b + 1 \in 1..16 /\ (b + 1) - 1 = b /\ v[b] \in Nat
    BY <1>10
  <2>2. v[b + 1] = 2 * v[b] + Digit(w, 16 - (b + 1))
    BY <1>8, <2>1
  <2> QED
    BY <1>1, <2>1, <2>2
<1>11. \A b \in 0..16 : v[b] \in Nat
  <2>1. Nat \subseteq S
    <3> HIDE DEF S
    <3> QED
      BY <1>9, <1>10, Induction
  <2> QED
    BY <2>1
<1>12. v \in [0..16 -> Nat]
  BY <1>8, <1>11
<1> QED
  BY <1>7, <1>8, <1>12

\* ... is a number, ...
LEMMA ValueNat ==
  ASSUME NEW w
  PROVE  Value(w) \in Nat
<1>1. Huge \in Nat
  <2>1. 2^16 = 65536
    OBVIOUS
  <2> QED
    BY <2>1 DEF Huge
<1>2. PICK v \in [0..16 -> Nat] : Value(w) = IF w \subseteq 0..15 THEN v[16] ELSE Huge
  BY ValueSteps
<1> QED
  BY <1>1, <1>2

\* ... and below 256 it is the one that was written.
LEMMA ValueBits ==
  ASSUME NEW m \in 0..255
  PROVE  Bits(m) \in Byte /\ Bits(m) \in Words /\ Value(Bits(m)) = m
<1> DEFINE w == Bits(m)
           D(x) == IF x % 2 = 1 THEN 1 ELSE 0
<1>1. w \in Byte
  BY DEF Bits, Byte
<1>2. w \in Words /\ w \subseteq 0..15 /\ \A e \in 8..15 : e \notin w
  BY <1>1 DEF Words, Ones, Byte
<1>3. /\ Digit(w, 0) = D(m) /\ Digit(w, 1) = D(m \div 2)
      /\ Digit(w, 2) = D(m \div 4) /\ Digit(w, 3) = D(m \div 8)
      /\ Digit(w, 4) = D(m \div 16) /\ Digit(w, 5) = D(m \div 32)
      /\ Digit(w, 6) = D(m \div 64) /\ Digit(w, 7) = D(m \div 128)
  <2>1. \A e \in 0..7 : Digit(w, e) = D(m \div 2^e)
    BY DEF Bits, Digit
  <2>2. /\ 2^0 = 1 /\ 2^1 = 2 /\ 2^2 = 4 /\ 2^3 = 8
        /\ 2^4 = 16 /\ 2^5 = 32 /\ 2^6 = 64 /\ 2^7 = 128
    OBVIOUS
  <2>3. m \div 1 = m
    OBVIOUS
  <2> HIDE DEF w, D
  <2> QED
    BY <2>1, <2>2, <2>3
<1> HIDE DEF w
<1>4. PICK v \in [0..16 -> Nat] :
        /\ v[0] = 0 /\ Value(w) = IF w \subseteq 0..15 THEN v[16] ELSE Huge
        /\ \A b \in 1..16 : v[b] = 2 * v[b - 1] + Digit(w, 16 - b)
  BY ValueSteps
<1>5. v[8] = 0
  <2>1. ASSUME NEW b \in 1..8, v[b - 1] = 0
        PROVE  v[b] = 0
    <3>1. 16 - b \notin w /\ b \in 1..16
      BY <1>2
    <3> QED
      BY <1>4, <2>1, <3>1 DEF Digit
  <2>2. v[1] = 0 /\ v[2] = 0
    BY <1>4, <2>1
  <2>3. v[3] = 0 /\ v[4] = 0
    BY <2>1, <2>2
  <2>4. v[5] = 0 /\ v[6] = 0
    BY <2>1, <2>3
  <2>5. v[7] = 0
    BY <2>1, <2>4
  <2> QED
    BY <2>1, <2>5
<1>6. /\ v[9] = 2 * v[8] + Digit(w, 7) /\ v[10] = 2 * v[9] + Digit(w, 6)
      /\ v[11] = 2 * v[10] + Digit(w, 5) /\ v[12] = 2 * v[11] + Digit(w, 4)
  BY <1>4
<1>7. /\ v[13] = 2 * v[12] + Digit(w, 3) /\ v[14] = 2 * v[13] + Digit(w, 2)
      /\ v[15] = 2 * v[14] + Digit(w, 1) /\ v[16] = 2 * v[15] + Digit(w, 0)
  BY <1>4
<1>8. m = D(m) + 2 * D(m \div 2) + 4 * D(m \div 4) + 8 * D(m \div 8) + 16 * D(m \div 16)
          + 32 * D(m \div 32) + 64 * D(m \div 64) + 128 * D(m \div 128)
  OBVIOUS
<1>9. \A x : D(x) \in Int
  OBVIOUS
<1> HIDE DEF D
<1>10. v[16] = m
  BY <1>3, <1>5, <1>6, <1>7, <1>8, <1>9
<1> QED
  BY <1>1, <1>2, <1>4, <1>10 DEF w

\* Where the chunks of a sound file are, and how long their data is.
Offset(p, j) == IF j = 1 THEN 8 ELSE IF j = 2 THEN 33 ELSE 45 + Len(p.idat)
Size(p, j)   == IF j = 1 THEN 13 ELSE IF j = 2 THEN Len(p.idat) ELSE 0

\* Two sequences of bytes, one after the other.
LEMMA Plus ==
  ASSUME NEW s \in Seq(Byte), NEW t \in Seq(Byte)
  PROVE  /\ s \o t \in Seq(Byte) /\ Len(s \o t) = Len(s) + Len(t)
         /\ \A k \in 1..Len(s) : (s \o t)[k] = s[k]
         /\ \A k \in 1..Len(t) : (s \o t)[Len(s) + k] = t[k]
<1>1. /\ s \o t \in Seq(Byte) /\ Len(s \o t) = Len(s) + Len(t)
      /\ \A k \in 1..(Len(s) + Len(t)) :
            (s \o t)[k] = IF k <= Len(s) THEN s[k] ELSE t[k - Len(s)]
  BY ConcatProperties
<1>2. Len(s) \in Nat /\ Len(t) \in Nat
  OBVIOUS
<1>3. ASSUME NEW k \in 1..Len(s) PROVE (s \o t)[k] = s[k]
  <2>1. k \in 1..(Len(s) + Len(t)) /\ k <= Len(s)
    BY <1>2
  <2> QED
    BY <1>1, <2>1
<1>4. ASSUME NEW k \in 1..Len(t) PROVE (s \o t)[Len(s) + k] = t[k]
  <2>1. /\ Len(s) + k \in 1..(Len(s) + Len(t)) /\ ~(Len(s) + k <= Len(s))
        /\ Len(s) + k - Len(s) = k
    BY <1>2
  <2> QED
    BY <1>1, <2>1
<1> QED
  BY <1>1, <1>3, <1>4

\* A CRC is a word.
LEMMA CrcWords ==
  ASSUME NEW s \in Seq(Byte)
  PROVE  UpdateCrc(Ones, s) \in Words /\ CrcOf(s) \in Words
<1>1. Ones \in Words
  BY DEF Words
<1>2. UpdateCrc(Ones, s) \in Words
  BY <1>1, Updated
<1> QED
  BY <1>1, <1>2 DEF CrcOf, SymDiff, Words

\* The j-th chunk of a sound file.
IsSound(p, j, ch) ==
    /\ ch.type \in Seq(Byte) /\ Len(ch.type) = 4
    /\ ch.data \in Seq(Byte) /\ Len(ch.data) = Size(p, j)
    /\ Size(p, j) \in 0..255
    /\ ch.crc = CrcOf(ch.type \o ch.data) /\ ch.crc \in Words
    /\ ch = [type |-> ch.type, data |-> ch.data, crc |-> ch.crc]
    /\ j = 1 => ch.type = Types.IHDR /\ ch.data = p.ihdr

\* The chunks of a sound file, ...
LEMMA SoundChunks ==
  ASSUME NEW p \in Pictures, NEW j \in 1..3
  PROVE  IsSound(p, j, Sound(p)[j])
<1>1. /\ p.ihdr \in Seq(Byte) /\ Len(p.ihdr) = 13
      /\ p.idat \in Seq(Byte) /\ Len(p.idat) \in 0..255
  <2>1. /\ p.ihdr \in Seq(Byte) /\ Len(p.ihdr) = 13
        /\ p.idat \in Seq(Byte) /\ Len(p.idat) < 256
    BY PictureAssumption DEF Byte
  <2>2. Len(p.idat) \in Nat
    BY <2>1
  <2>3. \A n \in Nat : n < 256 => n \in 0..255
    OBVIOUS
  <2> QED
    BY <2>1, <2>2, <2>3
<1>2. \A m : Bits(m) \in Byte
  BY DEF Bits, Byte
<1>3. /\ Types.IHDR \in Seq(Byte) /\ Len(Types.IHDR) = 4
      /\ Types.IDAT \in Seq(Byte) /\ Len(Types.IDAT) = 4
      /\ Types.IEND \in Seq(Byte) /\ Len(Types.IEND) = 4
  BY <1>2 DEF Types
<1>4. ASSUME NEW type \in Seq(Byte), Len(type) = 4, NEW data \in Seq(Byte), Len(data) = Size(p, j),
             Sound(p)[j] = SoundChunk(type, data), Size(p, j) \in 0..255,
             j = 1 => type = Types.IHDR /\ data = p.ihdr
      PROVE  IsSound(p, j, Sound(p)[j])
  <2>1. CrcOf(type \o data) \in Words
    BY Plus, CrcWords
  <2> DEFINE ch == Sound(p)[j]
  <2>2. ch = [type |-> type, data |-> data, crc |-> CrcOf(type \o data)]
    BY <1>4 DEF SoundChunk
  <2> HIDE DEF ch
  <2>3. ch.type = type /\ ch.data = data /\ ch.crc = CrcOf(type \o data)
    BY <2>2
  <2> QED
    BY <1>4, <2>1, <2>2, <2>3 DEF ch, IsSound
<1>5. CASE j = 1
  BY <1>1, <1>3, <1>4, <1>5 DEF Sound, Size
<1>6. CASE j = 2
  BY <1>1, <1>3, <1>4, <1>6 DEF Sound, Size
<1>7. CASE j = 3
  <2>1. <<>> \in Seq(Byte) /\ Len(<<>>) = 0
    OBVIOUS
  <2>2. Sound(p)[3] = SoundChunk(Types.IEND, <<>>) /\ Size(p, 3) = 0
    BY DEF Sound, Size
  <2> DEFINE none == <<>>
  <2>3. /\ none \in Seq(Byte) /\ Len(none) = Size(p, j) /\ Size(p, j) \in 0..255
        /\ Sound(p)[j] = SoundChunk(Types.IEND, none) /\ j # 1
    BY <1>7, <2>1, <2>2
  <2> HIDE DEF none
  <2> QED
    BY <1>3, <1>4, <2>3
<1> QED
  BY <1>5, <1>6, <1>7

\* ... how a chunk is laid out, ...
LEMMA LaidOut ==
  ASSUME NEW p \in Pictures, NEW j \in 1..3
  PROVE  LET ch == Sound(p)[j]
             m == Size(p, j)
         IN  /\ Laid(ch) \in Seq(Byte) /\ Len(Laid(ch)) = 12 + m
             /\ \A k \in 1..4 : Laid(ch)[k] = Bytes4(Bits(m))[k]
             /\ \A k \in 1..(4 + m) : Laid(ch)[4 + k] = (ch.type \o ch.data)[k]
             /\ \A k \in 1..4 : Laid(ch)[8 + m + k] = Bytes4(ch.crc)[k]
<1> DEFINE ch == Sound(p)[j]
           m == Size(p, j)
           a == Bytes4(Bits(m))
           c == Bytes4(ch.crc)
           td == ch.type \o ch.data
<1>1. /\ ch.type \in Seq(Byte) /\ Len(ch.type) = 4
      /\ ch.data \in Seq(Byte) /\ Len(ch.data) = m
      /\ m \in 0..255 /\ ch.crc \in Words
  BY SoundChunks DEF IsSound
<1> HIDE DEF ch, m
<1>2. a \in Seq(Byte) /\ Len(a) = 4
  BY <1>1, ValueBits, BytesWord
<1>3. c \in Seq(Byte) /\ Len(c) = 4
  BY <1>1, BytesWord
<1>4. td \in Seq(Byte) /\ Len(td) = 4 + m
  <2>1. td \in Seq(Byte) /\ Len(td) = Len(ch.type) + Len(ch.data)
    BY <1>1, Plus
  <2> QED
    BY <1>1, <2>1
<1>5. Laid(ch) = (a \o td) \o c
  <2>1. Laid(ch) = a \o ch.type \o ch.data \o c
    BY <1>1 DEF Laid
  <2> HIDE DEF a, c
  <2> DEFINE x == ch.type
             y == ch.data
  <2>2. x \in Seq(Byte) /\ y \in Seq(Byte) /\ a \in Seq(Byte)
    BY <1>1, <1>2
  <2> HIDE DEF x, y
  <2>3. (a \o x) \o y = a \o (x \o y)
    BY <2>2, ConcatAssociative
  <2> QED
    BY <2>1, <2>3 DEF x, y
<1> HIDE DEF a, c, td
<1>6. /\ a \o td \in Seq(Byte) /\ Len(a \o td) = 8 + m
      /\ \A k \in 1..4 : (a \o td)[k] = a[k]
      /\ \A k \in 1..(4 + m) : (a \o td)[4 + k] = td[k]
  <2>1. /\ a \o td \in Seq(Byte) /\ Len(a \o td) = Len(a) + Len(td)
        /\ \A k \in 1..Len(a) : (a \o td)[k] = a[k]
        /\ \A k \in 1..Len(td) : (a \o td)[Len(a) + k] = td[k]
    BY <1>2, <1>4, Plus
  <2>2. Len(a) = 4 /\ Len(td) = 4 + m /\ 4 + (4 + m) = 8 + m
    BY <1>1, <1>2, <1>4
  <2> QED
    BY <2>1, <2>2
<1>7. /\ Laid(ch) \in Seq(Byte) /\ Len(Laid(ch)) = 12 + m
      /\ \A k \in 1..(8 + m) : Laid(ch)[k] = (a \o td)[k]
      /\ \A k \in 1..4 : Laid(ch)[8 + m + k] = c[k]
  <2> DEFINE x == a \o td
  <2>1. x \in Seq(Byte) /\ Len(x) = 8 + m
    BY <1>6
  <2>2. Laid(ch) = x \o c
    BY <1>5
  <2> HIDE DEF x
  <2>3. /\ x \o c \in Seq(Byte) /\ Len(x \o c) = Len(x) + Len(c)
        /\ \A k \in 1..Len(x) : (x \o c)[k] = x[k]
        /\ \A k \in 1..Len(c) : (x \o c)[Len(x) + k] = c[k]
    BY <1>3, <2>1, Plus
  <2>4. Len(x) = 8 + m /\ Len(c) = 4 /\ (8 + m) + 4 = 12 + m
    BY <1>1, <1>3, <2>1
  <2>5. /\ Laid(ch) \in Seq(Byte) /\ Len(Laid(ch)) = 12 + m
        /\ \A k \in 1..(8 + m) : Laid(ch)[k] = x[k]
        /\ \A k \in 1..4 : Laid(ch)[8 + m + k] = c[k]
    BY <2>2, <2>3, <2>4
  <2> QED
    BY <2>5 DEF x
<1>8. \A k \in 1..4 : k \in 1..(8 + m)
  BY <1>1
<1>9. \A k \in 1..(4 + m) : 4 + k \in 1..(8 + m)
  BY <1>1
<1> QED
  BY <1>6, <1>7, <1>8, <1>9 DEF ch, m, a, c, td

\* ... and the file.
LEMMA FileLaidOut ==
  ASSUME NEW p \in Pictures
  PROVE  /\ SoundFile(p) \in Seq(Byte) /\ Len(SoundFile(p)) = 57 + Len(p.idat)
         /\ Len(p.idat) \in Nat
         /\ \A j \in 1..3 : \A k \in 1..(12 + Size(p, j)) :
               SoundFile(p)[Offset(p, j) + k] = Laid(Sound(p)[j])[k]
<1> DEFINE L == Len(p.idat)
           a == Laid(Sound(p)[1])
           b == Laid(Sound(p)[2])
           c == Laid(Sound(p)[3])
           s1 == Signature \o a
           s2 == s1 \o b
           s3 == s2 \o c
<1>1. L \in Nat
  BY PictureAssumption
<1>2. Size(p, 1) = 13 /\ Size(p, 2) = L /\ Size(p, 3) = 0
  BY DEF Size
<1>3. Offset(p, 1) = 8 /\ Offset(p, 2) = 33 /\ Offset(p, 3) = 45 + L
  BY DEF Offset
<1> HIDE DEF L
<1>4. a \in Seq(Byte) /\ Len(a) = 25
  <2>1. 1 \in 1..3
    OBVIOUS
  <2>2. a \in Seq(Byte) /\ Len(a) = 12 + Size(p, 1)
    BY <2>1, LaidOut
  <2> QED
    BY <1>2, <2>2
<1>5. b \in Seq(Byte) /\ Len(b) = 12 + L
  <2>1. 2 \in 1..3
    OBVIOUS
  <2> QED
    BY <1>2, <2>1, LaidOut
<1>6. c \in Seq(Byte) /\ Len(c) = 12
  <2>1. 3 \in 1..3
    OBVIOUS
  <2>2. c \in Seq(Byte) /\ Len(c) = 12 + Size(p, 3)
    BY <2>1, LaidOut
  <2> QED
    BY <1>2, <2>2
<1>7. Signature \in Seq(Byte) /\ Len(Signature) = 8
  <2>1. \A m : Bits(m) \in Byte
    BY DEF Bits, Byte
  <2> QED
    BY <2>1 DEF Signature
<1>8. SoundFile(p) = s3
  BY DEF SoundFile
<1> HIDE DEF a, b, c
<1>9. s1 \in Seq(Byte) /\ Len(s1) = 33 /\ \A k \in 1..25 : s1[8 + k] = a[k]
  <2>1. /\ s1 \in Seq(Byte) /\ Len(s1) = Len(Signature) + Len(a)
        /\ \A k \in 1..Len(a) : s1[Len(Signature) + k] = a[k]
    BY <1>4, <1>7, Plus
  <2> HIDE DEF s1
  <2> QED
    BY <1>4, <1>7, <2>1
<1> HIDE DEF s1
<1>10. /\ s2 \in Seq(Byte) /\ Len(s2) = 45 + L
       /\ \A k \in 1..33 : s2[k] = s1[k]
       /\ \A k \in 1..(12 + L) : s2[33 + k] = b[k]
  <2>1. /\ s2 \in Seq(Byte) /\ Len(s2) = Len(s1) + Len(b)
        /\ \A k \in 1..Len(s1) : s2[k] = s1[k]
        /\ \A k \in 1..Len(b) : s2[Len(s1) + k] = b[k]
    BY <1>5, <1>9, Plus
  <2>2. Len(s1) = 33 /\ Len(b) = 12 + L /\ 33 + (12 + L) = 45 + L
    BY <1>1, <1>5, <1>9
  <2> HIDE DEF s2
  <2> QED
    BY <2>1, <2>2
<1> HIDE DEF s2
<1>11. /\ s3 \in Seq(Byte) /\ Len(s3) = 57 + L
       /\ \A k \in 1..(45 + L) : s3[k] = s2[k]
       /\ \A k \in 1..12 : s3[45 + L + k] = c[k]
  <2>1. /\ s3 \in Seq(Byte) /\ Len(s3) = Len(s2) + Len(c)
        /\ \A k \in 1..Len(s2) : s3[k] = s2[k]
        /\ \A k \in 1..Len(c) : s3[Len(s2) + k] = c[k]
    BY <1>6, <1>10, Plus
  <2>2. Len(s2) = 45 + L /\ Len(c) = 12 /\ 45 + L + 12 = 57 + L
    BY <1>1, <1>6, <1>10
  <2> HIDE DEF s3
  <2> QED
    BY <2>1, <2>2
<1> HIDE DEF s3
<1>12. \A k \in 1..25 : s3[8 + k] = a[k]
  <2>1. \A k \in 1..25 : 8 + k \in 1..33 /\ 8 + k \in 1..(45 + L)
    BY <1>1
  <2> QED
    BY <1>9, <1>10, <1>11, <2>1
<1>13. \A k \in 1..(12 + L) : s3[33 + k] = b[k]
  <2>1. \A k \in 1..(12 + L) : 33 + k \in 1..(45 + L)
    BY <1>1
  <2> QED
    BY <1>10, <1>11, <2>1
<1>14. \A j \in 1..3 : \A k \in 1..(12 + Size(p, j)) : s3[Offset(p, j) + k] = Laid(Sound(p)[j])[k]
  <2> TAKE j \in 1..3
  <2>1. CASE j = 1
    <3>1. 12 + Size(p, 1) = 25
      BY <1>2
    <3> QED
      BY <1>3, <1>12, <2>1, <3>1 DEF a
  <2>2. CASE j = 2
    BY <1>2, <1>3, <1>13, <2>2 DEF b
  <2>3. CASE j = 3
    <3>1. 12 + Size(p, 3) = 12
      BY <1>2
    <3> QED
      BY <1>3, <1>11, <2>3, <3>1 DEF c
  <2> QED
    BY <2>1, <2>2, <2>3
<1> QED
  BY <1>1, <1>8, <1>11, <1>14 DEF L

-----------------------------------------------------------------------------
(* pnginfo: the invariant *)

ChunkSet == [type : Seq(Byte), data : Seq(Byte), crc : Words]

\* The types. A damaged file is not longer than it was.
PngTyped ==
    /\ picture \in Pictures
    /\ file \in Seq(Byte) /\ Len(file) <= Len(SoundFile(picture))
    /\ stage \in {"signature", "read", "show", "check", "done", "undefined"}
    /\ pos \in Nat
    /\ chunks \in Seq(ChunkSet)
    /\ nth \in 1..3 /\ through \in Nat /\ running \in Words
    /\ errors \in SUBSET (1..3)

\* Until the check starts its variables are as they were at first; the dimensions printed
\* are those of the first chunk.
PngOrder ==
    /\ stage = "signature" => chunks = <<>>
    /\ stage = "read" => Len(chunks) <= 2
    /\ stage \in {"show", "check"} => Len(chunks) = 3
    /\ stage \notin {"check", "done"} =>
          nth = 1 /\ through = 0 /\ running = Ones /\ errors = {} /\ shown = <<>>
    /\ stage \in {"check", "done"} /\ Len(chunks) = 3 =>
          shown = IF chunks[1].type = Types.IHDR THEN Dimensions(chunks[1].data) ELSE <<>>

\* During the check the running value is that of the bytes it has been through.
Running ==
    stage = "check" =>
        /\ through \in 0..Len(Covered(chunks[nth]))
        /\ running = UpdateCrc(Ones, SubSeq(Covered(chunks[nth]), 1, through))

\* A chunk that crc_check prints an error for: one of known type with another CRC than that
\* of its type and data.
Bad(ch) == KnownType(ch) /\ CrcOf(Covered(ch)) # ch.crc

\* Exactly those of the chunks checked so far have an error.
Reported ==
    stage \in {"check", "done"} /\ Len(chunks) = 3 =>
        \A j \in 1..3 : j \in errors <=> Bad(chunks[j]) /\ (stage = "check" => j < nth)

\* The length fields that the file has are those of the sound file.
LengthsSame ==
    \A j \in 1..3, b \in 1..4 :
        Offset(picture, j) + b <= Len(file) =>
            file[Offset(picture, j) + b] = SoundFile(picture)[Offset(picture, j) + b]

\* A chunk with m bytes of data, read at o.
ChunkAt(o, m) == [type |-> SubSeq(file, o + 5, o + 8),
                  data |-> SubSeq(file, o + 9, o + 8 + m),
                  crc  |-> Word(SubSeq(file, o + 9 + m, o + 12 + m))]

\* If they are, the chunks are read where the sound file has them.
InPlace ==
    LengthsSame =>
        /\ stage = "read" =>
              pos = IF Len(file) < 8 THEN Len(file) ELSE Offset(picture, Len(chunks) + 1)
        /\ \A j \in 1..Len(chunks) :
              /\ Offset(picture, j) + 12 + Size(picture, j) <= Len(file)
              /\ chunks[j] = ChunkAt(Offset(picture, j), Size(picture, j))
        /\ stage = "undefined" => Len(file) < Len(SoundFile(picture))

PngInv == PngTyped /\ PngOrder /\ Running /\ Reported /\ InPlace

-----------------------------------------------------------------------------
(* pnginfo: the steps *)

\* A damaged file is made of bytes, no more than there were.
LEMMA FileTyped ==
  ASSUME NEW p \in Pictures, NEW d \in Damages
  PROVE  DamagedFile(p, d) \in Seq(Byte) /\ Len(DamagedFile(p, d)) <= Len(SoundFile(p))
<1> DEFINE whole == SoundFile(p)
           flipped == Flipped(whole, d.bits)
           m == IF d.cut < Len(whole) THEN d.cut ELSE Len(whole)
<1>1. whole \in Seq(Byte)
  BY FileLaidOut
<1>2. DamagedFile(p, d) = SubSeq(flipped, 1, m)
  BY DEF DamagedFile
<1> HIDE DEF whole
<1>3. m \in Nat /\ 1 \in Nat /\ 1 <= m + 1 /\ m <= Len(whole)
  BY <1>1, DamageAssumption
<1>4. flipped \in Seq(Byte) /\ Len(flipped) = Len(whole)
  <2>1. DOMAIN whole = 1..Len(whole) /\ Len(whole) \in Nat
    BY <1>1
  <2>2. flipped = [b \in 1..Len(whole) |->
                     SymDiff(whole[b], {q \in 0..7 : 8 * (b - 1) + q \in d.bits})]
    BY <2>1 DEF Flipped
  <2>3. \A b \in 1..Len(whole), x \in SUBSET (0..7) : SymDiff(whole[b], x) \in Byte
    <3> TAKE b \in 1..Len(whole), x \in SUBSET (0..7)
    <3> DEFINE w == whole[b]
    <3>1. w \in Byte
      BY <1>1
    <3> HIDE DEF w
    <3>2. SymDiff(w, x) \in Byte
      BY <3>1 DEF SymDiff, Byte
    <3> QED
      BY <3>2 DEF w
  <2> DEFINE n == Len(whole)
  <2>4. flipped \in [1..n -> Byte] /\ n \in Nat
    BY <2>1, <2>2, <2>3
  <2> HIDE DEF flipped, n
  <2>5. flipped \in Seq(Byte) /\ Len(flipped) = n
    BY <2>4
  <2> QED
    BY <2>5 DEF n
<1> HIDE DEF flipped, m
<1>5. SubSeq(flipped, 1, m) \in Seq(Byte) /\ Len(SubSeq(flipped, 1, m)) = m + 1 - 1
  BY <1>3, <1>4, Part
<1> QED
  BY <1>2, <1>3, <1>5 DEF whole

\* A damaged file, of which nothing has been read.
LEMMA InitPng == PngInit => PngInv
<1> SUFFICES ASSUME PngInit PROVE PngInv
  OBVIOUS
<1>1. file \in Seq(Byte) /\ Len(file) <= Len(SoundFile(picture))
  BY FileTyped DEF PngInit
<1>2. Ones \in Words
  BY DEF Words
<1>3. PngTyped /\ PngOrder
  BY <1>1, <1>2 DEF PngInit, PngTyped, PngOrder
<1>4. Running /\ Reported
  BY DEF PngInit, Running, Reported
<1>5. InPlace
  <2>1. chunks = <<>> /\ stage = "signature" /\ 1..Len(<<>>) = {}
    BY DEF PngInit
  <2> QED
    BY <2>1 DEF InPlace
<1> QED
  BY <1>3, <1>4, <1>5 DEF PngInv

\* A length field that is as it was written is read as the length of the data.
LEMMA LengthRead ==
  ASSUME PngTyped, LengthsSame, NEW j \in 1..3, pos = Offset(picture, j), pos + 4 <= Len(file)
  PROVE  LengthField = Size(picture, j)
<1> DEFINE m == Size(picture, j)
           ch == Sound(picture)[j]
           four == At(0, 4)
           whole == SoundFile(picture)
<1>1. picture \in Pictures /\ file \in Seq(Byte) /\ pos \in Nat /\ Len(file) \in Nat
  BY DEF PngTyped
<1>2. m \in 0..255
  BY <1>1, SoundChunks DEF IsSound
<1>3. \A k \in 1..4 : Laid(ch)[k] = Bytes4(Bits(m))[k]
  BY <1>1, LaidOut
<1>4. \A k \in 1..4 : whole[pos + k] = Laid(ch)[k]
  <2>1. \A k \in 1..(12 + m) : whole[Offset(picture, j) + k] = Laid(ch)[k]
    BY <1>1, FileLaidOut
  <2>2. \A k \in 1..4 : k \in 1..(12 + m)
    <3> HIDE DEF m
    <3> QED
      BY <1>2
  <2> QED
    BY <2>1, <2>2
<1>5. \A k \in 1..4 : file[pos + k] = whole[pos + k]
  <2>1. \A k \in 1..4 : pos + k <= Len(file)
    BY <1>1
  <2> QED
    BY <2>1 DEF LengthsSame
<1>6. four \in Seq(Byte) /\ Len(four) = 4 /\ \A k \in 1..4 : four[k] = file[pos + k]
  <2> DEFINE x == pos + 0 + 1
             y == pos + 0 + 4
  <2>1. x \in Nat /\ y \in Nat /\ 1 <= x /\ x <= y + 1 /\ y <= Len(file)
    BY <1>1
  <2>2. y + 1 - x = 4 /\ \A k \in 1..4 : x + k - 1 = pos + k
    BY <1>1
  <2>3. four = SubSeq(file, x, y)
    BY DEF At
  <2> HIDE DEF x, y, four
  <2>4. /\ four \in Seq(Byte) /\ Len(four) = y + 1 - x
        /\ \A k \in 1..(y + 1 - x) : four[k] = file[x + k - 1]
    BY <1>1, <2>1, <2>3, Part
  <2> QED
    BY <2>2, <2>4
<1>7. Bits(m) \in Words /\ Value(Bits(m)) = m
  BY <1>2, ValueBits
<1>8. /\ Bytes4(Bits(m)) \in Seq(Byte) /\ Len(Bytes4(Bits(m))) = 4
      /\ Word(Bytes4(Bits(m))) = Bits(m)
  BY <1>7, BytesWord
<1>9. four = Bytes4(Bits(m))
  <2> DEFINE v == Bytes4(Bits(m))
  <2>1. v \in Seq(Byte) /\ Len(v) = 4
    BY <1>8
  <2>2. \A k \in 1..4 : four[k] = v[k]
    BY <1>3, <1>4, <1>5, <1>6
  <2> HIDE DEF four, v
  <2>3. four = v
    BY <1>6, <2>1, <2>2
  <2> QED
    BY <2>3 DEF v
<1> QED
  BY <1>7, <1>8, <1>9 DEF LengthField

\* Each step preserves the invariant: is_png, ...
LEMMA StepIsPng ==
  ASSUME PngInv, IsPng
  PROVE  PngInv'
<1>1. /\ stage = "signature" /\ chunks = <<>> /\ chunks' = chunks /\ file' = file
      /\ picture' = picture
      /\ stage' = "undefined" => Len(file) < 4
      /\ stage' \in {"undefined", "read", "done"}
      /\ pos' = IF Len(file) < 8 THEN Len(file) ELSE 8
  BY DEF IsPng, PngInv, PngOrder
<1>2. file \in Seq(Byte) /\ Len(file) \in Nat /\ Len(chunks) = 0
  BY <1>1 DEF PngInv, PngTyped
<1>3. PngTyped' /\ PngOrder'
  BY <1>1, <1>2 DEF PngInv, PngTyped, PngOrder, IsPng
<1>4. Running' /\ Reported'
  BY <1>1, <1>2 DEF Running, Reported
<1>5. InPlace'
  <2>1. Len(SoundFile(picture)) >= 57
    <3>1. picture \in Pictures
      BY DEF PngInv, PngTyped
    <3> QED
      BY <3>1, FileLaidOut
  <2>2. Offset(picture, 0 + 1) = 8
    BY DEF Offset
  <2>3. 1..Len(chunks) = {}
    BY <1>2
  <2>4. stage' = "undefined" => Len(file) < Len(SoundFile(picture))
    <3>1. Len(SoundFile(picture)) \in Nat
      <4>1. picture \in Pictures
        BY DEF PngInv, PngTyped
      <4> QED
        BY <4>1, FileLaidOut
    <3> QED
      BY <1>1, <1>2, <2>1, <3>1
  <2> QED
    BY <1>1, <1>2, <2>2, <2>3, <2>4 DEF InPlace
<1> QED
  BY <1>3, <1>4, <1>5 DEF PngInv

\* The chunk that is read.
LEMMA ChunkRead ==
  ASSUME PngTyped, Readable
  PROVE  /\ LengthField \in Nat
         /\ ChunkAt(pos, LengthField) \in ChunkSet
         /\ [type |-> At(4, 4), data |-> At(8, LengthField), crc |-> Word(At(8 + LengthField, 4))]
               = ChunkAt(pos, LengthField)
<1> DEFINE m == LengthField
<1>1. m \in Nat
  BY ValueNat DEF LengthField
<1>2. /\ file \in Seq(Byte) /\ pos \in Nat /\ Len(file) \in Nat
      /\ pos + 12 + m <= Len(file)
  BY DEF PngTyped, Readable
<1> HIDE DEF m
<1>3. At(4, 4) = SubSeq(file, pos + 5, pos + 8)
  <2>1. pos + 4 + 1 = pos + 5 /\ pos + 4 + 4 = pos + 8
    BY <1>2
  <2> QED
    BY <2>1 DEF At
<1>4. At(8, m) = SubSeq(file, pos + 9, pos + 8 + m)
  <2>1. pos + 8 + 1 = pos + 9
    BY <1>2
  <2> QED
    BY <2>1 DEF At
<1>5. At(8 + m, 4) = SubSeq(file, pos + 9 + m, pos + 12 + m)
  <2>1. pos + (8 + m) + 1 = pos + 9 + m /\ pos + (8 + m) + 4 = pos + 12 + m
    BY <1>1, <1>2
  <2> QED
    BY <2>1 DEF At
<1>6. SubSeq(file, pos + 5, pos + 8) \in Seq(Byte)
  <2>1. /\ pos + 5 \in Nat /\ pos + 8 \in Nat /\ 1 <= pos + 5 /\ pos + 5 <= pos + 8 + 1
        /\ pos + 8 <= Len(file)
    BY <1>1, <1>2
  <2> QED
    BY <1>2, <2>1, Part
<1>7. SubSeq(file, pos + 9, pos + 8 + m) \in Seq(Byte)
  <2>1. /\ pos + 9 \in Nat /\ pos + 8 + m \in Nat /\ 1 <= pos + 9 /\ pos + 9 <= pos + 8 + m + 1
        /\ pos + 8 + m <= Len(file)
    BY <1>1, <1>2
  <2> QED
    BY <1>2, <2>1, Part
<1>8. ChunkAt(pos, m) \in ChunkSet
  BY <1>6, <1>7, WordWords DEF ChunkAt, ChunkSet
<1> QED
  BY <1>1, <1>3, <1>4, <1>5, <1>8 DEF m, ChunkAt

\* ... the readers, ...
LEMMA StepReadChunk ==
  ASSUME PngInv, ReadChunk
  PROVE  PngInv'
<1> DEFINE m == LengthField
           ch == ChunkAt(pos, m)
<1>1. /\ stage = "read" /\ file' = file /\ picture' = picture /\ shown' = shown
      /\ nth' = nth /\ through' = through /\ running' = running /\ errors' = errors
  BY DEF ReadChunk
<1>2. /\ PngTyped /\ PngOrder /\ InPlace /\ chunks \in Seq(ChunkSet) /\ Len(chunks) \in 0..2
      /\ nth = 1 /\ through = 0 /\ running = Ones /\ errors = {} /\ shown = <<>>
      /\ file \in Seq(Byte) /\ Len(file) \in Nat /\ picture \in Pictures /\ pos \in Nat
  <2>1. Len(chunks) <= 2 /\ chunks \in Seq(ChunkSet)
    BY <1>1 DEF PngInv, PngTyped, PngOrder
  <2>2. Len(chunks) \in 0..2
    <3> DEFINE n == Len(chunks)
    <3>1. n \in Nat /\ n <= 2
      BY <2>1
    <3> HIDE DEF n
    <3>2. n \in 0..2
      BY <3>1
    <3> QED
      BY <3>2 DEF n
  <2>3. /\ PngTyped /\ PngOrder /\ InPlace /\ file \in Seq(Byte) /\ picture \in Pictures
        /\ pos \in Nat
    BY DEF PngInv, PngTyped
  <2>4. Len(file) \in Nat
    BY <2>3
  <2>5. nth = 1 /\ through = 0 /\ running = Ones /\ errors = {} /\ shown = <<>>
    BY <1>1, <2>3 DEF PngOrder
  <2> QED
    BY <2>1, <2>2, <2>3, <2>4, <2>5
<1>3. /\ SoundFile(picture) \in Seq(Byte) /\ Len(picture.idat) \in Nat
      /\ Len(SoundFile(picture)) = 57 + Len(picture.idat)
  BY <1>2, FileLaidOut
<1>4. ASSUME LengthsSame, Readable
      PROVE  pos = Offset(picture, Len(chunks) + 1) /\ m = Size(picture, Len(chunks) + 1)
  <2>1. Len(file) >= 8
    <3>1. /\ pos + 4 <= Len(file)
          /\ pos = IF Len(file) < 8 THEN Len(file) ELSE Offset(picture, Len(chunks) + 1)
      BY <1>1, <1>2, <1>4 DEF InPlace, Readable
    <3> QED
      BY <1>2, <3>1
  <2>2. pos = Offset(picture, Len(chunks) + 1)
    BY <1>1, <1>2, <1>4, <2>1 DEF InPlace
  <2>3. Len(chunks) + 1 \in 1..3
    <3> DEFINE n == Len(chunks)
    <3>1. n \in 0..2
      BY <1>2
    <3> HIDE DEF n
    <3>2. n + 1 \in 1..3
      BY <3>1
    <3> QED
      BY <3>2 DEF n
  <2> DEFINE j == Len(chunks) + 1
  <2> HIDE DEF j
  <2>4. j \in 1..3 /\ pos = Offset(picture, j) /\ pos + 4 <= Len(file)
    BY <1>4, <2>2, <2>3 DEF Readable, j
  <2>5. m = Size(picture, j)
    BY <1>2, <1>4, <2>4, LengthRead
  <2> QED
    BY <2>2, <2>5 DEF j
<1>5. \A j \in 1..2 : Offset(picture, j + 1) = Offset(picture, j) + 12 + Size(picture, j)
  <2>1. /\ Offset(picture, 1) = 8 /\ Offset(picture, 2) = 33
        /\ Offset(picture, 3) = 45 + Len(picture.idat)
        /\ Size(picture, 1) = 13 /\ Size(picture, 2) = Len(picture.idat)
    BY DEF Offset, Size
  <2> TAKE j \in 1..2
  <2>2. j = 1 \/ j = 2
    OBVIOUS
  <2> QED
    BY <1>3, <2>1, <2>2
<1>6. CASE Readable
  <2>1. /\ m \in Nat /\ ch \in ChunkSet
        /\ chunks' = Append(chunks, ch) /\ pos' = pos + 12 + m
        /\ stage' = IF Len(chunks) = 2 THEN "show" ELSE "read"
    BY <1>2, <1>6, ChunkRead DEF ReadChunk
  <2>2. pos + 12 + m <= Len(file)
    BY <1>6 DEF Readable
  <2> HIDE DEF m, ch
  <2>3. /\ chunks' \in Seq(ChunkSet) /\ Len(chunks') = Len(chunks) + 1
        /\ chunks'[Len(chunks) + 1] = ch
        /\ \A j \in 1..Len(chunks) : chunks'[j] = chunks[j]
    BY <1>2, <2>1
  <2>4. PngTyped'
    BY <1>1, <1>2, <2>1, <2>3 DEF PngTyped
  <2>5. PngOrder'
    BY <1>1, <1>2, <2>1, <2>3 DEF PngOrder
  <2>6. Running' /\ Reported'
    BY <2>1 DEF Running, Reported
  <2>7. ASSUME LengthsSame
        PROVE  /\ stage' = "read" =>
                     pos' = IF Len(file) < 8 THEN Len(file) ELSE Offset(picture, Len(chunks') + 1)
               /\ \A j \in 1..Len(chunks') :
                     /\ Offset(picture, j) + 12 + Size(picture, j) <= Len(file)
                     /\ chunks'[j] = ChunkAt(Offset(picture, j), Size(picture, j))
               /\ stage' # "undefined"
    <3> DEFINE n == Len(chunks) + 1
    <3>1. pos = Offset(picture, n) /\ m = Size(picture, n)
      BY <1>4, <1>6, <2>7 DEF m
    <3>2. stage' = "read" => pos' = Offset(picture, n + 1)
      <4> HAVE stage' = "read"
      <4>1. n \in 1..2
        BY <1>2, <2>1
      <4> HIDE DEF n
      <4> QED
        BY <1>5, <2>1, <3>1, <4>1
    <3>3. Len(file) >= 8
      BY <1>2, <2>1, <2>2
    <3>4. \A j \in 1..Len(chunks) :
             /\ Offset(picture, j) + 12 + Size(picture, j) <= Len(file)
             /\ chunks[j] = ChunkAt(Offset(picture, j), Size(picture, j))
      BY <1>2, <2>7 DEF InPlace
    <3>5. /\ Offset(picture, n) + 12 + Size(picture, n) <= Len(file)
          /\ chunks'[n] = ChunkAt(Offset(picture, n), Size(picture, n))
      BY <2>2, <2>3, <3>1 DEF ch
    <3>6. \A j \in 1..Len(chunks') : j \in 1..Len(chunks) \/ j = n
      BY <1>2, <2>3
    <3>7. Len(chunks') = n
      BY <2>3
    <3>8. \A j \in 1..Len(chunks') :
             /\ Offset(picture, j) + 12 + Size(picture, j) <= Len(file)
             /\ chunks'[j] = ChunkAt(Offset(picture, j), Size(picture, j))
      <4> HIDE DEF n
      <4> QED
        BY <2>3, <3>4, <3>5, <3>6
    <3> HIDE DEF n
    <3>9. stage' = "read" =>
             pos' = IF Len(file) < 8 THEN Len(file) ELSE Offset(picture, Len(chunks') + 1)
      BY <1>2, <3>2, <3>3, <3>7
    <3> QED
      BY <2>1, <3>8, <3>9
  <2>8. InPlace'
    BY <1>1, <2>7 DEF InPlace, LengthsSame, ChunkAt
  <2> QED
    BY <2>4, <2>5, <2>6, <2>8 DEF PngInv
<1>7. CASE ~Readable
  <2>1. stage' = "undefined" /\ chunks' = chunks /\ pos' = pos
    BY <1>7 DEF ReadChunk
  <2>2. PngTyped'
    BY <1>1, <1>2, <2>1 DEF PngTyped
  <2>3. PngOrder' /\ Running' /\ Reported'
    BY <1>1, <1>2, <2>1 DEF PngOrder, Running, Reported
  <2>4. ASSUME LengthsSame, Len(file) >= Len(SoundFile(picture))
        PROVE  FALSE
    <3> DEFINE n == Len(chunks) + 1
    <3>1. n \in 1..3
      <4>1. Len(chunks) \in 0..2
        BY <1>2
      <4> DEFINE x == Len(chunks)
      <4>2. x \in 0..2
        BY <4>1
      <4> HIDE DEF x
      <4>3. x + 1 \in 1..3
        BY <4>2
      <4> QED
        BY <4>3 DEF x
    <3>2. pos = Offset(picture, n)
      <4>1. ~(Len(file) < 8)
        BY <1>2, <1>3, <2>4
      <4> QED
        BY <1>1, <1>2, <2>4, <4>1 DEF InPlace
    <3>3. Offset(picture, n) + 12 + Size(picture, n) <= Len(file)
      <4>1. /\ Offset(picture, 1) = 8 /\ Offset(picture, 2) = 33
            /\ Offset(picture, 3) = 45 + Len(picture.idat)
            /\ Size(picture, 1) = 13 /\ Size(picture, 2) = Len(picture.idat)
            /\ Size(picture, 3) = 0
        BY DEF Offset, Size
      <4>2. n = 1 \/ n = 2 \/ n = 3
        BY <3>1
      <4> HIDE DEF n
      <4> QED
        BY <1>2, <1>3, <2>4, <4>1, <4>2
    <3>4. Size(picture, n) \in Nat
      <4> HIDE DEF n
      <4>1. Size(picture, n) \in 0..255
        BY <1>2, <3>1, SoundChunks DEF IsSound
      <4> QED
        BY <4>1
    <3>5. pos + 4 <= Len(file)
      <4> HIDE DEF n
      <4> QED
        BY <1>2, <3>2, <3>3, <3>4
    <3>6. m = Size(picture, n)
      <4> HIDE DEF n
      <4> QED
        BY <1>2, <2>4, <3>1, <3>2, <3>5, LengthRead
    <3>7. chunks = <<>> => m = 13
      <4> HAVE chunks = <<>>
      <4>1. n = 1
        OBVIOUS
      <4> HIDE DEF n
      <4> QED
        BY <3>6, <4>1 DEF Size
    <3> HIDE DEF n
    <3> QED
      BY <1>7, <3>2, <3>3, <3>5, <3>6, <3>7 DEF Readable
  <2>5. InPlace'
    <3>1. ASSUME LengthsSame
          PROVE  Len(file) < Len(SoundFile(picture))
      BY <1>2, <1>3, <2>4, <3>1
    <3> QED
      BY <1>1, <1>2, <2>1, <3>1 DEF InPlace, LengthsSame, ChunkAt
  <2> QED
    BY <2>2, <2>3, <2>5 DEF PngInv
<1> QED
  BY <1>6, <1>7

\* Of no bytes the running value is the one to start with.
LEMMA UpdateNone ==
  ASSUME NEW s \in Seq(Byte)
  PROVE  UpdateCrc(Ones, SubSeq(s, 1, 0)) = Ones
<1> DEFINE z == SubSeq(s, 1, 0)
<1>1. z \in Seq(Byte) /\ Len(z) = 0
  <2>1. 0 \in Nat /\ 1 \in Nat /\ 1 <= 0 + 1 /\ 0 <= Len(s) /\ 0 + 1 - 1 = 0
    OBVIOUS
  <2> QED
    BY <2>1, Part
<1>2. Ones \in Words
  BY DEF Words
<1> HIDE DEF z
<1>3. PICK f \in [0..Len(z) -> Words] : f[0] = Ones /\ f[Len(z)] = UpdateCrc(Ones, z)
  BY <1>1, <1>2, Updated
<1> QED
  BY <1>1, <1>3 DEF z

\* ... copy_IHDR and what main prints, ...
LEMMA StepShow ==
  ASSUME PngInv, ShowDimensions
  PROVE  PngInv'
<1>1. /\ stage = "show" /\ stage' = "check" /\ file' = file /\ picture' = picture /\ pos' = pos
      /\ chunks' = chunks /\ nth' = nth /\ through' = through /\ running' = running
      /\ errors' = errors
      /\ shown' = IF chunks[1].type = Types.IHDR THEN Dimensions(chunks[1].data) ELSE <<>>
  BY DEF ShowDimensions
<1>2. /\ PngTyped /\ chunks \in Seq(ChunkSet) /\ Len(chunks) = 3
      /\ nth = 1 /\ through = 0 /\ running = Ones /\ errors = {}
  BY <1>1 DEF PngInv, PngTyped, PngOrder
<1>3. PngTyped' /\ PngOrder'
  BY <1>1, <1>2 DEF PngTyped, PngOrder
<1>4. Running'
  <2> DEFINE s == Covered(chunks[1])
  <2>1. s \in Seq(Byte)
    <3>1. chunks[1] \in ChunkSet
      BY <1>2
    <3> QED
      BY <3>1, Plus DEF Covered, ChunkSet
  <2>2. Len(s) \in Nat /\ UpdateCrc(Ones, SubSeq(s, 1, 0)) = Ones
    BY <2>1, UpdateNone
  <2> HIDE DEF s
  <2>3. 0 \in 0..Len(s)
    BY <2>2
  <2>4. Running' <=> (0 \in 0..Len(s) /\ Ones = UpdateCrc(Ones, SubSeq(s, 1, 0)))
    BY <1>1, <1>2 DEF Running, s
  <2> QED
    BY <2>2, <2>3, <2>4
<1>5. Reported'
  <2>1. \A j \in 1..3 : ~(j < 1)
    OBVIOUS
  <2> QED
    BY <1>1, <1>2, <2>1 DEF Reported
<1>6. InPlace'
  BY <1>1 DEF PngInv, InPlace, LengthsSame, ChunkAt
<1> QED
  BY <1>3, <1>4, <1>5, <1>6 DEF PngInv

\* In the check there are three chunks, and the CRC goes over bytes.
LEMMA InCheck ==
  ASSUME PngInv, stage = "check"
  PROVE  /\ chunks \in Seq(ChunkSet) /\ Len(chunks) = 3 /\ nth \in 1..3
         /\ \A j \in 1..3 : chunks[j] \in ChunkSet /\ Covered(chunks[j]) \in Seq(Byte)
         /\ through \in 0..Len(Covered(chunks[nth]))
         /\ running = UpdateCrc(Ones, SubSeq(Covered(chunks[nth]), 1, through))
<1>1. chunks \in Seq(ChunkSet) /\ Len(chunks) = 3 /\ nth \in 1..3
  BY DEF PngInv, PngTyped, PngOrder
<1>2. ASSUME NEW j \in 1..3
      PROVE  chunks[j] \in ChunkSet /\ Covered(chunks[j]) \in Seq(Byte)
  <2>1. chunks[j] \in ChunkSet
    BY <1>1
  <2> QED
    BY <2>1, Plus DEF Covered, ChunkSet
<1> QED
  BY <1>1, <1>2 DEF PngInv, Running

\* ... a turn of update_crc's loop, ...
LEMMA StepUpdateByte ==
  ASSUME PngInv, UpdateByte
  PROVE  PngInv'
<1> DEFINE s == Covered(chunks[nth])
<1>1. /\ stage = "check" /\ stage' = stage /\ file' = file /\ picture' = picture /\ pos' = pos
      /\ chunks' = chunks /\ nth' = nth /\ shown' = shown /\ errors' = errors
      /\ through' = through + 1 /\ through < Len(s)
      /\ running' = Update(running, s[through + 1])
  BY DEF UpdateByte
<1>2. /\ s \in Seq(Byte) /\ Len(s) \in Nat /\ through \in 0..Len(s)
      /\ running = UpdateCrc(Ones, SubSeq(s, 1, through))
  <2>1. /\ s \in Seq(Byte) /\ through \in 0..Len(s)
        /\ running = UpdateCrc(Ones, SubSeq(s, 1, through))
    BY <1>1, InCheck
  <2> QED
    BY <2>1
<1>3. PngTyped
  BY DEF PngInv
<1> HIDE DEF s
<1>4. through \in 0..(Len(s) - 1) /\ through + 1 \in 0..Len(s) /\ through + 1 \in Nat
  BY <1>1, <1>2
<1>5. running' = UpdateCrc(Ones, SubSeq(s, 1, through + 1)) /\ running' \in Words
  <2>1. Ones \in Words
    BY DEF Words
  <2>2. running' = UpdateCrc(Ones, SubSeq(s, 1, through + 1))
    BY <1>1, <1>2, <1>4, <2>1, UpdateNext
  <2>3. s[through + 1] \in Byte
    BY <1>2, <1>4
  <2>4. running \in Words
    BY <1>3 DEF PngTyped
  <2> QED
    BY <1>1, <2>2, <2>3, <2>4, UpdateIn
<1>6. PngTyped'
  BY <1>1, <1>3, <1>4, <1>5 DEF PngTyped
<1>7. PngOrder' /\ Reported' /\ InPlace'
  BY <1>1 DEF PngInv, PngOrder, Reported, InPlace, LengthsSame, ChunkAt
<1>8. Running'
  BY <1>1, <1>4, <1>5 DEF Running, s
<1> QED
  BY <1>6, <1>7, <1>8 DEF PngInv

\* ... and the comparison.
LEMMA StepCompare ==
  ASSUME PngInv, Compare
  PROVE  PngInv'
<1> DEFINE s == Covered(chunks[nth])
           ch == chunks[nth]
<1>1. /\ stage = "check" /\ file' = file /\ picture' = picture /\ pos' = pos
      /\ chunks' = chunks /\ shown' = shown /\ through = Len(s)
      /\ errors' = IF Matches(running, ch) \/ ~KnownType(ch) THEN errors ELSE errors \cup {nth}
      /\ \/ nth < 3 /\ NextChunk /\ stage' = stage
         \/ nth = 3 /\ stage' = "done" /\ nth' = nth /\ through' = through /\ running' = running
  BY DEF Compare
<1>2. /\ chunks \in Seq(ChunkSet) /\ Len(chunks) = 3 /\ nth \in 1..3
      /\ s \in Seq(Byte) /\ running = UpdateCrc(Ones, SubSeq(s, 1, through))
  BY <1>1, InCheck
<1>3. PngTyped /\ errors \in SUBSET (1..3)
  BY DEF PngInv, PngTyped
<1>4. nth \in errors' <=> Bad(ch)
  <2>1. SubSeq(s, 1, through) = s
    <3> HIDE DEF s
    <3> QED
      BY <1>1, <1>2
  <2>2. SymDiff(running, Ones) = CrcOf(s)
    BY <1>2, <2>1 DEF CrcOf
  <2>3. nth \notin errors
    <3>1. \A j \in 1..3 : j \in errors => j < nth
      BY <1>1, <1>2 DEF PngInv, Reported
    <3> QED
      BY <1>2, <3>1
  <2> HIDE DEF ch
  <2>4. Bad(ch) <=> KnownType(ch) /\ SymDiff(running, Ones) # ch.crc
    BY <2>2 DEF Bad, s, ch
  <2> QED
    BY <1>1, <2>3, <2>4 DEF Matches
<1>5. \A j \in 1..3 : j # nth => (j \in errors' <=> j \in errors)
  BY <1>1
<1>6. \A j \in 1..3 : j \in errors' <=> Bad(chunks[j]) /\ j <= nth
  <2> TAKE j \in 1..3
  <2>1. j \in errors <=> Bad(chunks[j]) /\ j < nth
    BY <1>1, <1>2 DEF PngInv, Reported
  <2>2. CASE j = nth
    BY <1>2, <1>4, <2>2
  <2>3. CASE j # nth
    <3>1. j < nth <=> j <= nth
      BY <1>2, <2>3
    <3> QED
      BY <1>5, <2>1, <2>3, <3>1
  <2> QED
    BY <2>2, <2>3
<1>7. errors' \in SUBSET (1..3)
  BY <1>1, <1>2, <1>3
<1>8. PngOrder'
  BY <1>1, <1>2 DEF PngInv, PngOrder
<1>9. InPlace'
  BY <1>1 DEF PngInv, InPlace, LengthsSame, ChunkAt
<1>10. CASE nth < 3 /\ NextChunk /\ stage' = stage
  <2>1. nth' = nth + 1 /\ through' = 0 /\ running' = Ones /\ nth + 1 \in 1..3
    BY <1>2, <1>10 DEF NextChunk
  <2>2. PngTyped'
    <3>1. Ones \in Words
      BY DEF Words
    <3> QED
      BY <1>1, <1>3, <1>7, <1>10, <2>1, <3>1 DEF PngTyped
  <2>3. Running'
    <3> DEFINE n == nth + 1
               v == Covered(chunks[n])
    <3>1. v \in Seq(Byte)
      BY <1>1, <2>1, InCheck
    <3> HIDE DEF v
    <3>2. Len(v) \in Nat /\ UpdateCrc(Ones, SubSeq(v, 1, 0)) = Ones
      BY <3>1, UpdateNone
    <3>3. 0 \in 0..Len(v)
      BY <3>2
    <3> QED
      BY <1>1, <2>1, <3>2, <3>3 DEF Running, v
  <2>4. Reported'
    <3>1. \A j \in 1..3 : j <= nth <=> j < nth + 1
      BY <1>2
    <3>2. stage' = "check"
      BY <1>1, <1>10
    <3> QED
      BY <1>1, <1>6, <2>1, <3>1, <3>2 DEF Reported
  <2> QED
    BY <1>8, <1>9, <2>2, <2>3, <2>4 DEF PngInv
<1>11. CASE nth = 3 /\ stage' = "done" /\ nth' = nth /\ through' = through /\ running' = running
  <2>1. PngTyped'
    BY <1>1, <1>3, <1>7, <1>11 DEF PngTyped
  <2>2. Running'
    BY <1>11 DEF Running
  <2>3. Reported'
    <3>1. \A j \in 1..3 : j <= nth
      BY <1>11
    <3> QED
      BY <1>1, <1>6, <1>11, <3>1 DEF Reported
  <2> QED
    BY <1>8, <1>9, <2>1, <2>2, <2>3 DEF PngInv
<1> QED
  BY <1>1, <1>10, <1>11

\* PngInv holds in every state of pnginfo, whatever the pictures and the damage.
THEOREM PngInvariant == PngSpec => []PngInv
<1>1. PngInit => PngInv
  BY InitPng
<1>2. PngInv /\ [PngNext]_pngVars => PngInv'
  <2> SUFFICES ASSUME PngInv, [PngNext]_pngVars PROVE PngInv'
    OBVIOUS
  <2>1. CASE UNCHANGED pngVars
    <3>1. /\ picture' = picture /\ file' = file /\ stage' = stage /\ pos' = pos
          /\ chunks' = chunks /\ shown' = shown /\ nth' = nth /\ through' = through
          /\ running' = running /\ errors' = errors
      BY <2>1 DEF pngVars
    <3> QED
      BY <3>1 DEF PngInv, PngTyped, PngOrder, Running, Reported, InPlace, LengthsSame, ChunkAt
  <2> QED
    BY <2>1, StepIsPng, StepReadChunk, StepShow, StepUpdateByte, StepCompare DEF PngNext
<1> QED
  BY <1>1, <1>2, PTL DEF PngSpec

\* The running CRC of update_crc is the remainder of the bytes so far, in every state.
THEOREM DividesHolds == PngSpec => []Divides
<1>1. PngInv => Divides
  <2> SUFFICES ASSUME PngInv, stage = "check"
               PROVE  running = Reference(SubSeq(Covered(chunks[nth]), 1, through))
    BY DEF Divides
  <2> DEFINE s == Covered(chunks[nth])
             u == SubSeq(s, 1, through)
  <2>1. s \in Seq(Byte) /\ through \in 0..Len(s) /\ running = UpdateCrc(Ones, u)
    BY InCheck
  <2> HIDE DEF s
  <2>2. u \in Seq(Byte)
    <3>1. through \in Nat /\ 1 \in Nat /\ 1 <= through + 1 /\ through <= Len(s)
      BY <2>1
    <3> QED
      BY <2>1, <3>1, Part
  <2> QED
    BY <2>1, <2>2, TableDivides DEF s
<1> QED
  BY <1>1, PngInvariant, PTL

\* A bit of the file is not what it was written as.
Damaged(q) == ~(IsSet(file, q) <=> IsSet(SoundFile(picture), q))

\* None of the bits from x to y is, if the file goes so far.
Whole(x, y) == \A q \in x..y : q < 8 * Len(file) => ~Damaged(q)

\* Of a chunk with m bytes of data at o, type and data are as they were written, or the
\* CRC is and what is damaged of type and data is within 32 bits.
BurstAt(o, m) ==
    \/ Whole(8 * (o + 4), 8 * (o + 8 + m) - 1)
    \/ /\ Whole(8 * (o + 8 + m), 8 * (o + 12 + m) - 1)
       /\ \E a \in Nat : \A q \in (8 * (o + 4))..(8 * (o + 8 + m) - 1) :
             q < 8 * Len(file) /\ Damaged(q) => q \in a..(a + 31)

\* In each chunk that the file has, the length is as it was written, and the damage is of
\* that kind. (A burst from data into the CRC is another kind: it is not consecutive in the
\* order of the division, since the CRC is stored with its highest byte first.)
BurstsOnly ==
    \A j \in 1..3 : /\ Whole(8 * Offset(picture, j), 8 * (Offset(picture, j) + 4) - 1)
                    /\ BurstAt(Offset(picture, j), Size(picture, j))

\* What has the same bits has the same bytes.
LEMMA SameBytes ==
  ASSUME NEW f \in Seq(Byte), NEW w \in Seq(Byte), Len(f) <= Len(w),
         NEW o \in Nat, NEW m \in Nat, o + m <= Len(f),
         \A q \in (8 * o)..(8 * (o + m) - 1) : IsSet(f, q) <=> IsSet(w, q)
  PROVE  \A k \in 1..m : f[o + k] = w[o + k]
<1> TAKE k \in 1..m
<1> DEFINE j == o + k - 1
<1>1. Len(f) \in Nat /\ Len(w) \in Nat
  OBVIOUS
<1>2. j \in Nat /\ j < Len(f) /\ j < Len(w) /\ j + 1 = o + k
  BY <1>1
<1>3. \A b \in 0..7 : 8 * j + b \in (8 * o)..(8 * (o + m) - 1)
  OBVIOUS
<1> HIDE DEF j
<1>4. \A b \in 0..7 : b \in f[j + 1] <=> b \in w[j + 1]
  BY <1>2, <1>3, ByteBits
<1>5. f[j + 1] \in Byte /\ w[j + 1] \in Byte
  BY <1>1, <1>2
<1> DEFINE x == f[j + 1]
           y == w[j + 1]
<1>6. x \in Byte /\ y \in Byte /\ \A b \in 0..7 : b \in x <=> b \in y
  BY <1>4, <1>5
<1>7. f[o + k] = x /\ w[o + k] = y
  BY <1>2
<1> HIDE DEF x, y
<1> QED
  BY <1>6, <1>7 DEF Byte

\* The bits of a part are those of the whole, further on.
LEMMA PartBits ==
  ASSUME NEW f \in Seq(Byte), NEW o \in Nat, NEW m \in Nat, o + m <= Len(f),
         NEW s \in Seq(Byte), Len(s) = m, \A k \in 1..m : s[k] = f[o + k],
         NEW q \in Nat
  PROVE  IsSet(s, q) <=> q < 8 * m /\ IsSet(f, 8 * o + q)
<1> DEFINE j == q \div 8
           b == q % 8
<1>1. j \in Nat /\ b \in 0..7 /\ q = 8 * j + b /\ Len(f) \in Nat
  OBVIOUS
<1>2. CASE q < 8 * m
  <2>1. j < m /\ j < Len(s) /\ o + j \in Nat /\ o + j < Len(f) /\ j + 1 \in 1..m
    BY <1>1, <1>2
  <2>2. 8 * o + q = 8 * (o + j) + b /\ o + (j + 1) = (o + j) + 1
    BY <1>1
  <2> HIDE DEF j, b
  <2>3. IsSet(s, 8 * j + b) <=> b \in s[j + 1]
    BY <1>1, <2>1, ByteBits
  <2> DEFINE i == o + j
  <2>4. i \in Nat /\ i < Len(f)
    BY <2>1
  <2> HIDE DEF i
  <2>5. IsSet(f, 8 * i + b) <=> b \in f[i + 1]
    BY <1>1, <2>4, ByteBits
  <2>6. s[j + 1] = f[i + 1]
    BY <2>1, <2>2 DEF i
  <2> QED
    BY <1>1, <1>2, <2>2, <2>3, <2>5, <2>6 DEF i
<1>3. CASE ~(q < 8 * m)
  BY <1>3 DEF IsSet
<1> QED
  BY <1>2, <1>3

\* Where a sound file has a chunk, and what it has there.
LEMMA SoundAt ==
  ASSUME NEW p \in Pictures, NEW j \in 1..3
  PROVE  LET ch == Sound(p)[j]
             o == Offset(p, j)
             m == Size(p, j)
         IN  /\ o \in Nat /\ m \in Nat
             /\ Covered(ch) \in Seq(Byte) /\ Len(Covered(ch)) = 4 + m
             /\ \A k \in 1..(4 + m) : Covered(ch)[k] = SoundFile(p)[(o + 4) + k]
             /\ \A k \in 1..4 : Bytes4(ch.crc)[k] = SoundFile(p)[(o + 8 + m) + k]
<1> DEFINE ch == Sound(p)[j]
           o == Offset(p, j)
           m == Size(p, j)
           f == SoundFile(p)
           l == Laid(ch)
           td == ch.type \o ch.data
<1>1. o \in Nat /\ m \in Nat
  <2>1. Len(p.idat) \in Nat
    BY FileLaidOut
  <2> QED
    BY <2>1 DEF Offset, Size
<1>2. \A k \in 1..(12 + m) : f[o + k] = l[k]
  BY FileLaidOut
<1>3. /\ \A k \in 1..(4 + m) : l[4 + k] = td[k]
      /\ \A k \in 1..4 : l[8 + m + k] = Bytes4(ch.crc)[k]
  BY LaidOut
<1>4. td \in Seq(Byte) /\ Len(td) = 4 + m
  <2>1. /\ ch.type \in Seq(Byte) /\ Len(ch.type) = 4
        /\ ch.data \in Seq(Byte) /\ Len(ch.data) = m
    BY SoundChunks DEF IsSound
  <2> DEFINE x == ch.type
             y == ch.data
  <2>2. x \in Seq(Byte) /\ y \in Seq(Byte) /\ Len(x) = 4 /\ Len(y) = m
    BY <2>1
  <2> HIDE DEF x, y, m
  <2>3. x \o y \in Seq(Byte) /\ Len(x \o y) = Len(x) + Len(y)
    BY <2>2, Plus
  <2> QED
    BY <2>2, <2>3 DEF x, y
<1>5. Covered(ch) = td
  BY DEF Covered
<1> HIDE DEF o, m, f, l, td, ch
<1>6. \A k \in 1..(4 + m) : 4 + k \in 1..(12 + m) /\ (o + 4) + k = o + (4 + k)
  BY <1>1
<1>7. \A k \in 1..4 : 8 + m + k \in 1..(12 + m) /\ (o + 8 + m) + k = o + (8 + m + k)
  BY <1>1
<1>8. \A k \in 1..(4 + m) : td[k] = f[(o + 4) + k]
  BY <1>2, <1>3, <1>6
<1>9. \A k \in 1..4 : Bytes4(ch.crc)[k] = f[(o + 8 + m) + k]
  BY <1>2, <1>3, <1>7
<1> QED
  BY <1>1, <1>4, <1>5, <1>8, <1>9 DEF o, m, f, ch

\* What a chunk of the file is made of, byte by byte.
LEMMA ReadAt ==
  ASSUME file \in Seq(Byte), NEW o \in Nat, NEW m \in Nat, o + 12 + m <= Len(file)
  PROVE  LET ch == ChunkAt(o, m)
             four == SubSeq(file, o + 9 + m, o + 12 + m)
         IN  /\ ch.type \in Seq(Byte) /\ Len(ch.type) = 4
             /\ ch.data \in Seq(Byte) /\ Len(ch.data) = m
             /\ Covered(ch) \in Seq(Byte) /\ Len(Covered(ch)) = 4 + m
             /\ \A k \in 1..(4 + m) : Covered(ch)[k] = file[(o + 4) + k]
             /\ four \in Seq(Byte) /\ Len(four) = 4 /\ ch.crc = Word(four)
             /\ \A k \in 1..4 : four[k] = file[(o + 8 + m) + k]
<1> DEFINE ch == ChunkAt(o, m)
           four == SubSeq(file, o + 9 + m, o + 12 + m)
           x == SubSeq(file, o + 5, o + 8)
           y == SubSeq(file, o + 9, o + 8 + m)
<1>1. Len(file) \in Nat
  OBVIOUS
<1>2. x \in Seq(Byte) /\ Len(x) = 4 /\ \A k \in 1..4 : x[k] = file[(o + 4) + k]
  <2>1. /\ o + 5 \in Nat /\ o + 8 \in Nat /\ 1 <= o + 5 /\ o + 5 <= o + 8 + 1
        /\ o + 8 <= Len(file) /\ o + 8 + 1 - (o + 5) = 4
        /\ \A k \in 1..4 : o + 5 + k - 1 = (o + 4) + k
    BY <1>1
  <2>2. /\ x \in Seq(Byte) /\ Len(x) = o + 8 + 1 - (o + 5)
        /\ \A k \in 1..(o + 8 + 1 - (o + 5)) : x[k] = file[o + 5 + k - 1]
    BY <2>1, Part
  <2> HIDE DEF x
  <2> QED
    BY <2>1, <2>2
<1>3. y \in Seq(Byte) /\ Len(y) = m /\ \A k \in 1..m : y[k] = file[(o + 8) + k]
  <2>1. /\ o + 9 \in Nat /\ o + 8 + m \in Nat /\ 1 <= o + 9 /\ o + 9 <= o + 8 + m + 1
        /\ o + 8 + m <= Len(file) /\ o + 8 + m + 1 - (o + 9) = m
        /\ \A k \in 1..m : o + 9 + k - 1 = (o + 8) + k
    BY <1>1
  <2>2. /\ y \in Seq(Byte) /\ Len(y) = o + 8 + m + 1 - (o + 9)
        /\ \A k \in 1..(o + 8 + m + 1 - (o + 9)) : y[k] = file[o + 9 + k - 1]
    BY <2>1, Part
  <2> HIDE DEF y
  <2> QED
    BY <2>1, <2>2
<1>4. four \in Seq(Byte) /\ Len(four) = 4 /\ \A k \in 1..4 : four[k] = file[(o + 8 + m) + k]
  <2> DEFINE u == o + 9 + m
             v == o + 12 + m
  <2>1. /\ u \in Nat /\ v \in Nat /\ 1 <= u /\ u <= v + 1
        /\ v <= Len(file) /\ v + 1 - u = 4
        /\ \A k \in 1..4 : u + k - 1 = (o + 8 + m) + k
    BY <1>1
  <2>2. four = SubSeq(file, u, v)
    OBVIOUS
  <2> HIDE DEF four, u, v
  <2>3. /\ four \in Seq(Byte) /\ Len(four) = v + 1 - u
        /\ \A k \in 1..(v + 1 - u) : four[k] = file[u + k - 1]
    BY <2>1, <2>2, Part
  <2> QED
    BY <2>1, <2>3
<1>5. ch.type = x /\ ch.data = y /\ ch.crc = Word(four) /\ Covered(ch) = x \o y
  BY DEF ChunkAt, Covered
<1> HIDE DEF ch, four, x, y
<1>6. /\ x \o y \in Seq(Byte) /\ Len(x \o y) = Len(x) + Len(y)
      /\ \A k \in 1..Len(x) : (x \o y)[k] = x[k]
      /\ \A k \in 1..Len(y) : (x \o y)[Len(x) + k] = y[k]
  BY <1>2, <1>3, Plus
<1>7. x \o y \in Seq(Byte) /\ Len(x \o y) = 4 + m
  BY <1>2, <1>3, <1>6
<1>8. ASSUME NEW k \in 1..(4 + m)
      PROVE  (x \o y)[k] = file[(o + 4) + k]
  <2>1. CASE k <= 4
    <3>1. k \in 1..4
      BY <2>1
    <3> QED
      BY <1>2, <1>6, <3>1
  <2>2. CASE k > 4
    <3> DEFINE i == k - 4
    <3>1. i \in 1..m /\ 4 + i = k /\ (o + 8) + i = (o + 4) + k
      BY <2>2
    <3> HIDE DEF i
    <3>2. (x \o y)[4 + i] = y[i]
      BY <1>2, <1>3, <1>6, <3>1
    <3> QED
      BY <1>3, <3>1, <3>2
  <2>3. k <= 4 \/ k > 4
    OBVIOUS
  <2> QED
    BY <2>1, <2>2, <2>3
<1> QED
  BY <1>2, <1>3, <1>4, <1>5, <1>7, <1>8 DEF ch, four

\* Sequences are the same if their elements are.
LEMMA SameSeq ==
  ASSUME NEW s \in Seq(Byte), NEW t \in Seq(Byte), Len(s) = Len(t),
         \A k \in 1..Len(s) : s[k] = t[k]
  PROVE  s = t
OBVIOUS

\* The parts of a whole are the same if the whole and their lengths are.
LEMMA SameParts ==
  ASSUME NEW x \in Seq(Byte), NEW y \in Seq(Byte), NEW u \in Seq(Byte), NEW v \in Seq(Byte),
         Len(x) = Len(u), Len(y) = Len(v), x \o y = u \o v
  PROVE  x = u /\ y = v
<1>1. /\ \A k \in 1..Len(x) : (x \o y)[k] = x[k]
      /\ \A k \in 1..Len(y) : (x \o y)[Len(x) + k] = y[k]
  BY Plus
<1>2. /\ \A k \in 1..Len(u) : (u \o v)[k] = u[k]
      /\ \A k \in 1..Len(v) : (u \o v)[Len(u) + k] = v[k]
  BY Plus
<1> DEFINE z == x \o y
<1>3. z = u \o v
  OBVIOUS
<1> HIDE DEF z
<1>4. \A k \in 1..Len(x) : x[k] = u[k]
  BY <1>1, <1>2, <1>3 DEF z
<1>5. \A k \in 1..Len(y) : y[k] = v[k]
  BY <1>1, <1>2, <1>3 DEF z
<1> QED
  BY <1>4, <1>5, SameSeq

\* With such damage the length fields are as they were written.
LEMMA LengthsKept ==
  ASSUME PngTyped, BurstsOnly
  PROVE  LengthsSame
<1> SUFFICES ASSUME NEW j \in 1..3, NEW b \in 1..4, Offset(picture, j) + b <= Len(file)
             PROVE  file[Offset(picture, j) + b] = SoundFile(picture)[Offset(picture, j) + b]
  BY DEF LengthsSame
<1> DEFINE o == Offset(picture, j)
           f == SoundFile(picture)
           x == o + b - 1
<1>1. picture \in Pictures /\ file \in Seq(Byte) /\ f \in Seq(Byte) /\ Len(file) <= Len(f)
  BY FileLaidOut DEF PngTyped
<1>2. o \in Nat
  BY <1>1, SoundAt
<1>3. Whole(8 * o, 8 * (o + 4) - 1)
  BY DEF BurstsOnly
<1> HIDE DEF o
<1>4. x \in Nat /\ x + 1 = o + b /\ x + 1 <= Len(file)
  BY <1>2 DEF o
<1>5. ASSUME NEW q \in (8 * x)..(8 * (x + 1) - 1)
      PROVE  IsSet(file, q) <=> IsSet(f, q)
  <2>1. Len(file) \in Nat
    BY <1>1
  <2>2. q \in (8 * o)..(8 * (o + 4) - 1) /\ q < 8 * Len(file)
    BY <1>2, <1>4, <2>1
  <2> QED
    BY <1>3, <2>2 DEF Whole, Damaged
<1> HIDE DEF x, f
<1>6. 1 \in Nat /\ 1 \in 1..1
  OBVIOUS
<1>7. file[x + 1] = f[x + 1]
  BY <1>1, <1>4, <1>5, <1>6, SameBytes
<1> QED
  BY <1>4, <1>7 DEF o, f

\* A chunk read where it was written has the CRC of its type and data only if it is as
\* it was written.
LEMMA ChunkDamaged ==
  ASSUME PngTyped, NEW j \in 1..3,
         Offset(picture, j) + 12 + Size(picture, j) <= Len(file),
         BurstAt(Offset(picture, j), Size(picture, j))
  PROVE  LET ch == ChunkAt(Offset(picture, j), Size(picture, j))
         IN  CrcOf(Covered(ch)) = ch.crc <=> ch = Sound(picture)[j]
<1> DEFINE o == Offset(picture, j)
           m == Size(picture, j)
           f == SoundFile(picture)
           ch == ChunkAt(o, m)
           good == Sound(picture)[j]
           four == SubSeq(file, o + 9 + m, o + 12 + m)
           s == Covered(good)
           t == Covered(ch)
           v == Bytes4(good.crc)
<1>1. picture \in Pictures /\ file \in Seq(Byte) /\ f \in Seq(Byte) /\ Len(file) <= Len(f)
  BY FileLaidOut DEF PngTyped
<1>2. /\ o \in Nat /\ m \in Nat /\ s \in Seq(Byte) /\ Len(s) = 4 + m
      /\ \A k \in 1..(4 + m) : s[k] = f[(o + 4) + k]
      /\ \A k \in 1..4 : v[k] = f[(o + 8 + m) + k]
  BY <1>1, SoundAt
<1>3. o + 12 + m <= Len(file) /\ BurstAt(o, m)
  OBVIOUS
<1>4. /\ good.type \in Seq(Byte) /\ Len(good.type) = 4
      /\ good.data \in Seq(Byte) /\ Len(good.data) = m
      /\ good.crc = CrcOf(s) /\ good.crc \in Words
      /\ good = [type |-> good.type, data |-> good.data, crc |-> good.crc]
  BY <1>1, SoundChunks DEF IsSound, Covered
<1>5. v \in Seq(Byte) /\ Len(v) = 4 /\ Word(v) = good.crc
  BY <1>4, BytesWord
<1> HIDE DEF o, m, f, good, v
<1>6. /\ ch.type \in Seq(Byte) /\ Len(ch.type) = 4
      /\ ch.data \in Seq(Byte) /\ Len(ch.data) = m
      /\ t \in Seq(Byte) /\ Len(t) = 4 + m
      /\ \A k \in 1..(4 + m) : t[k] = file[(o + 4) + k]
      /\ four \in Seq(Byte) /\ Len(four) = 4 /\ ch.crc = Word(four)
      /\ \A k \in 1..4 : four[k] = file[(o + 8 + m) + k]
  BY <1>1, <1>2, <1>3, ReadAt
<1>7. ch = [type |-> ch.type, data |-> ch.data, crc |-> ch.crc]
  BY DEF ChunkAt
<1>8. s = good.type \o good.data /\ t = ch.type \o ch.data
  BY DEF Covered
<1> HIDE DEF ch, four, s, t
<1>9. Len(file) \in Nat
  BY <1>1
<1>10. s = t => good.type = ch.type /\ good.data = ch.data
  <2> DEFINE x == good.type
             y == good.data
             u == ch.type
             w == ch.data
  <2>1. /\ x \in Seq(Byte) /\ y \in Seq(Byte) /\ u \in Seq(Byte) /\ w \in Seq(Byte)
        /\ Len(x) = Len(u) /\ Len(y) = Len(w)
    BY <1>4, <1>6
  <2>2. s = x \o y /\ t = u \o w
    BY <1>8
  <2> HIDE DEF x, y, u, w
  <2>3. x \o y = u \o w => x = u /\ y = w
    BY <2>1, SameParts
  <2> QED
    BY <2>2, <2>3 DEF x, y, u, w
<1>11. ASSUME Whole(8 * (o + 4), 8 * (o + 8 + m) - 1)
       PROVE  CrcOf(t) = ch.crc <=> ch = good
  <2>1. \A k \in 1..(4 + m) : file[(o + 4) + k] = f[(o + 4) + k]
    <3> DEFINE x == o + 4
               y == 4 + m
    <3>1. x \in Nat /\ y \in Nat /\ x + y <= Len(file) /\ x + y = o + 8 + m
      <4>1. o \in Nat /\ m \in Nat /\ o + 12 + m <= Len(file)
        BY <1>2, <1>3
      <4> QED
        BY <1>9, <4>1
    <3>2. ASSUME NEW q \in (8 * x)..(8 * (x + y) - 1)
          PROVE  IsSet(file, q) <=> IsSet(f, q)
      <4>1. q \in (8 * (o + 4))..(8 * (o + 8 + m) - 1) /\ q < 8 * Len(file)
        BY <1>2, <1>3, <1>9, <3>1
      <4> QED
        BY <1>11, <4>1 DEF Whole, Damaged, f
    <3> HIDE DEF x, y
    <3>3. \A k \in 1..y : file[x + k] = f[x + k]
      BY <1>1, <3>1, <3>2, SameBytes
    <3> QED
      BY <3>3 DEF x, y
  <2>2. s = t
    <3> DEFINE n == 4 + m
    <3>1. /\ s \in Seq(Byte) /\ t \in Seq(Byte) /\ Len(s) = n /\ Len(t) = n
          /\ \A k \in 1..n : s[k] = t[k]
      BY <1>2, <1>6, <2>1
    <3> HIDE DEF n
    <3> QED
      BY <3>1, SameSeq
  <2> QED
    BY <1>4, <1>7, <1>10, <2>2
<1>12. ASSUME Whole(8 * (o + 8 + m), 8 * (o + 12 + m) - 1),
              \E a \in Nat : \A q \in (8 * (o + 4))..(8 * (o + 8 + m) - 1) :
                 q < 8 * Len(file) /\ Damaged(q) => q \in a..(a + 31)
       PROVE  CrcOf(t) = ch.crc <=> ch = good
  <2>1. \A k \in 1..4 : file[(o + 8 + m) + k] = f[(o + 8 + m) + k]
    <3> DEFINE x == o + 8 + m
               y == 4
    <3>1. x \in Nat /\ y \in Nat /\ x + y <= Len(file) /\ x + y = o + 12 + m
      <4>1. o \in Nat /\ m \in Nat /\ o + 12 + m <= Len(file)
        BY <1>2, <1>3
      <4> QED
        BY <1>9, <4>1
    <3>2. ASSUME NEW q \in (8 * x)..(8 * (x + y) - 1)
          PROVE  IsSet(file, q) <=> IsSet(f, q)
      <4>1. q \in (8 * (o + 8 + m))..(8 * (o + 12 + m) - 1) /\ q < 8 * Len(file)
        <5>1. x = o + 8 + m /\ o \in Nat /\ m \in Nat /\ o + 12 + m <= Len(file)
          BY <1>2, <1>3
        <5> DEFINE e == x + y
        <5>2. e = o + 12 + m
          BY <3>1
        <5>3. q \in (8 * x)..(8 * e - 1)
          OBVIOUS
        <5> HIDE DEF x, y, e
        <5> QED
          BY <1>9, <5>1, <5>2, <5>3
      <4> QED
        BY <1>12, <4>1 DEF Whole, Damaged, f
    <3> HIDE DEF x, y
    <3>3. \A k \in 1..y : file[x + k] = f[x + k]
      BY <1>1, <3>1, <3>2, SameBytes
    <3> QED
      BY <3>3 DEF x, y
  <2>2. four = v
    <3>1. \A k \in 1..4 : four[k] = v[k]
      BY <1>2, <1>6, <2>1
    <3>2. 4 \in Nat
      OBVIOUS
    <3> QED
      BY <1>5, <1>6, <3>1, <3>2, SameSeq
  <2>3. ch.crc = CrcOf(s)
    BY <1>4, <1>5, <1>6, <2>2
  <2>4. ASSUME s # t
        PROVE  CrcOf(t) # ch.crc
    <3>1. PICK a \in Nat : \A q \in (8 * (o + 4))..(8 * (o + 8 + m) - 1) :
                              q < 8 * Len(file) /\ Damaged(q) => q \in a..(a + 31)
      BY <1>12
    <3> DEFINE x == 8 * (o + 4)
               z == IF a < x THEN 0 ELSE a - x
    <3>2. x \in Nat /\ z \in Nat
      BY <1>2
    <3>3. ASSUME NEW q \in Nat, ~(IsSet(s, q) <=> IsSet(t, q))
          PROVE  q \in z..(z + 31)
      <4> DEFINE y == o + 4
                 n == 4 + m
      <4>1. y \in Nat /\ n \in Nat /\ y + n <= Len(file) /\ y + n <= Len(f)
        <5>1. Len(f) \in Nat
          BY <1>1
        <5> QED
          BY <1>1, <1>2, <1>3, <1>9, <5>1
      <4>2. /\ s \in Seq(Byte) /\ t \in Seq(Byte) /\ Len(s) = n /\ Len(t) = n
            /\ \A k \in 1..n : s[k] = f[y + k] /\ t[k] = file[y + k]
        BY <1>2, <1>6
      <4> HIDE DEF y, n
      <4>3. IsSet(s, q) <=> q < 8 * n /\ IsSet(f, 8 * y + q)
        BY <1>1, <4>1, <4>2, PartBits
      <4>4. IsSet(t, q) <=> q < 8 * n /\ IsSet(file, 8 * y + q)
        BY <1>1, <4>1, <4>2, PartBits
      <4>5. q < 8 * n /\ Damaged(8 * y + q)
        BY <3>3, <4>3, <4>4 DEF Damaged, f
      <4>6. /\ 8 * y + q \in (8 * (o + 4))..(8 * (o + 8 + m) - 1)
            /\ 8 * y + q < 8 * Len(file)
        BY <1>2, <1>3, <1>9, <4>5 DEF y, n
      <4>7. 8 * y + q \in a..(a + 31)
        BY <3>1, <4>5, <4>6
      <4> QED
        BY <1>2, <4>7 DEF y
    <3> HIDE DEF z
    <3>4. Burst(s, t, z)
      BY <1>2, <1>6, <2>4, <3>3 DEF Burst
    <3> QED
      BY <1>2, <1>6, <2>3, <3>2, <3>4, BurstsDetected
  <2>5. s = t => ch = good /\ CrcOf(t) = ch.crc
    BY <1>4, <1>7, <1>10, <2>3
  <2>6. ch = good => s = t
    BY <1>8
  <2> QED
    BY <2>4, <2>5, <2>6
<1>13. CrcOf(t) = ch.crc <=> ch = good
  <2>1. \/ Whole(8 * (o + 4), 8 * (o + 8 + m) - 1)
        \/ /\ Whole(8 * (o + 8 + m), 8 * (o + 12 + m) - 1)
           /\ \E a \in Nat : \A q \in (8 * (o + 4))..(8 * (o + 8 + m) - 1) :
                 q < 8 * Len(file) /\ Damaged(q) => q \in a..(a + 31)
    BY <1>3 DEF BurstAt
  <2> QED
    BY <1>11, <1>12, <2>1
<1> QED
  BY <1>13 DEF t, ch, good, o, m

\* pnginfo is left without defined behaviour only by a file that was cut off or has a damaged
\* length: whatever else is damaged, the readers (lab_png.c:64-126) find every chunk.
THEOREM LengthsSuffice == PngSpec => [](stage = "undefined" => ~LengthsWhole)
<1>1. PngInv => (stage = "undefined" => ~LengthsWhole)
  <2> SUFFICES ASSUME PngInv, stage = "undefined", LengthsWhole PROVE FALSE
    OBVIOUS
  <2> DEFINE len == Len(picture.idat)
             fields == 9..12 \cup 34..37 \cup {46 + len + b : b \in 0..3}
  <2>1. /\ Len(file) = Len(SoundFile(picture))
        /\ \A b \in fields : file[b] = SoundFile(picture)[b]
    BY DEF LengthsWhole
  <2>2. len \in Nat
    <3>1. picture \in Pictures
      BY DEF PngInv, PngTyped
    <3> QED
      BY <3>1, FileLaidOut
  <2>3. ASSUME NEW j \in 1..3, NEW b \in 1..4
        PROVE  Offset(picture, j) + b \in fields
    <3>1. /\ Offset(picture, 1) = 8 /\ Offset(picture, 2) = 33
          /\ Offset(picture, 3) = 45 + len
      BY DEF Offset
    <3> HIDE DEF len
    <3>2. /\ 8 + b \in 9..12 /\ 33 + b \in 34..37 /\ b - 1 \in 0..3
          /\ 45 + len + b = 46 + len + (b - 1)
      BY <2>2
    <3>3. j = 1 \/ j = 2 \/ j = 3
      OBVIOUS
    <3> QED
      BY <3>1, <3>2, <3>3
  <2>4. LengthsSame
    <3> HIDE DEF fields
    <3> QED
      BY <2>1, <2>3 DEF LengthsSame
  <2>5. Len(file) < Len(SoundFile(picture))
    BY <2>4 DEF PngInv, InPlace
  <2>6. Len(file) \in Nat
    BY DEF PngInv, PngTyped
  <2> QED
    BY <2>1, <2>5, <2>6
<1> QED
  BY <1>1, PngInvariant, PTL

\* What pnginfo says of a damaged file can be relied on, for every picture and every
\* file with damage of that kind, however many chunks have it: an error is printed for each
\* chunk that is not as it was written (crc_check, lab_png.c:128-155) and for no other, if
\* its type is known, and the dimensions are right if there is none for IHDR.
THEOREM BurstsReported == PngSpec => [](BurstsOnly => DataChecked)
<1>1. PngInv /\ BurstsOnly /\ (stage = "undefined" => ~LengthsWhole) => DataChecked
  <2> SUFFICES ASSUME PngInv, BurstsOnly, stage = "undefined" => ~LengthsWhole
               PROVE  DataChecked
    OBVIOUS
  <2>1. PngTyped /\ LengthsSame
    BY LengthsKept DEF PngInv
  <2>2. ASSUME stage = "done", Len(chunks) = 3
        PROVE  /\ \A j \in 1..3 :
                     KnownType(chunks[j]) => (j \in errors <=> chunks[j] # Sound(picture)[j])
               /\ 1 \notin errors /\ shown # <<>> => shown = Dimensions(picture.ihdr)
    <3>1. ASSUME NEW j \in 1..3, KnownType(chunks[j])
          PROVE  j \in errors <=> chunks[j] # Sound(picture)[j]
      <4>1. j \in errors <=> Bad(chunks[j])
        BY <2>2 DEF PngInv, Reported
      <4>2. /\ Offset(picture, j) + 12 + Size(picture, j) <= Len(file)
            /\ chunks[j] = ChunkAt(Offset(picture, j), Size(picture, j))
        BY <2>1, <2>2 DEF PngInv, InPlace
      <4>3. BurstAt(Offset(picture, j), Size(picture, j))
        BY DEF BurstsOnly
      <4>4. CrcOf(Covered(chunks[j])) = chunks[j].crc <=> chunks[j] = Sound(picture)[j]
        BY <2>1, <4>2, <4>3, ChunkDamaged
      <4> QED
        BY <3>1, <4>1, <4>4 DEF Bad
    <3>2. ASSUME 1 \notin errors, shown # <<>>
          PROVE  shown = Dimensions(picture.ihdr)
      <4>1. chunks[1].type = Types.IHDR /\ shown = Dimensions(chunks[1].data)
        BY <2>2, <3>2 DEF PngInv, PngOrder
      <4>2. KnownType(chunks[1])
        BY <4>1 DEF KnownType, Types
      <4>3. chunks[1] = Sound(picture)[1]
        BY <3>1, <3>2, <4>2
      <4>4. Sound(picture)[1].data = picture.ihdr
        <5>1. picture \in Pictures /\ 1 \in 1..3
          BY <2>1 DEF PngTyped
        <5> QED
          BY <5>1, SoundChunks DEF IsSound
      <4> QED
        BY <4>1, <4>3, <4>4
    <3> QED
      BY <3>1, <3>2
  <2> QED
    BY <2>2 DEF DataChecked
<1> QED
  BY <1>1, PngInvariant, LengthsSuffice, PTL

-----------------------------------------------------------------------------
(* findpng: the invariant *)

Frames == [dir : Nodes, rest : SUBSET Nodes]

Typed ==
    /\ tree \in Trees /\ limit \in Limits
    /\ pc \in {"search", "returned", "crashed"}
    /\ pc = "search" <=> stack # <<>>
    /\ stack \in Seq(Frames)
    /\ open_files \in Nat /\ Descriptors <= limit
    /\ printed \in Seq(Nodes)

Unread == UNION {stack[k].rest : k \in DOMAIN stack}

\* S is the set of the entries read, and the root. The calls on the stack are for different
\* directories of it and are to read entries outside it, below which none is in it; what
\* was printed is in it, and ftype has opened a file for each but the root.
Read(S) ==
    /\ tree.root \in S
    /\ \A k \in DOMAIN stack :
          /\ stack[k].dir \in S \cap Dirs
          /\ stack[k].rest \subseteq tree.entries[stack[k].dir] \ S
    /\ \A j, k \in DOMAIN stack : stack[j].dir = stack[k].dir => j = k
    /\ \A n \in Nodes \ S : tree.entries[n] \cap S = {}
    /\ Listed \subseteq S \ {tree.root}
    /\ Cardinality(S) = open_files + 1

Enough ==
    /\ limit >= Cardinality(Nodes) + Cardinality(Dirs)
    /\ \A n \in Nodes : tree.kind[n] # "denied"

\* With enough descriptors every entry of a directory read is read or will be, and every PNG
\* file read is printed.
Complete(S) ==
    /\ pc # "crashed"
    /\ \A d \in S : tree.entries[d] \subseteq S \cup Unread
    /\ S \cap Pngs \subseteq Listed

SearchInv ==
    /\ Typed
    /\ IsInjective(printed)
    /\ \A n \in Listed : tree.kind[n] # "other"
    /\ \E S \in SUBSET Nodes : Read(S) /\ (Enough => Complete(S))

-----------------------------------------------------------------------------
(* Trees and stacks *)

LEMMA TreeFacts ==
  ASSUME tree \in Trees
  PROVE  /\ IsFiniteSet(Nodes) /\ tree.root \in Nodes
         /\ tree.entries \in [Nodes -> SUBSET Nodes]
         /\ \A n \in Nodes : tree.kind[n] # "dir" => tree.entries[n] = {}
         /\ \A d \in Nodes : tree.root \notin tree.entries[d]
         /\ \A d, e \in Nodes : d # e => tree.entries[d] \cap tree.entries[e] = {}
         /\ \A S \in SUBSET Nodes :
                tree.root \in S /\ (\A d \in S : tree.entries[d] \subseteq S) => S = Nodes
BY TreeAssumption DEF IsTree, Nodes

LEMMA TopAndLower ==
  ASSUME NEW S, stack \in Seq(S), stack # <<>>
  PROVE  /\ Len(stack) \in Nat \ {0} /\ DOMAIN stack = 1..Len(stack)
         /\ Top \in S /\ Top = stack[Len(stack)]
         /\ Lower \in Seq(S) /\ Len(Lower) = Len(stack) - 1
         /\ DOMAIN Lower = 1..(Len(stack) - 1)
         /\ \A k \in 1..(Len(stack) - 1) : Lower[k] = stack[k]
<1>1. /\ Len(stack) \in Nat \ {0} /\ DOMAIN stack = 1..Len(stack)
      /\ \A k \in 1..Len(stack) : stack[k] \in S
  OBVIOUS
<1>2. Top \in S /\ Top = stack[Len(stack)]
  BY <1>1 DEF Top
<1>3. Lower = [k \in 1..(Len(stack) - 1) |-> stack[k]]
  BY <1>1 DEF Lower
<1>4. Lower \in Seq(S) /\ Len(Lower) = Len(stack) - 1
  BY <1>1, <1>3
<1> QED
  BY <1>1, <1>2, <1>3, <1>4

\* A frame whose entry n has been read.
Without(f, n) == [f EXCEPT !.rest = @ \ {n}]

LEMMA WithoutRest ==
  ASSUME NEW N, NEW f \in [dir : N, rest : SUBSET N], NEW n
  PROVE  /\ Without(f, n) \in [dir : N, rest : SUBSET N]
         /\ Without(f, n).dir = f.dir /\ Without(f, n).rest = f.rest \ {n}
BY DEF Without

\* The stack after entry n: the top frame without it, and perhaps a frame for it.
LEMMA SearchStack ==
  ASSUME Typed, stack # <<>>, NEW n \in Top.rest, NEW used
  PROVE  LET L == Len(stack)
             s == Search(n, used)
         IN  /\ n \in Nodes /\ s \in Seq(Frames) /\ s # <<>>
             /\ Len(s) = IF CanOpen(n, used) THEN L + 1 ELSE L
             /\ \A k \in 1..(L - 1) : s[k] = stack[k]
             /\ s[L].dir = Top.dir /\ s[L].rest = Top.rest \ {n}
             /\ CanOpen(n, used) => s[L + 1].dir = n /\ s[L + 1].rest = tree.entries[n]
<1> DEFINE L == Len(stack)
           top == Without(Top, n)
           above == Append(Lower, top)
<1>1. /\ L \in Nat \ {0} /\ Top \in Frames
      /\ Lower \in Seq(Frames) /\ Len(Lower) = L - 1
      /\ \A k \in 1..(L - 1) : Lower[k] = stack[k]
  BY TopAndLower DEF Typed
<1>2. top \in Frames /\ top.dir = Top.dir /\ top.rest = Top.rest \ {n}
  BY <1>1, WithoutRest DEF Frames
<1>3. n \in Nodes
  BY <1>1 DEF Frames
<1>4. Frame(n) \in Frames /\ Frame(n).dir = n /\ Frame(n).rest = tree.entries[n]
  BY <1>3, TreeFacts DEF Typed, Frame, Frames
<1>5. Search(n, used) = IF CanOpen(n, used) THEN Append(above, Frame(n)) ELSE above
  BY DEF Search, Without
<1> HIDE DEF top
<1>6. /\ above \in Seq(Frames) /\ Len(above) = L /\ above # <<>>
      /\ \A k \in 1..(L - 1) : above[k] = stack[k]
      /\ above[L] = top
  <2> HIDE DEF L
  <2>1. /\ above \in Seq(Frames) /\ Len(above) = L /\ above # <<>>
        /\ \A k \in 1..(L - 1) : above[k] = Lower[k]
        /\ above[L] = top
    BY <1>1, <1>2
  <2> QED
    BY <1>1, <2>1
<1>7. CASE CanOpen(n, used)
  <2> HIDE DEF above, L
  <2>1. /\ Append(above, Frame(n)) \in Seq(Frames)
        /\ Len(Append(above, Frame(n))) = L + 1
        /\ Append(above, Frame(n)) # <<>>
        /\ \A k \in 1..L : Append(above, Frame(n))[k] = above[k]
        /\ Append(above, Frame(n))[L + 1] = Frame(n)
    BY <1>1, <1>4, <1>6
  <2> QED
    BY <1>1, <1>2, <1>3, <1>4, <1>5, <1>6, <1>7, <2>1 DEF L
<1>8. CASE ~CanOpen(n, used)
  <2> HIDE DEF above
  <2> QED
    BY <1>1, <1>2, <1>3, <1>5, <1>6, <1>8
<1> QED
  BY <1>7, <1>8

\* There are no more calls than directories, and a file can be read while one is unread.
LEMMA EnoughLeft ==
  ASSUME Typed, Enough, NEW S \in SUBSET Nodes, Read(S)
  PROVE  /\ Len(stack) <= Cardinality(Dirs)
         /\ \A n \in Nodes \ S : Descriptors + 1 < limit
<1>1. /\ IsFiniteSet(Nodes) /\ IsFiniteSet(Dirs) /\ IsFiniteSet(S)
      /\ Cardinality(Dirs) \in Nat /\ Cardinality(Nodes) \in Nat
  <2>1. IsFiniteSet(Nodes) /\ Dirs \subseteq Nodes
    BY TreeFacts DEF Typed, Dirs
  <2> QED
    BY <2>1, FS_Subset, FS_CardinalityType
<1>2. /\ limit \in Nat /\ limit >= Cardinality(Nodes) + Cardinality(Dirs)
      /\ open_files \in Nat /\ Descriptors = Len(stack) + open_files
  BY LimitAssumption DEF Typed, Enough, Descriptors
<1>3. /\ Len(stack) \in Nat /\ DOMAIN stack = 1..Len(stack)
  BY DEF Typed
<1>4. Len(stack) <= Cardinality(Dirs)
  <2> DEFINE d == [k \in 1..Len(stack) |-> stack[k].dir]
  <2>1. d \in Injection(1..Len(stack), Dirs)
    BY <1>3 DEF Read, Injection, IsInjective
  <2>2. IsFiniteSet(1..Len(stack)) /\ Cardinality(1..Len(stack)) = Len(stack)
    <3> DEFINE L == Len(stack)
    <3>1. L \in Int /\ L >= 0 /\ 1 \in Int
      BY <1>3
    <3> HIDE DEF L
    <3>2. IsFiniteSet(1..L) /\ Cardinality(1..L) = IF 1 > L THEN 0 ELSE L - 1 + 1
      BY <3>1, FS_Interval
    <3>3. Cardinality(1..L) = L
      BY <3>1, <3>2
    <3> QED
      BY <3>2, <3>3 DEF L
  <2> HIDE DEF d
  <2>3. Cardinality(1..Len(stack)) <= Cardinality(Dirs)
    BY <1>1, <2>1, FS_Injection DEF ExistsInjection
  <2> QED
    BY <2>2, <2>3
<1>5. ASSUME NEW n \in Nodes \ S
      PROVE  Descriptors + 1 < limit
  <2>1. Cardinality(S) = open_files + 1
    BY DEF Read
  <2>2. S \cup {n} \subseteq Nodes /\ n \notin S
    OBVIOUS
  <2>3. Cardinality(S \cup {n}) = Cardinality(S) + 1
    BY <1>1, <2>2, FS_AddElement
  <2>4. Cardinality(S \cup {n}) <= Cardinality(Nodes)
    BY <1>1, <2>2, FS_Subset
  <2> QED
    BY <1>1, <1>2, <1>3, <1>4, <2>1, <2>3, <2>4
<1> QED
  BY <1>4, <1>5

\* An entry that the top call is to read has not been read, nor is it below another.
LEMMA NextEntry ==
  ASSUME Typed, NEW S \in SUBSET Nodes, Read(S), stack # <<>>, NEW n \in Top.rest
  PROVE  /\ n \in Nodes \ S
         /\ \A d \in Nodes : n \in tree.entries[d] => d = Top.dir
         /\ Top.dir \in S
         /\ n # tree.root
<1>1. Len(stack) \in DOMAIN stack /\ Top = stack[Len(stack)] /\ Top \in Frames
  BY TopAndLower DEF Typed
<1>2. Top.dir \in S /\ Top.dir \in Nodes /\ n \in tree.entries[Top.dir] /\ n \notin S
  BY <1>1 DEF Read, Frames
<1>3. n \in Nodes
  BY <1>1 DEF Frames
<1>4. \A d \in Nodes : d # Top.dir => tree.entries[d] \cap tree.entries[Top.dir] = {}
  BY <1>2, TreeFacts DEF Typed
<1> QED
  BY <1>2, <1>3, <1>4 DEF Read

-----------------------------------------------------------------------------
(* The invariant *)

LEMMA SearchInit == Init => SearchInv
<1> SUFFICES ASSUME Init PROVE SearchInv
  OBVIOUS
<1>1. /\ tree \in Trees /\ limit \in Limits /\ limit \in Nat
      /\ open_files = 0 /\ printed = <<>>
  BY LimitAssumption DEF Init
<1>2. /\ IsFiniteSet(Nodes) /\ tree.root \in Nodes
      /\ tree.entries \in [Nodes -> SUBSET Nodes]
      /\ tree.kind[tree.root] # "dir" => tree.entries[tree.root] = {}
      /\ \A d \in Nodes : tree.root \notin tree.entries[d]
  BY <1>1, TreeFacts
<1>3. /\ Frame(tree.root) \in Frames
      /\ Frame(tree.root).dir = tree.root
      /\ Frame(tree.root).rest = tree.entries[tree.root]
  BY <1>2 DEF Frame, Frames
<1> DEFINE S == {tree.root}
<1>4. Cardinality(S) = 1 /\ S \subseteq Nodes
  BY <1>2, FS_Singleton
<1>5. Listed = {}
  BY <1>1 DEF Listed
<1>6. IsInjective(printed) /\ printed \in Seq(Nodes)
  BY <1>1 DEF IsInjective
<1>7. CASE CanOpen(tree.root, 0) /\ stack = <<Frame(tree.root)>> /\ pc = "search"
  <2>1. /\ stack \in Seq(Frames) /\ stack # <<>> /\ Len(stack) = 1
        /\ DOMAIN stack = {1}
        /\ stack[1].dir = tree.root /\ stack[1].rest = tree.entries[tree.root]
    BY <1>3, <1>7
  <2>2. tree.kind[tree.root] = "dir" /\ 0 < limit
    BY <1>7 DEF CanOpen
  <2>3. Typed
    BY <1>1, <1>6, <1>7, <2>1, <2>2 DEF Typed, Descriptors
  <2>4. Read(S)
    BY <1>1, <1>2, <1>4, <1>5, <2>1, <2>2 DEF Read, Dirs
  <2>5. Complete(S)
    BY <1>5, <1>7, <2>1 DEF Complete, Unread, Pngs
  <2> QED
    BY <1>4, <1>5, <1>6, <2>3, <2>4, <2>5 DEF SearchInv
<1>8. CASE ~CanOpen(tree.root, 0) /\ stack = <<>> /\ pc = "returned"
  <2>1. stack \in Seq(Frames) /\ Len(stack) = 0 /\ DOMAIN stack = {}
    BY <1>8
  <2>2. Typed
    BY <1>1, <1>6, <1>8, <2>1 DEF Typed, Descriptors
  <2>3. Read(S)
    BY <1>1, <1>2, <1>4, <1>5, <2>1 DEF Read
  <2>4. ASSUME Enough
        PROVE  Complete(S)
    <3>1. Cardinality(Nodes) \in Nat /\ Cardinality(Nodes) # 0
      BY <1>2, FS_CardinalityType, FS_EmptySet
    <3>2. Cardinality(Dirs) \in Nat
      <4>1. Dirs \subseteq Nodes
        BY DEF Dirs
      <4> QED
        BY <1>2, <4>1, FS_Subset, FS_CardinalityType
    <3>3. 0 < limit
      BY <1>1, <2>4, <3>1, <3>2 DEF Enough
    <3>4. tree.entries[tree.root] = {}
      BY <1>2, <1>8, <3>3 DEF CanOpen
    <3> QED
      BY <1>8, <3>4 DEF Complete, Pngs
  <2> QED
    BY <1>4, <1>5, <1>6, <2>2, <2>3, <2>4 DEF SearchInv
<1> QED
  BY <1>7, <1>8 DEF Init

LEMMA ReadEntryStep ==
  ASSUME SearchInv, ReadEntry
  PROVE  SearchInv'
<1>1. PICK n \in Top.rest, verdict \in BOOLEAN :
        /\ CanRead(n)
        /\ verdict \in Verdicts(n)
        /\ open_files' = open_files + 1
        /\ printed' = IF verdict THEN Append(printed, n) ELSE printed
        /\ stack' = Search(n, Descriptors + 1)
  BY DEF ReadEntry
<1>2. /\ stack # <<>> /\ tree' = tree /\ limit' = limit /\ pc' = pc
      /\ Nodes' = Nodes /\ Dirs' = Dirs /\ Pngs' = Pngs /\ Frames' = Frames
  BY DEF ReadEntry, Nodes, Dirs, Pngs, Frames
<1>3. Typed
  BY DEF SearchInv
<1>4. PICK S \in SUBSET Nodes : Read(S) /\ (Enough => Complete(S))
  BY DEF SearchInv
<1>5. /\ n \in Nodes \ S /\ n # tree.root
      /\ \A d \in Nodes : n \in tree.entries[d] => d = Top.dir
      /\ Top.dir \in S
  BY <1>2, <1>3, <1>4, NextEntry
<1> DEFINE L == Len(stack)
           opens == CanOpen(n, Descriptors + 1)
           T == S \cup {n}
<1>6. /\ stack' \in Seq(Frames) /\ stack' # <<>>
      /\ Len(stack') = IF opens THEN L + 1 ELSE L
      /\ \A k \in 1..(L - 1) : stack'[k] = stack[k]
      /\ stack'[L].dir = Top.dir /\ stack'[L].rest = Top.rest \ {n}
      /\ opens => stack'[L + 1].dir = n /\ stack'[L + 1].rest = tree.entries[n]
  BY <1>1, <1>2, <1>3, SearchStack
<1>7. /\ L \in Nat \ {0} /\ DOMAIN stack = 1..L /\ Top = stack[L]
      /\ DOMAIN stack' = 1..Len(stack')
  BY <1>2, <1>3, <1>6, TopAndLower DEF Typed
<1>8. /\ open_files \in Nat /\ limit \in Nat
      /\ Descriptors = L + open_files /\ Descriptors < limit
      /\ opens => tree.kind[n] = "dir" /\ Descriptors + 1 < limit
  BY <1>1, <1>3, LimitAssumption DEF Typed, Descriptors, CanRead, CanOpen
<1>9. /\ tree.entries \in [Nodes -> SUBSET Nodes] /\ IsFiniteSet(S)
      /\ tree.kind[n] # "dir" => tree.entries[n] = {}
  <2>1. IsFiniteSet(Nodes)
    BY <1>3, TreeFacts DEF Typed
  <2> QED
    BY <1>3, <1>5, <2>1, TreeFacts, FS_Subset DEF Typed
<1>10. /\ printed \in Seq(Nodes) /\ IsInjective(printed)
       /\ Listed = Range(printed) /\ Listed' = Range(printed')
       /\ n \notin Listed
  BY <1>3, <1>4, <1>5 DEF SearchInv, Typed, Read, Listed, Range
<1>11. /\ printed' \in Seq(Nodes) /\ IsInjective(printed')
       /\ Listed' = IF verdict THEN Listed \cup {n} ELSE Listed
  <2>1. n \in Nodes /\ n \notin Range(printed)
    BY <1>5, <1>10
  <2>2. /\ Append(printed, n) \in Seq(Nodes)
        /\ IsInjective(Append(printed, n)) /\ Range(Append(printed, n)) = Range(printed) \cup {n}
    BY <1>10, <2>1, AppendRange, InjectiveAppend
  <2>3. CASE verdict
    <3>1. printed' = Append(printed, n)
      BY <1>1, <2>3
    <3> QED
      BY <1>10, <2>2, <2>3, <3>1
  <2>4. CASE ~verdict
    <3>1. printed' = printed
      BY <1>1, <2>4
    <3> QED
      BY <1>10, <2>4, <3>1
  <2> QED
    BY <2>3, <2>4
<1>12. /\ tree.kind[n] = "png" => verdict = TRUE
       /\ tree.kind[n] = "other" => verdict = FALSE
  <2>1. tree.kind[n] = "png" => Verdicts(n) = {TRUE}
    BY DEF Verdicts
  <2>2. tree.kind[n] = "other" => Verdicts(n) = {FALSE}
    BY DEF Verdicts
  <2> QED
    BY <1>1, <2>1, <2>2
<1> HIDE DEF opens
<1>13. Typed'
  <2>1. open_files' \in Nat /\ Descriptors' <= limit
    <3>1. Descriptors' = Len(stack') + (open_files + 1)
      BY <1>1 DEF Descriptors
    <3>2. open_files' = open_files + 1
      BY <1>1
    <3>3. Len(stack') = IF opens THEN L + 1 ELSE L
      BY <1>6
    <3>4. L \in Nat
      BY <1>7
    <3> HIDE DEF L
    <3> QED
      BY <1>8, <3>1, <3>2, <3>3, <3>4
  <2> QED
    BY <1>2, <1>3, <1>6, <1>11, <2>1 DEF Typed
<1>14. \A x \in Listed' : tree'.kind[x] # "other"
  BY <1>2, <1>11, <1>12 DEF SearchInv
<1>15. /\ \A k \in DOMAIN stack : stack[k].dir \in S \cap Dirs
       /\ \A k \in DOMAIN stack : stack[k].rest \subseteq tree.entries[stack[k].dir] \ S
       /\ \A j, k \in DOMAIN stack : stack[j].dir = stack[k].dir => j = k
  BY <1>4 DEF Read
<1>16. ASSUME NEW k \in DOMAIN stack'
       PROVE  \/ /\ k \in 1..(L - 1) /\ stack'[k] = stack[k]
              \/ /\ k = L
                 /\ stack'[k].dir = Top.dir /\ stack'[k].rest = Top.rest \ {n}
              \/ /\ k = L + 1 /\ opens
                 /\ stack'[k].dir = n /\ stack'[k].rest = tree.entries[n]
  <2>1. k \in 1..(L - 1) \/ k = L \/ (k = L + 1 /\ opens)
    BY <1>6, <1>7
  <2> QED
    BY <1>6, <2>1
<1>17. tree.entries[n] \cap S = {} /\ n \notin tree.entries[n]
  BY <1>4, <1>5 DEF Read
<1>18. Read(T)'
  <2>1. ASSUME NEW k \in DOMAIN stack'
        PROVE  /\ stack'[k].dir \in T \cap Dirs
               /\ stack'[k].rest \subseteq tree.entries[stack'[k].dir] \ T
    <3>1. CASE k \in 1..(L - 1) /\ stack'[k] = stack[k]
      <4>1. /\ k \in DOMAIN stack /\ L \in DOMAIN stack /\ k # L
            /\ stack[k].dir \in Nodes
        BY <1>4, <1>7, <1>15, <3>1
      <4>2. stack[k].dir # Top.dir
        BY <1>7, <1>15, <4>1
      <4>3. n \notin stack[k].rest
        BY <1>5, <1>15, <4>1, <4>2
      <4> QED
        BY <1>15, <3>1, <4>1, <4>3
    <3>2. CASE k = L /\ stack'[k].dir = Top.dir /\ stack'[k].rest = Top.rest \ {n}
      <4>1. L \in DOMAIN stack
        BY <1>7
      <4> QED
        BY <1>7, <1>15, <3>2, <4>1
    <3>3. CASE /\ k = L + 1 /\ opens
               /\ stack'[k].dir = n /\ stack'[k].rest = tree.entries[n]
      <4>1. n \in Dirs
        BY <1>5, <1>8, <3>3 DEF Dirs
      <4> QED
        BY <1>5, <1>17, <3>3, <4>1
    <3> QED
      BY <1>16, <3>1, <3>2, <3>3
  <2>2. ASSUME NEW j \in DOMAIN stack', NEW k \in DOMAIN stack',
               stack'[j].dir = stack'[k].dir
        PROVE  j = k
    <3>1. \A l \in DOMAIN stack' :
             \/ l \in DOMAIN stack /\ stack'[l].dir = stack[l].dir
             \/ l = L + 1 /\ stack'[l].dir = n
      BY <1>7, <1>16
    <3>2. \A l \in DOMAIN stack : stack[l].dir # n
      BY <1>5, <1>15
    <3> QED
      BY <1>15, <2>2, <3>1, <3>2
  <2>3. ASSUME NEW m \in Nodes \ T
        PROVE  tree.entries[m] \cap T = {}
    <3>1. tree.entries[m] \cap S = {}
      BY <1>4, <2>3 DEF Read
    <3>2. n \notin tree.entries[m]
      BY <1>5
    <3> QED
      BY <3>1, <3>2
  <2>4. Listed' \subseteq T \ {tree.root}
    BY <1>4, <1>5, <1>11 DEF Read
  <2>5. Cardinality(T) = open_files' + 1
    <3>1. Cardinality(S) = open_files + 1
      BY <1>4 DEF Read
    <3>2. Cardinality(T) = Cardinality(S) + 1
      BY <1>5, <1>9, FS_AddElement
    <3> QED
      BY <1>1, <1>8, <3>1, <3>2
  <2>6. tree.root \in T
    BY <1>4 DEF Read
  <2> HIDE DEF T
  <2> QED
    BY <1>2, <2>1, <2>2, <2>3, <2>4, <2>5, <2>6 DEF Read
<1>19. ASSUME Enough
       PROVE  Complete(T)'
  <2>1. Descriptors + 1 < limit
    BY <1>3, <1>4, <1>5, <1>19, EnoughLeft
  <2>2. tree.kind[n] = "dir" => opens
    BY <2>1 DEF opens, CanOpen
  <2>3. Unread \ {n} \subseteq Unread'
    <3> SUFFICES ASSUME NEW x \in Unread, x # n PROVE x \in Unread'
      OBVIOUS
    <3>1. PICK k \in 1..L : x \in stack[k].rest
      BY <1>7 DEF Unread
    <3>2. k \in DOMAIN stack'
      BY <1>6, <1>7
    <3>3. x \in stack'[k].rest
      BY <1>6, <1>7, <3>1
    <3> QED
      BY <3>2, <3>3 DEF Unread
  <2>4. tree.entries[n] \subseteq Unread'
    <3>1. CASE opens
      <4>1. L + 1 \in DOMAIN stack' /\ stack'[L + 1].rest = tree.entries[n]
        BY <1>6, <1>7, <3>1
      <4> QED
        BY <4>1 DEF Unread
    <3>2. CASE ~opens
      BY <1>9, <2>2, <3>2
    <3> QED
      BY <3>1, <3>2
  <2>5. Complete(S)
    BY <1>4, <1>19
  <2>6. \A d \in T : tree.entries[d] \subseteq T \cup Unread'
    BY <2>3, <2>4, <2>5 DEF Complete
  <2>7. T \cap Pngs \subseteq Listed'
    <3>1. n \in Pngs => tree.kind[n] = "png"
      BY DEF Pngs
    <3> QED
      BY <1>11, <1>12, <2>5, <3>1 DEF Complete
  <2> HIDE DEF T
  <2> QED
    BY <1>2, <2>5, <2>6, <2>7 DEF Complete
<1>20. Enough' <=> Enough
  BY <1>2 DEF Enough
<1>21. T \in SUBSET Nodes'
  BY <1>2, <1>5
<1> HIDE DEF T
<1> QED
  BY <1>11, <1>13, <1>14, <1>18, <1>19, <1>20, <1>21 DEF SearchInv

LEMMA CrashStep ==
  ASSUME SearchInv, Crash
  PROVE  SearchInv'
<1>1. /\ stack # <<>> /\ pc' = "crashed" /\ stack' = <<>>
      /\ tree' = tree /\ limit' = limit /\ open_files' = open_files /\ printed' = printed
      /\ Nodes' = Nodes /\ Dirs' = Dirs /\ Frames' = Frames /\ Listed' = Listed
  BY DEF Crash, Nodes, Dirs, Frames, Listed
<1>2. PICK n \in Top.rest : ~CanRead(n)
  BY DEF Crash
<1>3. Typed
  BY DEF SearchInv
<1>4. PICK S \in SUBSET Nodes : Read(S) /\ (Enough => Complete(S))
  BY DEF SearchInv
<1>5. stack' \in Seq(Frames) /\ Len(stack') = 0 /\ DOMAIN stack' = {}
  BY <1>1
<1>6. /\ Len(stack) \in Nat /\ open_files \in Nat /\ limit \in Nat
      /\ Descriptors = Len(stack) + open_files /\ Descriptors <= limit
  BY <1>3, LimitAssumption DEF Typed, Descriptors
<1>7. ~Enough
  <2> SUFFICES ASSUME Enough PROVE FALSE
    OBVIOUS
  <2>1. n \in Nodes \ S
    BY <1>1, <1>3, <1>4, NextEntry
  <2>2. Descriptors + 1 < limit
    BY <1>3, <1>4, <2>1, EnoughLeft
  <2>3. Descriptors < limit
    BY <1>6, <2>2
  <2> QED
    BY <1>2, <2>1, <2>3 DEF CanRead, Enough
<1>8. ~Enough'
  BY <1>1, <1>7 DEF Enough
<1>9. Typed'
  <2>1. Descriptors' = open_files
    BY <1>1, <1>5, <1>6 DEF Descriptors
  <2>2. Descriptors' <= limit
    BY <1>6, <2>1
  <2> QED
    BY <1>1, <1>3, <1>5, <2>2 DEF Typed
<1>10. Read(S)'
  BY <1>1, <1>4, <1>5 DEF Read
<1> QED
  BY <1>1, <1>4, <1>8, <1>9, <1>10 DEF SearchInv

LEMMA ReturnStep ==
  ASSUME SearchInv, Return
  PROVE  SearchInv'
<1>1. /\ stack # <<>> /\ Top.rest = {} /\ stack' = Lower
      /\ pc' = IF stack' = <<>> THEN "returned" ELSE pc
      /\ tree' = tree /\ limit' = limit /\ open_files' = open_files /\ printed' = printed
      /\ Nodes' = Nodes /\ Dirs' = Dirs /\ Pngs' = Pngs /\ Frames' = Frames
      /\ Listed' = Listed
  BY DEF Return, Nodes, Dirs, Pngs, Frames, Listed
<1>2. Typed
  BY DEF SearchInv
<1>3. PICK S \in SUBSET Nodes : Read(S) /\ (Enough => Complete(S))
  BY DEF SearchInv
<1> DEFINE L == Len(stack)
<1>4. /\ L \in Nat \ {0} /\ DOMAIN stack = 1..L /\ Top = stack[L]
      /\ stack' \in Seq(Frames) /\ Len(stack') = L - 1
      /\ DOMAIN stack' = 1..(L - 1)
      /\ \A k \in 1..(L - 1) : stack'[k] = stack[k]
  BY <1>1, <1>2, TopAndLower DEF Typed
<1>5. /\ open_files \in Nat /\ limit \in Nat
      /\ Descriptors = L + open_files /\ Descriptors <= limit
  BY <1>2, LimitAssumption DEF Typed, Descriptors
<1>6. \A k \in DOMAIN stack' : k \in DOMAIN stack /\ stack'[k] = stack[k]
  BY <1>4
<1>7. Typed'
  <2>1. Descriptors' = (L - 1) + open_files
    BY <1>1, <1>4 DEF Descriptors
  <2>2. Descriptors' <= limit
    <3> HIDE DEF L
    <3> QED
      BY <1>4, <1>5, <2>1
  <2>3. pc = "search"
    BY <1>1, <1>2 DEF Typed
  <2> QED
    BY <1>1, <1>2, <1>4, <2>2, <2>3 DEF Typed
<1>8. Read(S)'
  <2>1. \A k \in DOMAIN stack' :
           /\ stack'[k].dir \in S \cap Dirs
           /\ stack'[k].rest \subseteq tree.entries[stack'[k].dir] \ S
    BY <1>3, <1>6 DEF Read
  <2>2. \A j, k \in DOMAIN stack' : stack'[j].dir = stack'[k].dir => j = k
    BY <1>3, <1>6 DEF Read
  <2> QED
    BY <1>1, <1>3, <2>1, <2>2 DEF Read
<1>9. ASSUME Enough
      PROVE  Complete(S)'
  <2>1. Unread \subseteq Unread'
    <3> SUFFICES ASSUME NEW x \in Unread PROVE x \in Unread'
      OBVIOUS
    <3>1. PICK k \in 1..L : x \in stack[k].rest
      BY <1>4 DEF Unread
    <3>2. k # L
      BY <1>1, <1>4, <3>1
    <3>3. k \in 1..(L - 1)
      <4>1. L \in Nat
        BY <1>4
      <4> HIDE DEF L
      <4> QED
        BY <3>1, <3>2, <4>1
    <3>4. k \in DOMAIN stack' /\ stack'[k] = stack[k]
      BY <1>4, <3>3
    <3> QED
      BY <3>1, <3>4 DEF Unread
  <2>2. pc' # "crashed"
    BY <1>1, <1>3, <1>9 DEF Complete
  <2> QED
    BY <1>1, <1>3, <1>9, <2>1, <2>2 DEF Complete
<1>10. Enough' <=> Enough
  BY <1>1 DEF Enough
<1> QED
  BY <1>1, <1>3, <1>7, <1>8, <1>9, <1>10 DEF SearchInv

\* In any tree and order of its entries, findpng (findpng.c:34-73) reads every entry once at
\* most: those read, those that the calls are to read and what is below them are apart.
THEOREM SearchInvariant == Spec => []SearchInv
<1>1. SearchInv /\ [Next]_vars => SearchInv'
  <2> SUFFICES ASSUME SearchInv, [Next]_vars PROVE SearchInv'
    OBVIOUS
  <2>1. CASE ReadEntry
    BY <2>1, ReadEntryStep
  <2>2. CASE Crash
    BY <2>2, CrashStep
  <2>3. CASE Return
    BY <2>3, ReturnStep
  <2>4. CASE UNCHANGED vars
    <3>1. /\ tree' = tree /\ limit' = limit /\ pc' = pc /\ stack' = stack
          /\ open_files' = open_files /\ printed' = printed
      BY <2>4 DEF vars
    <3>2. /\ Nodes' = Nodes /\ Dirs' = Dirs /\ Pngs' = Pngs /\ Frames' = Frames
          /\ Listed' = Listed /\ Unread' = Unread /\ Descriptors' = Descriptors
      BY <3>1 DEF Nodes, Dirs, Pngs, Frames, Listed, Unread, Descriptors
    <3>3. PICK S \in SUBSET Nodes : Read(S) /\ (Enough => Complete(S))
      BY DEF SearchInv
    <3>4. Read(S)'
      BY <3>1, <3>2, <3>3 DEF Read
    <3>5. (Enough => Complete(S))'
      BY <3>1, <3>2, <3>3 DEF Complete, Enough
    <3>6. Typed'
      BY <3>1, <3>2 DEF SearchInv, Typed
    <3> QED
      BY <3>1, <3>2, <3>3, <3>4, <3>5, <3>6 DEF SearchInv
  <2> QED
    BY <2>1, <2>2, <2>3, <2>4 DEF Next
<1> QED
  BY SearchInit, <1>1, PTL DEF Spec

\* The search never has more files and directories open than the process may, prints no
\* path twice, and none of a file that is_png can tell from a PNG.
THEOREM PrintedOnceHolds == Spec => []PrintedOnce
<1>1. SearchInv => PrintedOnce
  <2> SUFFICES ASSUME SearchInv PROVE PrintedOnce
    OBVIOUS
  <2>1. Typed
    BY DEF SearchInv
  <2>2. TypeOK
    <3>1. \A k \in DOMAIN stack : stack[k] \in Frames
      BY <2>1 DEF Typed
    <3>2. \A k \in DOMAIN stack : stack[k].dir \in Nodes /\ stack[k].rest \subseteq Nodes
      BY <3>1 DEF Frames
    <3> QED
      BY <2>1, <3>2 DEF Typed, TypeOK
  <2>3. Cardinality(Listed) = Len(printed)
    <3>1. printed \in Seq(Nodes) /\ IsInjective(printed) /\ Listed = Range(printed)
      BY <2>1 DEF SearchInv, Typed, Listed, Range
    <3> QED
      BY <3>1, InjectiveLen
  <2> QED
    BY <2>2, <2>3 DEF SearchInv, PrintedOnce
<1> QED
  BY SearchInvariant, <1>1, PTL

\* With a descriptor for every entry and every directory, and all entries readable, every
\* PNG file below the directory is printed, although ftype closes none (findpng.c:23).
THEOREM EnoughFindsAllHolds == Spec => []EnoughFindsAll
<1>1. SearchInv => EnoughFindsAll
  <2> SUFFICES ASSUME SearchInv, Enough PROVE FindsAll /\ pc # "crashed"
    BY DEF EnoughFindsAll, Enough
  <2>1. Typed
    BY DEF SearchInv
  <2>2. PICK S \in SUBSET Nodes : Read(S) /\ Complete(S)
    BY DEF SearchInv
  <2>3. pc # "crashed"
    BY <2>2 DEF Complete
  <2>4. ASSUME pc # "search"
        PROVE  Pngs \subseteq Listed
    <3>1. stack = <<>>
      BY <2>1, <2>4 DEF Typed
    <3>2. Unread = {}
      BY <3>1 DEF Unread
    <3>3. tree.root \in S /\ \A d \in S : tree.entries[d] \subseteq S
      BY <2>2, <3>2 DEF Read, Complete
    <3>4. S = Nodes
      BY <2>1, <3>3, TreeFacts DEF Typed
    <3> QED
      BY <2>2, <3>4 DEF Complete, Pngs
  <2> QED
    BY <2>3, <2>4 DEF FindsAll
<1> QED
  BY SearchInvariant, <1>1, PTL
=============================================================================
