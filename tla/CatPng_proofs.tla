--------------------------- MODULE CatPng_proofs ---------------------------
(***************************************************************************)
(* Theorems about CatPng: for any number of images of any sizes, what is   *)
(* wrong with one stays within it, the output is all their rows in the     *)
(* order of the arguments, and which images are put behind the end of the  *)
(* array or read behind their data. They rest on the sums of the sizes.    *)
(*                                                                         *)
(* What CatPng takes a call of mem_inf to do are the Outcomes of Zlib. The *)
(* second part proves that mem_def and mem_inf keep to them for every      *)
(* CHUNK and stream. Its invariant says where a call stands: between two   *)
(* fills everything zlib has yielded is in dest and is a number of full    *)
(* chunks, and with a fill in out the two together are what zlib has       *)
(* yielded.                                                                *)
(***************************************************************************)
EXTENDS CatPng, Zutil, SeqLemmas

Bytes == Nat \X Nat  \* byte j of image k, or Junk

Codes == {"Z_OK", "Z_DATA_ERROR", "Z_MEM_ERROR"}

TypeOK ==
    /\ args \in Seq(Files) /\ Len(args) >= 1
    /\ pc \in {"read", "inflate", "deflate", "done", "overrun", "undefined"}
    /\ i \in 1..(Len(args) + 1)
    /\ total_inf_len \in Nat /\ total_height \in Nat /\ cur_ind \in Nat
    /\ results \in Seq(Codes)

\* In the first loop the size is that of the images read.
Reading ==
    pc = "read" =>
        /\ i <= Len(args)
        /\ total_inf_len = InfSum[i - 1]
        /\ cur_ind = 0 /\ results = <<>>

\* From the second loop on it is that of all images, and so is the array; the next
\* image goes where those before it should end.
Laid ==
    pc \in {"inflate", "deflate", "done"} =>
        /\ (i = Len(args) + 1) <=> pc # "inflate"
        /\ total_inf_len = InfSum[Len(args)]
        /\ inf_png \in [1..total_inf_len -> Bytes]
        /\ cur_ind = InfSum[i - 1]
        /\ Len(results) = i - 1

InItsPlace(k) == \A j \in 1..InfLen(args[k]) : inf_png[InfSum[k - 1] + j] = <<k, j>>

\* Of the images inflated so far, the sound ones that gave no error are in their places,
\* and those whose IDAT data fits gave none but for lack of memory.
InPlace ==
    pc \in {"inflate", "deflate", "done"} =>
        \A k \in 1..(i - 1) :
            Sound(args[k]) =>
                /\ results[k] = "Z_OK" => InItsPlace(k)
                /\ Fits(args[k]) => results[k] \in {"Z_OK", "Z_MEM_ERROR"}

EquallyWide == \A k \in DOMAIN args : Sound(args[k]) /\ args[k].row = args[1].row

\* The heights of sound images of one width, summed in 32 bits, are those of the rows.
HeightsAdd ==
    /\ pc \in {"read", "inflate", "deflate", "done"}
    /\ EquallyWide /\ InfSum[Len(args)] < Word
    => total_height * args[1].row = IF pc = "read" THEN InfSum[i - 1] ELSE InfSum[Len(args)]

\* What is written is what is in the array.
Written ==
    pc = "done" /\ output.whole =>
        /\ output.pixels = inf_png
        /\ output.height = total_height /\ output.row = args[1].row

CatInv ==
    /\ TypeOK /\ Reading /\ Laid /\ InPlace /\ HeightsAdd /\ Written
    /\ StaysInRoom

-----------------------------------------------------------------------------
(* Sizes and sums *)

\* A size in 32 bits is a number; that of a tame image is not wrapped, and no less than
\* what the image yields.
LEMMA Sizes ==
  ASSUME NEW f \in Files
  PROVE  /\ InfLen(f) \in Nat
         /\ f.height \in Nat /\ f.row \in Nat /\ f.yield \in Nat /\ f.early \in Nat
         /\ f.coded \in Nat /\ f.reads \in Nat /\ f.fate \in Fates
         /\ f.early <= f.yield
         /\ Tame(f) => InfLen(f) = f.height * f.row /\ f.yield <= InfLen(f)
         /\ Sound(f) => InfLen(f) = f.yield
<1>1. /\ f.height \in Nat /\ f.row \in Nat /\ f.yield \in Nat /\ f.early \in Nat
      /\ f.coded \in Nat /\ f.reads \in Nat /\ f.fate \in Fates
      /\ f.early <= f.yield
  BY FileAssumption
<1>2. f.height * f.row \in Nat
  BY <1>1
<1>3. \A x \in Nat : x % Word \in Nat /\ (x < Word => x % Word = x)
  BY WordAssumption
<1> QED
  BY <1>1, <1>2, <1>3 DEF InfLen, Tame, Sound

\* InfSum adds the sizes, so it does not fall.
SumsAdd ==
    /\ InfSum \in [0..Len(args) -> Nat]
    /\ InfSum[0] = 0
    /\ \A n \in 1..Len(args) : InfSum[n] = InfSum[n - 1] + InfLen(args[n])
    /\ \A m, n \in 0..Len(args) : m <= n => InfSum[m] <= InfSum[n]

LEMMA Sums ==
  ASSUME args \in Seq(Files)
  PROVE  SumsAdd
<1> DEFINE N == Len(args)
           x == [k \in 1..N |-> InfLen(args[k])]
           IsSum(f) == f = [n \in 0..N |-> IF n = 0 THEN 0 ELSE f[n - 1] + InfLen(args[n])]
<1>1. N \in Nat /\ \A k \in 1..N : args[k] \in Files
  OBVIOUS
<1>2. x \in [1..N -> Nat]
  BY <1>1, Sizes
<1>3. PICK f \in [0..N -> Nat] : f = [n \in 0..N |-> IF n = 0 THEN 0 ELSE f[n - 1] + x[n]]
  <2> HIDE DEF x, N
  <2> QED
    BY <1>1, <1>2, SumsExist
<1>4. IsSum(f)
  <2>1. \A n \in 0..N : n # 0 => x[n] = InfLen(args[n])
    BY <1>1
  <2> HIDE DEF x
  <2> QED
    BY <1>1, <1>3, <2>1
<1>5. InfSum = CHOOSE g : IsSum(g)
  BY DEF InfSum
<1>6. IsSum(InfSum)
  <2> HIDE DEF IsSum
  <2> QED
    BY <1>4, <1>5
<1>7. /\ DOMAIN InfSum = 0..N
      /\ InfSum[0] = 0
      /\ \A n \in 1..N : InfSum[n] = InfSum[n - 1] + InfLen(args[n])
  BY <1>1, <1>6
<1>8. InfSum \in [0..N -> Nat]
  <2> DEFINE S == {n \in Nat : n <= N => InfSum[n] \in Nat}
  <2>1. 0 \in S
    BY <1>7
  <2>2. ASSUME NEW n \in Nat, n \in S
        PROVE  n + 1 \in S
    <3> SUFFICES ASSUME n + 1 <= N PROVE InfSum[n + 1] \in Nat
      OBVIOUS
    <3>1. n + 1 \in 1..N /\ (n + 1) - 1 = n
      BY <1>1
    <3>2. InfSum[n + 1] = InfSum[n] + InfLen(args[n + 1])
      BY <1>7, <3>1
    <3>3. InfSum[n] \in Nat /\ InfLen(args[n + 1]) \in Nat
      BY <1>1, <2>2, <3>1, Sizes
    <3> QED
      BY <3>2, <3>3
  <2>3. Nat \subseteq S
    <3> HIDE DEF S
    <3> QED
      BY <2>1, <2>2, Induction
  <2>4. InfSum = [n \in 0..N |-> InfSum[n]]
    BY <1>6
  <2>5. \A n \in 0..N : InfSum[n] \in Nat
    BY <1>1, <2>3
  <2> HIDE DEF N
  <2> QED
    BY <2>4, <2>5
<1>9. \A m, n \in 0..N : m <= n => InfSum[m] <= InfSum[n]
  <2>1. \A n \in 1..N : InfSum[n] = InfSum[n - 1] + x[n]
    BY <1>7
  <2> HIDE DEF x, N
  <2> QED
    BY <1>1, <1>2, <1>8, <2>1, SumsGrow
<1> QED
  BY <1>7, <1>8, <1>9 DEF SumsAdd

\* The arguments do not change, nor do their sums.
LEMMA SameSums ==
  ASSUME args' = args
  PROVE  InfSum' = InfSum
BY DEF InfSum, InfLen

\* What mem_inf may do with an image while it reads the IDAT data only: of a tame image
\* it leaves no more than the rows, of a sound one all of them if it says Z_OK.
LEMMA InflatedSound ==
  ASSUME NEW f \in Files, NEW o \in Inflated(f)
  PROVE  /\ o.ret \in Codes /\ o.copied \in Nat
         /\ Tame(f) => o.copied <= InfLen(f)
         /\ Sound(f) => /\ o.ret = "Z_OK" => o.copied = InfLen(f)
                        /\ Fits(f) => o.ret \in {"Z_OK", "Z_MEM_ERROR"}
<1> DEFINE Is(ft, sz) ==
             \/ ft = "end" /\ o.ret = "Z_OK" /\ o.copied = sz
             \/ ft = "short" /\ o.ret = "Z_DATA_ERROR" /\ o.copied = sz
             \/ /\ ft \notin {"end", "short"}
                /\ o.ret \in {"Z_MEM_ERROR", "Z_DATA_ERROR"} /\ o.copied \in 0..sz
<1>1. \A sz : Outcomes("end", sz) = {Outcome("Z_OK", sz, sz)}
  BY DEF Outcomes
<1>2. \A sz : Outcomes("short", sz) = {Outcome("Z_DATA_ERROR", sz, sz)}
  BY DEF Outcomes
<1>3. \A ft, sz : ft \notin {"end", "short"} =>
        Outcomes(ft, sz) =
            {Outcome(IF ft = "memory" THEN "Z_MEM_ERROR" ELSE "Z_DATA_ERROR", NotSet, c) :
                c \in {k \in 0..sz : Chunks(k) /\ sz - k <= Chunk}}
  BY DEF Outcomes
<1>4. ASSUME NEW ft, NEW sz, o \in Outcomes(ft, sz)
      PROVE  Is(ft, sz)
  <2>1. CASE ft = "end"
    BY <1>1, <1>4, <2>1 DEF Outcome
  <2>2. CASE ft = "short"
    BY <1>2, <1>4, <2>2 DEF Outcome
  <2>3. CASE ft \notin {"end", "short"}
    <3>1. PICK c \in 0..sz :
            o = Outcome(IF ft = "memory" THEN "Z_MEM_ERROR" ELSE "Z_DATA_ERROR", NotSet, c)
      BY <1>3, <1>4, <2>3
    <3> QED
      BY <2>3, <3>1 DEF Outcome
  <2> QED
    BY <2>1, <2>2, <2>3
<1>5. CASE o = NoInit
  <2>1. o.ret = "Z_MEM_ERROR" /\ o.copied = 0
    BY <1>5 DEF NoInit, Outcome
  <2> QED
    BY <2>1, Sizes DEF Codes
<1>6. CASE Fits(f) /\ o \in Outcomes(f.fate, f.yield)
  <2>1. Is(f.fate, f.yield)
    BY <1>4, <1>6
  <2> QED
    BY <2>1, Sizes DEF Codes, Sound
<1>7. CASE ~Fits(f) /\ o \in Outcomes("short", f.early)
  <2>1. Is("short", f.early)
    BY <1>4, <1>7
  <2> QED
    BY <1>7, <2>1, Sizes DEF Codes
<1> QED
  BY <1>5, <1>6, <1>7 DEF Inflated

-----------------------------------------------------------------------------
(* The invariant *)

LEMMA CatInit == Init => CatInv
<1> SUFFICES ASSUME Init PROVE CatInv
  OBVIOUS
<1>1. /\ pc = "read" /\ i = 1 /\ total_inf_len = 0 /\ total_height = 0
      /\ cur_ind = 0 /\ results = <<>>
  BY DEF Init
<1>2. args \in Seq(Files) /\ Len(args) >= 1
  <2>1. PICK n \in 1..MaxArgs : args \in [1..n -> Files]
    BY DEF Init
  <2>2. n \in Nat /\ n >= 1
    BY WordAssumption
  <2> QED
    BY <2>1, <2>2
<1>3. SumsAdd
  BY <1>2, Sums
<1>4. TypeOK
  BY <1>1, <1>2 DEF TypeOK
<1>5. Reading
  BY <1>1, <1>2, <1>3 DEF Reading, SumsAdd
<1>6. Laid /\ InPlace /\ Written /\ StaysInRoom
  BY <1>1 DEF Laid, InPlace, Written, StaysInRoom
<1>7. HeightsAdd
  <2>1. EquallyWide => args[1].row \in Nat
    BY <1>2, Sizes
  <2> QED
    BY <1>1, <1>3, <2>1 DEF HeightsAdd, SumsAdd
<1> QED
  BY <1>4, <1>5, <1>6, <1>7 DEF CatInv

\* The height of one more sound image of the same width.
LEMMA OneMoreHeight ==
  ASSUME NEW h \in Nat, NEW t \in Nat, NEW r \in Nat, t * r + h * r < Word
  PROVE  ((t + h) % Word) * r = t * r + h * r
<1>1. (t + h) * r = t * r + h * r
  OBVIOUS
<1>2. CASE r = 0
  BY <1>2, WordAssumption
<1>3. CASE r # 0
  <2>1. t + h <= (t + h) * r
    BY <1>3
  <2>2. t + h \in Nat /\ t + h < Word
    BY <1>1, <2>1, WordAssumption
  <2>3. (t + h) % Word = t + h
    BY <2>2, WordAssumption
  <2> QED
    BY <1>1, <2>3
<1> QED
  BY <1>2, <1>3

LEMMA ReadPngStep ==
  ASSUME CatInv, ReadPng
  PROVE  CatInv'
<1>1. /\ pc = "read" /\ args' = args /\ cur_ind' = cur_ind /\ results' = results
      /\ output' = output /\ InfSum' = InfSum
  BY SameSums DEF ReadPng
<1>2. /\ args \in Seq(Files) /\ Len(args) \in Nat /\ Len(args) >= 1
      /\ i \in 1..Len(args)
      /\ total_inf_len \in Nat /\ total_height \in Nat /\ cur_ind \in Nat
      /\ results \in Seq(Codes)
      /\ total_inf_len = InfSum[i - 1] /\ cur_ind = 0 /\ results = <<>>
  BY <1>1 DEF CatInv, TypeOK, Reading
<1>3. args[i] \in Files /\ DOMAIN args = 1..Len(args)
  BY <1>2
<1>4. SumsAdd
  BY <1>2, Sums
<1>5. CASE ~args[i].png
  <2>1. /\ pc' = "undefined" /\ i' = i /\ total_inf_len' = total_inf_len
        /\ total_height' = total_height
    BY <1>5 DEF ReadPng
  <2>2. TypeOK'
    BY <1>1, <1>2, <2>1 DEF TypeOK
  <2>3. StaysInRoom'
    BY <1>1, <1>2, <1>3, <1>5 DEF StaysInRoom, Tame, ReadsBehind, InfLen
  <2> QED
    BY <2>1, <2>2, <2>3 DEF CatInv, Reading, Laid, InPlace, HeightsAdd, Written
<1>6. CASE args[i].png
  <2>1. /\ total_inf_len' = total_inf_len + InfLen(args[i])
        /\ total_height' = (total_height + args[i].height) % Word
    BY <1>6 DEF ReadPng
  <2>2. total_inf_len' = InfSum[i]
    BY <1>2, <1>4, <2>1 DEF SumsAdd
  <2>3. total_inf_len' \in Nat /\ total_height' \in Nat
    <3>1. InfLen(args[i]) \in Nat /\ args[i].height \in Nat
      BY <1>3, Sizes
    <3>2. total_height + args[i].height \in Nat
      BY <1>2, <3>1
    <3>3. (total_height + args[i].height) % Word \in Nat
      BY <3>2, WordAssumption
    <3> QED
      BY <1>2, <2>1, <3>1, <3>3
  <2>4. ASSUME EquallyWide, InfSum[Len(args)] < Word
        PROVE  total_height' * args[1].row = InfSum[i]
    <3>1. /\ Sound(args[i]) /\ args[i].row = args[1].row
          /\ args[1].row \in Nat /\ args[i].height \in Nat
          /\ InfLen(args[i]) = args[i].height * args[1].row
      BY <1>2, <1>3, <2>4, Sizes DEF EquallyWide, Sound
    <3>2. total_height * args[1].row = InfSum[i - 1]
      BY <1>1, <2>4 DEF CatInv, HeightsAdd
    <3>3. /\ InfSum[i] = InfSum[i - 1] + InfLen(args[i])
          /\ InfSum[i] <= InfSum[Len(args)] /\ InfSum[i] \in Nat /\ InfSum[Len(args)] \in Nat
      BY <1>2, <1>4 DEF SumsAdd
    <3>4. total_height * args[1].row + args[i].height * args[1].row < Word
      BY <2>4, <3>1, <3>2, <3>3, WordAssumption
    <3> QED
      BY <1>2, <2>1, <3>1, <3>2, <3>3, <3>4, OneMoreHeight
  <2>5. EquallyWide' <=> EquallyWide
    BY <1>1 DEF EquallyWide, Sound, Tame
  <2>6. CASE i < Len(args)
    <3>1. i' = i + 1 /\ pc' = "read"
      BY <1>1, <1>2, <1>6, <2>6 DEF ReadPng
    <3>2. TypeOK'
      BY <1>1, <1>2, <2>3, <2>6, <3>1 DEF TypeOK
    <3>3. Reading'
      BY <1>1, <1>2, <2>2, <2>6, <3>1 DEF Reading
    <3>4. HeightsAdd'
      BY <1>1, <1>2, <2>4, <2>5, <3>1 DEF HeightsAdd
    <3> QED
      BY <3>1, <3>2, <3>3, <3>4 DEF CatInv, Laid, InPlace, Written, StaysInRoom
  <2>7. CASE i = Len(args)
    <3>1. i' = 1 /\ pc' = "inflate" /\ inf_png' = Fresh(total_inf_len')
      BY <1>2, <1>6, <2>7 DEF ReadPng
    <3>2. TypeOK'
      BY <1>1, <1>2, <2>3, <3>1 DEF TypeOK
    <3>3. inf_png' \in [1..total_inf_len' -> Bytes]
      BY <3>1 DEF Fresh, Junk, Bytes
    <3>4. Laid'
      BY <1>1, <1>2, <1>4, <2>2, <2>7, <3>1, <3>3 DEF Laid, SumsAdd
    <3>5. InPlace'
      BY <3>1 DEF InPlace
    <3>6. HeightsAdd'
      BY <1>1, <2>4, <2>5, <2>7, <3>1 DEF HeightsAdd
    <3> QED
      BY <3>1, <3>2, <3>4, <3>5, <3>6 DEF CatInv, Reading, Written, StaysInRoom
  <2> QED
    BY <1>2, <2>6, <2>7
<1> QED
  BY <1>5, <1>6

LEMMA InflateStep ==
  ASSUME CatInv, Inflate
  PROVE  CatInv'
<1>1. /\ pc = "inflate" /\ args' = args /\ total_inf_len' = total_inf_len
      /\ total_height' = total_height /\ output' = output /\ InfSum' = InfSum
  BY SameSums DEF Inflate
<1>2. /\ args \in Seq(Files) /\ Len(args) \in Nat
      /\ i \in 1..Len(args)
      /\ total_inf_len \in Nat /\ total_height \in Nat
      /\ results \in Seq(Codes) /\ Len(results) = i - 1
      /\ total_inf_len = InfSum[Len(args)] /\ cur_ind = InfSum[i - 1]
      /\ inf_png \in [1..total_inf_len -> Bytes]
  BY <1>1 DEF CatInv, TypeOK, Laid
<1>3. args[i] \in Files /\ DOMAIN args = 1..Len(args)
  BY <1>2
<1>4. SumsAdd
  BY <1>2, Sums
<1>5. /\ InfLen(args[i]) \in Nat
      /\ cur_ind \in Nat
      /\ cur_ind + InfLen(args[i]) = InfSum[i]
      /\ InfSum[i] \in Nat
      /\ InfSum[i] <= total_inf_len
  <2>1. InfLen(args[i]) \in Nat
    BY <1>3, Sizes
  <2> QED
    BY <1>2, <1>4, <2>1 DEF SumsAdd
<1>6. ASSUME NEW o \in Inflated(args[i])
      PROVE  /\ o.ret \in Codes /\ o.copied \in Nat
             /\ Tame(args[i]) => o.copied <= InfLen(args[i])
             /\ Sound(args[i]) => /\ o.ret = "Z_OK" => o.copied = InfLen(args[i])
                                  /\ Fits(args[i]) => o.ret \in {"Z_OK", "Z_MEM_ERROR"}
  BY <1>3, InflatedSound
<1>7. EquallyWide' <=> EquallyWide
  BY <1>1 DEF EquallyWide, Sound, Tame
<1>8. CASE /\ \/ ReadsBehind(args[i])
              \/ \E o \in Inflated(args[i]) : cur_ind + o.copied > total_inf_len
           /\ pc' = "undefined"
           /\ UNCHANGED <<i, inf_png, cur_ind, results>>
  <2>1. pc' = "undefined" /\ i' = i /\ cur_ind' = cur_ind /\ results' = results
    BY <1>8
  <2>2. TypeOK'
    BY <1>1, <1>2, <1>5, <2>1 DEF CatInv, TypeOK
  <2>3. ~(Tame(args[i]) /\ ~ReadsBehind(args[i]))
    BY <1>2, <1>5, <1>6, <1>8
  <2>4. StaysInRoom'
    BY <1>1, <1>2, <1>3, <2>3 DEF StaysInRoom, Tame, ReadsBehind, InfLen
  <2> QED
    BY <2>1, <2>2, <2>4 DEF CatInv, Reading, Laid, InPlace, HeightsAdd, Written
<1>9. ASSUME NEW o \in Inflated(args[i]),
             cur_ind + o.copied <= total_inf_len,
             inf_png' = Placed(o.copied),
             cur_ind' = cur_ind + InfLen(args[i]),
             results' = Append(results, o.ret),
             AfterInflate
      PROVE  CatInv'
  <2>1. /\ inf_png' = Placed(o.copied)
        /\ cur_ind' = InfSum[i]
        /\ results' = Append(results, o.ret)
        /\ i' = i + 1
        /\ pc' = IF i = Len(args) THEN "deflate" ELSE "inflate"
    BY <1>2, <1>5, <1>9 DEF AfterInflate
  <2>2. /\ results' \in Seq(Codes) /\ Len(results') = i
        /\ \A k \in 1..(i - 1) : results'[k] = results[k]
        /\ results'[i] = o.ret
    BY <1>2, <1>6, <2>1
  <2>3. TypeOK'
    BY <1>1, <1>2, <1>5, <2>1, <2>2 DEF CatInv, TypeOK
  <2>4. DOMAIN inf_png = 1..total_inf_len
    BY <1>2
  <2>5. /\ inf_png' \in [1..total_inf_len -> Bytes]
        /\ \A p \in 1..total_inf_len :
               inf_png'[p] = IF p \in (cur_ind + 1)..(cur_ind + o.copied)
                             THEN <<i, p - cur_ind>> ELSE inf_png[p]
    <3>1. inf_png' = [p \in 1..total_inf_len |-> IF p \in (cur_ind + 1)..(cur_ind + o.copied)
                                                THEN <<i, p - cur_ind>> ELSE inf_png[p]]
      BY <2>1, <2>4 DEF Placed
    <3>2. \A p \in 1..total_inf_len :
             /\ p \in (cur_ind + 1)..(cur_ind + o.copied) => <<i, p - cur_ind>> \in Bytes
             /\ inf_png[p] \in Bytes
      <4>1. \A p \in (cur_ind + 1)..(cur_ind + o.copied) : p - cur_ind \in Nat
        BY <1>6, <1>5
      <4>2. i \in Nat
        BY <1>2
      <4>3. \A p \in 1..total_inf_len : inf_png[p] \in Bytes
        BY <1>2
      <4> QED
        BY <4>1, <4>2, <4>3 DEF Bytes
    <3> QED
      BY <3>1, <3>2
  <2>6. Laid'
    BY <1>1, <1>2, <2>1, <2>2, <2>5 DEF Laid
  <2>7. ASSUME NEW k \in 1..i, Sound(args[k])
        PROVE  /\ results'[k] = "Z_OK" =>
                      \A j \in 1..InfLen(args[k]) : inf_png'[InfSum[k - 1] + j] = <<k, j>>
               /\ Fits(args[k]) => results'[k] \in {"Z_OK", "Z_MEM_ERROR"}
    <3>1. CASE k = i
      <4>1. results'[k] = o.ret
        BY <2>2, <3>1
      <4>2. ASSUME o.ret = "Z_OK", NEW j \in 1..InfLen(args[k])
            PROVE  inf_png'[InfSum[k - 1] + j] = <<k, j>>
        <5>1. o.copied = InfLen(args[i])
          BY <1>6, <2>7, <3>1, <4>2
        <5>2. /\ cur_ind + j \in 1..total_inf_len
              /\ cur_ind + j \in (cur_ind + 1)..(cur_ind + o.copied)
              /\ (cur_ind + j) - cur_ind = j
          <6> DEFINE c == o.copied
                     t == total_inf_len
                     b == cur_ind
          <6>1. j \in 1..c
            BY <3>1, <5>1
          <6>2. c \in Nat /\ t \in Nat /\ b \in Nat /\ b + c <= t
            BY <1>2, <1>6, <1>5, <1>9
          <6> HIDE DEF c, t, b
          <6>3. b + j \in 1..t /\ b + j \in (b + 1)..(b + c) /\ (b + j) - b = j
            BY <6>1, <6>2
          <6> QED
            BY <6>3 DEF c, t, b
        <5>3. inf_png'[cur_ind + j] = <<i, j>>
          BY <2>5, <5>2
        <5> QED
          BY <1>2, <3>1, <5>3
      <4> QED
        BY <1>6, <2>7, <3>1, <4>1, <4>2
    <3>2. CASE k # i
      <4>1. k \in 1..(i - 1) /\ results'[k] = results[k]
        BY <1>2, <2>2, <3>2
      <4>2. /\ results[k] = "Z_OK" => InItsPlace(k)
            /\ Fits(args[k]) => results[k] \in {"Z_OK", "Z_MEM_ERROR"}
        BY <1>1, <2>7, <4>1 DEF CatInv, InPlace
      <4>3. ASSUME NEW j \in 1..InfLen(args[k])
            PROVE  inf_png'[InfSum[k - 1] + j] = inf_png[InfSum[k - 1] + j]
        <5>1. InfLen(args[k]) \in Nat
          BY <1>2, <4>1, Sizes
        <5>2. /\ InfSum[k - 1] \in Nat /\ InfSum[k] = InfSum[k - 1] + InfLen(args[k])
              /\ InfSum[k] <= InfSum[i - 1]
          <6>1. /\ k \in 1..Len(args) /\ k \in 0..Len(args) /\ k - 1 \in 0..Len(args)
                /\ i - 1 \in 0..Len(args) /\ k <= i - 1
            BY <1>2, <4>1
          <6>2. InfSum[k - 1] \in Nat
            BY <1>4, <6>1 DEF SumsAdd
          <6>3. InfSum[k] = InfSum[k - 1] + InfLen(args[k])
            BY <1>4, <6>1 DEF SumsAdd
          <6>4. InfSum[k] <= InfSum[i - 1]
            BY <1>4, <6>1 DEF SumsAdd
          <6> QED
            BY <6>2, <6>3, <6>4
        <5>3. /\ InfSum[k - 1] + j \in 1..total_inf_len
              /\ InfSum[k - 1] + j <= cur_ind
          <6> DEFINE n == InfLen(args[k])
                     a == InfSum[k - 1]
                     t == total_inf_len
                     b == cur_ind
          <6>1. j \in 1..n /\ n \in Nat /\ a \in Nat /\ t \in Nat /\ b \in Nat
            BY <1>2, <1>5, <5>1, <5>2
          <6>2. a + n <= b
            BY <1>2, <5>2
          <6>3. b <= t
            <7>1. InfSum[i] \in Nat /\ b + InfLen(args[i]) <= t /\ InfLen(args[i]) \in Nat
              BY <1>5
            <7> HIDE DEF b, t
            <7> QED
              BY <6>1, <7>1
          <6> HIDE DEF n, a, t, b
          <6>4. a + j \in 1..t /\ a + j <= b
            BY <6>1, <6>2, <6>3
          <6> QED
            BY <6>4 DEF a, t, b
        <5>4. InfSum[k - 1] + j \notin (cur_ind + 1)..(cur_ind + o.copied)
          BY <1>6, <1>5, <5>2, <5>3
        <5> QED
          BY <2>5, <5>3, <5>4
      <4> QED
        BY <4>1, <4>2, <4>3 DEF InItsPlace
    <3> QED
      BY <3>1, <3>2
  <2>8. InPlace'
    <3>1. i' - 1 = i /\ \A k : InfLen(args[k])' = InfLen(args[k])
      BY <1>1, <1>2, <2>1 DEF InfLen
    <3>2. \A k : (Sound(args[k])' <=> Sound(args[k])) /\ (Fits(args[k])' <=> Fits(args[k]))
      BY <1>1 DEF Sound, Tame, Fits, InfLen
    <3> QED
      BY <1>1, <2>7, <3>1, <3>2 DEF InPlace, InItsPlace
  <2>9. HeightsAdd'
    BY <1>1, <1>7, <2>1 DEF CatInv, HeightsAdd
  <2> QED
    BY <2>1, <2>3, <2>6, <2>8, <2>9 DEF CatInv, Reading, Written, StaysInRoom
<1> QED
  BY <1>8, <1>9 DEF Inflate

LEMMA DeflateAndWriteStep ==
  ASSUME CatInv, DeflateAndWrite
  PROVE  CatInv'
<1>1. /\ pc = "deflate" /\ pc' \in {"done", "overrun"}
      /\ args' = args /\ i' = i /\ total_inf_len' = total_inf_len
      /\ total_height' = total_height /\ inf_png' = inf_png /\ cur_ind' = cur_ind
      /\ results' = results /\ InfSum' = InfSum
  BY SameSums DEF DeflateAndWrite
<1>2. TypeOK' /\ Laid'
  BY <1>1 DEF CatInv, TypeOK, Laid
<1>3. InPlace'
  BY <1>1 DEF CatInv, InPlace, InItsPlace, InfLen, Sound, Tame, Fits
<1>4. HeightsAdd'
  BY <1>1 DEF CatInv, HeightsAdd, EquallyWide, Sound, Tame
<1>5. Written'
  <2>1. pc' = "done" => output' \in {Write(TRUE), Write(FALSE)}
    BY <1>1 DEF DeflateAndWrite
  <2>2. ASSUME output' = Write(TRUE) PROVE Written'
    BY <1>1, <2>2 DEF Written, Write
  <2>3. ASSUME output' = Write(FALSE) PROVE Written'
    BY <1>1, <2>3 DEF Written, Write
  <2> QED
    BY <2>1, <2>2, <2>3 DEF Written
<1> QED
  BY <1>1, <1>2, <1>3, <1>4, <1>5 DEF CatInv, Reading, StaysInRoom

\* For any images in any number, before, between and after the loops of main
\* (catpng.c:64-100), the array and the results are as CatInv says, for as long as the
\* program keeps to what C defines; and images that are tame, damaged ones included, take
\* it out of that only if mem_inf is told of more than there is of an incomplete stream.
THEOREM CatInvariant == Spec => []CatInv
<1>1. CatInv /\ [Next]_vars => CatInv'
  <2> SUFFICES ASSUME CatInv, [Next]_vars PROVE CatInv'
    OBVIOUS
  <2>1. CASE ReadPng
    BY <2>1, ReadPngStep
  <2>2. CASE Inflate
    BY <2>2, InflateStep
  <2>3. CASE DeflateAndWrite
    BY <2>3, DeflateAndWriteStep
  <2>4. CASE UNCHANGED vars
    <3>1. /\ args' = args /\ pc' = pc /\ i' = i /\ total_inf_len' = total_inf_len
          /\ total_height' = total_height /\ inf_png' = inf_png /\ cur_ind' = cur_ind
          /\ results' = results /\ output' = output /\ InfSum' = InfSum
      BY <2>4, SameSums DEF vars
    <3>2. (TypeOK /\ Reading /\ Laid /\ Written)'
      BY <3>1 DEF CatInv, TypeOK, Reading, Laid, Written
    <3>3. InPlace'
      BY <3>1 DEF CatInv, InPlace, InItsPlace, InfLen, Sound, Tame, Fits
    <3>4. (HeightsAdd /\ StaysInRoom)'
      BY <3>1 DEF CatInv, HeightsAdd, EquallyWide, StaysInRoom, Sound, Tame
    <3> QED
      BY <3>2, <3>3, <3>4 DEF CatInv
  <2> QED
    BY <2>1, <2>2, <2>3, <2>4 DEF Next
<1> QED
  BY CatInit, <1>1, PTL DEF Spec

\* In an output that is written at all, each sound image that inflated is in its place,
\* whatever came of the others: corrupt, cut off, or of another size than their headers
\* say, for main advances by the sizes and not by what mem_inf left (catpng.c:86).
THEOREM DamageContainedHolds == Spec => []DamageContained
<1>1. CatInv => DamageContained
  <2> SUFFICES ASSUME CatInv, pc = "done", output.whole,
                      NEW k \in DOMAIN args, Sound(args[k]), results[k] = "Z_OK"
               PROVE  \A j \in 1..InfLen(args[k]) : output.pixels[InfSum[k - 1] + j] = <<k, j>>
    BY DEF DamageContained
  <2>1. args \in Seq(Files) /\ Len(args) \in Nat /\ i - 1 = Len(args)
    BY DEF CatInv, TypeOK, Laid
  <2>2. k \in 1..(i - 1)
    BY <2>1
  <2>3. InItsPlace(k)
    BY <2>2 DEF CatInv, InPlace
  <2> QED
    BY <2>3 DEF CatInv, Written, InItsPlace
<1> QED
  BY CatInvariant, <1>1, PTL

\* Sound images of whose IDAT data mem_inf is told enough are all in the output, in the order of the
\* arguments, and the header that main writes describes them if they are equally wide.
THEOREM ConcatenatedHolds == Spec => []Concatenated
<1>1. CatInv => Concatenated
  <2> SUFFICES ASSUME CatInv, pc = "done", output.whole, total_inf_len < Word,
                      \A k \in DOMAIN args :
                         Sound(args[k]) /\ Fits(args[k]) /\ results[k] # "Z_MEM_ERROR"
               PROVE  /\ \A k \in DOMAIN args : \A j \in 1..InfLen(args[k]) :
                            output.pixels[InfSum[k - 1] + j] = <<k, j>>
                      /\ (\A k \in DOMAIN args : args[k].row = args[1].row)
                            => Len(output.pixels) = output.height * output.row
    BY DEF Concatenated
  <2>1. /\ args \in Seq(Files) /\ Len(args) \in Nat /\ i - 1 = Len(args)
        /\ total_inf_len \in Nat /\ total_inf_len = InfSum[Len(args)]
        /\ inf_png \in [1..total_inf_len -> Bytes]
    BY DEF CatInv, TypeOK, Laid
  <2>2. /\ output.pixels = inf_png
        /\ output.height = total_height /\ output.row = args[1].row
    BY DEF CatInv, Written
  <2>3. ASSUME NEW k \in DOMAIN args
        PROVE  InItsPlace(k)
    <3>1. k \in 1..(i - 1)
      BY <2>1
    <3>2. Sound(args[k]) /\ Fits(args[k]) /\ results[k] # "Z_MEM_ERROR"
      OBVIOUS
    <3>3. results[k] = "Z_OK"
      BY <3>1, <3>2 DEF CatInv, InPlace
    <3> QED
      BY <3>1, <3>2, <3>3 DEF CatInv, InPlace
  <2>4. ASSUME \A k \in DOMAIN args : args[k].row = args[1].row
        PROVE  Len(output.pixels) = output.height * output.row
    <3>1. EquallyWide
      BY <2>4 DEF EquallyWide
    <3>2. total_height * args[1].row = total_inf_len
      BY <2>1, <3>1 DEF CatInv, HeightsAdd
    <3>3. Len(inf_png) = total_inf_len
      BY <2>1
    <3> QED
      BY <2>2, <3>2, <3>3
  <2> QED
    BY <2>2, <2>3, <2>4 DEF InItsPlace
<1> QED
  BY CatInvariant, <1>1, PTL

\* Reading and inflating tame images, damaged or not, follows no uninitialized pointer,
\* writes nothing behind the array, and reads nothing behind the IDAT data but where a
\* stream that is not complete is shorter than the pixels (catpng.c:85, zutil.c:108).
THEOREM StaysInRoomHolds == Spec => []StaysInRoom
<1>1. CatInv => StaysInRoom
  BY DEF CatInv
<1> QED
  BY CatInvariant, <1>1, PTL

-----------------------------------------------------------------------------
(* The calls of mem_def and mem_inf (module Zutil). *)

\* Nothing is in out that is not in dest, and the loop has run full chunks only.
Between ==
    /\ zpc \in {"init", "loop"} => made = p_dest /\ Chunks(p_dest)
    /\ zpc = "init" => p_dest = 0

\* A fill is at hand; only the last one leaves room or brings an end.
Filled ==
    zpc = "copy" =>
        /\ made = p_dest + Len(out)
        /\ Chunks(p_dest)
        /\ Len(out) <= Chunk
        /\ \A k \in 1..Len(out) : out[k] = p_dest + k
        /\ made < size => Len(out) = Chunk
        /\ ret \in Answers(fate, Len(out), size - made)

\* The loop is left with the whole stream copied.
Whole ==
    zpc = "leave" => /\ made = size /\ p_dest = size
                     /\ ret \in AtEnd(fate)
                     /\ fn = "mem_inf" => ret \notin Errors

ZInv ==
    /\ ZTypeOK
    /\ len = p_dest
    /\ (zpc # "done" => dest_len = NotSet)
    /\ Between
    /\ Filled
    /\ Whole
    /\ Copied
    /\ Contract

\* No fill makes zero chunks, and one more full fill makes one more.
LEMMA ChunksZero == Chunks(0)
<1>1. 0 \in 0..0 /\ 0 = 0 * Chunk
  BY ChunkAssumption
<1> QED
  BY <1>1 DEF Chunks

LEMMA ChunksMore ==
    ASSUME NEW n \in Nat, Chunks(n)
    PROVE  Chunks(n + Chunk)
<1>1. PICK q \in 0..n : n = q * Chunk
  BY DEF Chunks
<1>2. q + 1 \in 0..(n + Chunk)
  BY ChunkAssumption
<1>3. n + Chunk = (q + 1) * Chunk
  BY <1>1, ChunkAssumption
<1> QED
  BY <1>2, <1>3 DEF Chunks

LEMMA ZInitInv == ZInit => ZInv
<1> SUFFICES ASSUME ZInit PROVE ZInv
  OBVIOUS
<1>1. ZTypeOK
  BY SizeAssumption DEF ZInit, ZTypeOK, FatesOf, Fates, Returns, NotSet
<1>2. Between
  BY ChunksZero DEF ZInit, Between
<1> QED
  BY <1>1, <1>2 DEF ZInit, ZInv, Filled, Whole, Copied, Contract, ZTypeOK

LEMMA InitStreamInv == ZInv /\ InitStream => ZInv'
<1> SUFFICES ASSUME ZInv, InitStream PROVE ZInv'
  OBVIOUS
<1> USE DEF ZInv, InitStream, call
<1>1. ZTypeOK'
  BY DEF ZTypeOK, Returns
<1>2. Between' /\ Filled' /\ Whole'
  BY DEF Between, Filled, Whole
<1>3. Copied'
  BY DEF Copied, Between
<1>4. Contract'
  BY DEF Contract, NoInit, Between
<1> QED
  BY <1>1, <1>2, <1>3, <1>4

LEMMA CallZlibInv == ZInv /\ CallZlib => ZInv'
<1> SUFFICES ASSUME ZInv, CallZlib PROVE ZInv'
  OBVIOUS
<1> USE DEF ZInv, CallZlib, call
<1> DEFINE have == IF size - made < Chunk THEN size - made ELSE Chunk
<1>1. size \in Nat /\ made \in 0..size /\ p_dest \in Nat /\ fate \in Fates
  BY SizeAssumption DEF ZTypeOK, FatesOf, Fates
<1>2. have \in Nat /\ have <= Chunk /\ made + have <= size
      /\ (made + have < size => have = Chunk)
  BY <1>1, ChunkAssumption
<1>3. out' = [k \in 1..have |-> made + k]
  BY DEF NextFill
<1>4. Len(out') = have /\ out' \in Seq(Nat)
  BY <1>1, <1>2, <1>3
<1>5. made' = made + have
  BY <1>4
<1> HIDE DEF have
<1>6. Filled'
  BY <1>1, <1>2, <1>3, <1>4, <1>5 DEF Filled, Between
<1>7. ret' \in Returns
  BY <1>1 DEF Answers, AtEnd, Returns, Fates
<1>8. ZTypeOK'
  BY <1>1, <1>2, <1>4, <1>5, <1>7 DEF ZTypeOK
<1>9. Between' /\ Whole' /\ Contract'
  BY DEF Between, Whole, Contract
<1>10. Copied'
  BY <1>1, <1>2, <1>5 DEF Copied
<1> QED
  BY <1>6, <1>8, <1>9, <1>10

LEMMA GiveUpInv == ZInv /\ GiveUp => ZInv'
<1> SUFFICES ASSUME ZInv, GiveUp PROVE ZInv'
  OBVIOUS
<1> USE DEF ZInv, GiveUp, call
<1>1. size \in Nat /\ made \in 0..size /\ p_dest \in Nat /\ fate \in Fates /\ Len(out) \in Nat
  BY SizeAssumption DEF ZTypeOK, FatesOf, Fates
<1>2. ZTypeOK'
  BY DEF ZTypeOK, Errors
<1>3. made = size
  BY <1>1 DEF Filled, Answers, Errors
<1>4. fate \in {"corrupt", "dict", "memory"}
      /\ ret' = IF fate = "memory" THEN "Z_MEM_ERROR" ELSE "Z_DATA_ERROR"
  BY <1>1, <1>3 DEF Filled, Answers, AtEnd, Errors, Fates
<1>5. p_dest \in 0..size /\ Chunks(p_dest) /\ size - p_dest <= Chunk
  BY <1>1, <1>3, ChunkAssumption DEF Filled
<1>6. Outcome(ret', dest_len', p_dest') \in Outcomes(fate', size')
  BY <1>4, <1>5 DEF Outcomes, Outcome
<1>7. Contract' /\ Copied'
  BY <1>6 DEF Contract, Copied
<1>8. Between' /\ Filled' /\ Whole'
  BY DEF Between, Filled, Whole
<1> QED
  BY <1>2, <1>7, <1>8

LEMMA CopyInv == ZInv /\ Copy => ZInv'
<1> SUFFICES ASSUME ZInv, Copy PROVE ZInv'
  OBVIOUS
<1> USE DEF ZInv, Copy, call
<1>1. /\ size \in Nat /\ made \in 0..size /\ p_dest \in Nat /\ Len(out) \in Nat
      /\ out \in Seq(Nat) /\ fate \in FatesOf(fn) /\ fn \in {"mem_def", "mem_inf"}
  BY SizeAssumption DEF ZTypeOK
<1>2. /\ made = p_dest + Len(out) /\ Chunks(p_dest) /\ Len(out) <= Chunk
      /\ \A k \in 1..Len(out) : out[k] = p_dest + k
      /\ made < size => Len(out) = Chunk
      /\ ret \in Answers(fate, Len(out), size - made)
  BY DEF Filled
<1>3. p_dest' = made /\ p_dest' \in 0..size /\ zpc' = IF More THEN "loop" ELSE "leave"
  BY <1>1, <1>2
<1>4. \A k \in DOMAIN dest : dest'[k] = IF k <= p_dest' THEN k ELSE 0
  <2> SUFFICES ASSUME NEW k \in DOMAIN dest
               PROVE  dest'[k] = IF k <= p_dest' THEN k ELSE 0
    OBVIOUS
  <2>1. k \in 1..size /\ dest[k] = IF k <= p_dest THEN k ELSE 0
    BY DEF ZTypeOK, Copied
  <2>2. CASE k \in (p_dest + 1)..p_dest'
    BY <1>1, <1>2, <1>3, <2>1, <2>2
  <2>3. CASE k \notin (p_dest + 1)..p_dest'
    BY <1>1, <1>3, <2>1, <2>3
  <2> QED
    BY <2>2, <2>3
<1>5. Copied'
  BY <1>1, <1>3, <1>4 DEF Copied, ZTypeOK
<1>6. ZTypeOK'
  <2>1. dest' \in [1..size -> Nat]
    BY <1>1, <1>3, <1>4 DEF ZTypeOK
  <2> QED
    BY <2>1, <1>1, <1>3 DEF ZTypeOK
<1>7. Between'
  BY <1>1, <1>2, <1>3, ChunksMore DEF Between, More
<1>8. Whole'
  <2> SUFFICES ASSUME ~More PROVE Whole'
    BY <1>3 DEF Whole
  <2>1. made = size
    BY <1>1, <1>2 DEF More
  <2>2. ret \in AtEnd(fate)
    BY <1>1, <1>2, <2>1 DEF More, Answers
  <2> QED
    BY <1>3, <2>1, <2>2 DEF Whole
<1>9. Filled' /\ Contract' /\ len' = p_dest'
  BY <1>1, <1>3 DEF Filled, Contract
<1>10. zpc' # "done" /\ dest_len' = NotSet
  BY <1>3
<1> QED
  BY <1>5, <1>6, <1>7, <1>8, <1>9, <1>10

LEMMA LeaveInv == ZInv /\ Leave => ZInv'
<1> SUFFICES ASSUME ZInv, Leave PROVE ZInv'
  OBVIOUS
<1> USE DEF ZInv, Leave, call
<1>1. /\ size \in Nat /\ fate \in FatesOf(fn) /\ fn \in {"mem_def", "mem_inf"}
      /\ p_dest = size /\ len = size /\ ret \in AtEnd(fate)
      /\ fn = "mem_inf" => ret \notin Errors
  BY SizeAssumption DEF ZTypeOK, Whole
<1>2. \/ fate = "end" /\ ret = "Z_STREAM_END"
      \/ fate = "short" /\ ret # "Z_STREAM_END" /\ fn = "mem_inf"
  BY <1>1 DEF FatesOf, Fates, AtEnd, Errors
<1>3. zpc' = "done" /\ dest_len' = size
      /\ ret' = IF fate = "end" THEN "Z_OK" ELSE "Z_DATA_ERROR"
  BY <1>1, <1>2
<1>4. Outcome(ret', dest_len', p_dest') \in Outcomes(fate', size')
  BY <1>1, <1>2, <1>3 DEF Outcomes, Outcome
<1>5. Contract' /\ Copied'
  BY <1>3, <1>4 DEF Contract, Copied
<1>6. ZTypeOK'
  BY <1>1, <1>3 DEF ZTypeOK
<1>7. Between' /\ Filled' /\ Whole'
  BY <1>3 DEF Between, Filled, Whole
<1> QED
  BY <1>3, <1>5, <1>6, <1>7

\* Where a call of mem_def or mem_inf stands.
THEOREM ZutilInvariant == ZSpec => []ZInv
<1>1. ZInv /\ [ZNext]_zvars => ZInv'
  <2> SUFFICES ASSUME ZInv, [ZNext]_zvars PROVE ZInv'
    OBVIOUS
  <2>1. CASE ZNext
    BY <2>1, InitStreamInv, CallZlibInv, GiveUpInv, CopyInv, LeaveInv DEF ZNext
  <2>2. CASE UNCHANGED zvars
    BY <2>2 DEF zvars, ZInv, ZTypeOK, Between, Filled, Whole, Copied, Contract
  <2> QED
    BY <2>1, <2>2
<1> QED
  BY <1>1, ZInitInv, PTL DEF ZSpec

\* The chunks end up in the caller's memory in order, each once, and never
\* behind its end (the loops of mem_def and mem_inf).
THEOREM CopiedHolds == ZSpec => []Copied
<1>1. ZInv => Copied
  BY DEF ZInv
<1> QED
  BY <1>1, ZutilInvariant, PTL

\* What mem_def and mem_inf return, store in *dest_len and leave in dest is one
\* of the outcomes that Zlib lists; mem_def's assertions hold.
THEOREM ContractHolds == ZSpec => []Contract
<1>1. ZInv => Contract
  BY DEF ZInv
<1> QED
  BY <1>1, ZutilInvariant, PTL
=============================================================================
