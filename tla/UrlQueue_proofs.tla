--------------------------- MODULE UrlQueue_proofs ---------------------------
(***************************************************************************)
(* The nodes of a queue form one list, and the queue hands its data out in *)
(* the order it came, for every set of urls and every memory.              *)
(***************************************************************************)
EXTENDS UrlQueue, SeqLemmas

\* s lists the nodes of the queue in order: they are the allocated ones, each points to
\* the next and the last nowhere.
ListedBy(s) ==
    /\ IsInjective(s)
    /\ Range(s) = Allocated
    /\ Len(s) = size
    /\ s = <<>> => front = NULL /\ rear = NULL
    /\ s # <<>> => front = s[1] /\ rear = s[Len(s)]
    /\ \A k \in 1..Len(s) : node[s[k]].next = IF k = Len(s) THEN NULL ELSE s[k + 1]

QueueInv == TypeOK /\ \E s \in Seq(Address) : ListedBy(s)

-------------------------------------------------------------------------------
(* The chain from front. *)

\* What the definition of Chain says.
Step(f) == [k \in 1..size |-> IF k = 1 THEN front
                              ELSE IF f[k - 1] \in Allocated THEN node[f[k - 1]].next
                              ELSE NULL]

LEMMA ListIsStep ==
  ASSUME NEW s \in Seq(Address), ListedBy(s)
  PROVE  s = Step(s)
<1>1. /\ Len(s) \in Nat /\ size = Len(s) /\ DOMAIN s = 1..Len(s)
      /\ s = [k \in 1..Len(s) |-> s[k]]
  BY DEF ListedBy
<1>2. ASSUME NEW k \in 1..size
      PROVE  s[k] = Step(s)[k]
  <2>1. CASE k = 1
    <3>1. s # <<>> /\ front = s[1]
      BY <1>1, <2>1 DEF ListedBy
    <3> QED
      BY <2>1, <3>1 DEF Step
  <2>2. CASE k # 1
    <3>1. k - 1 \in 1..Len(s) /\ k - 1 # Len(s) /\ (k - 1) + 1 = k
      BY <1>1, <2>2
    <3>2. s[k - 1] \in Allocated /\ node[s[k - 1]].next = s[k]
      BY <1>1, <3>1 DEF ListedBy, Range
    <3> QED
      BY <2>2, <3>2 DEF Step
  <2> QED
    BY <2>1, <2>2
<1> QED
  BY <1>1, <1>2 DEF Step

LEMMA StepIsUnique ==
  ASSUME NEW s, s = Step(s), NEW f, f = Step(f), size \in Nat
  PROVE  f = s
<1> DEFINE P == {n \in Nat : \A k \in 1..size : k <= n => f[k] = s[k]}
<1>1. 0 \in P
  OBVIOUS
<1>2. ASSUME NEW n \in Nat, n \in P
      PROVE  n + 1 \in P
  <2> SUFFICES ASSUME NEW k \in 1..size, k <= n + 1 PROVE f[k] = s[k]
    OBVIOUS
  <2>1. CASE k = 1
    <3>1. Step(f)[k] = front /\ Step(s)[k] = front
      BY <2>1 DEF Step
    <3> QED
      BY <3>1
  <2>2. CASE k # 1
    <3>1. k - 1 \in 1..size /\ k - 1 <= n
      BY <2>2
    <3>2. f[k - 1] = s[k - 1]
      BY <1>2, <3>1
    <3>3. Step(f)[k] = Step(s)[k]
      BY <2>2, <3>2 DEF Step
    <3> QED
      BY <3>3
  <2> QED
    BY <2>1, <2>2
<1>3. Nat \subseteq P
  <2> HIDE DEF P
  <2> QED
    BY <1>1, <1>2, Induction
<1>4. \A k \in 1..size : f[k] = s[k]
  BY <1>3
<1>5. f = [k \in 1..size |-> f[k]] /\ s = [k \in 1..size |-> s[k]]
  BY DEF Step
<1> QED
  BY <1>4, <1>5

\* Chain is the sequence that lists the nodes.
LEMMA ChainLists == \A s \in Seq(Address) : ListedBy(s) => Chain = s
<1> SUFFICES ASSUME NEW s \in Seq(Address), ListedBy(s) PROVE Chain = s
  OBVIOUS
<1>1. s = Step(s) /\ size \in Nat
  BY ListIsStep DEF ListedBy
<1>2. Chain = CHOOSE f : f = Step(f)
  BY DEF Chain, Step
<1>3. Chain = Step(Chain)
  BY <1>1, <1>2
<1> QED
  BY <1>1, <1>3, StepIsUnique

LEMMA ChainListsNext == (\A s \in Seq(Address) : ListedBy(s) => Chain = s)'
BY ChainLists, PTL

-------------------------------------------------------------------------------
(* The operations on the list. *)

\* The memory with a new node differs in what the last one points to.
LEMMA LinkAt ==
  ASSUME TypeOK, NEW p \in Address \ Allocated, NEW d, node' = Link(p, d)
  PROVE  /\ Allocated' = Allocated \cup {p}
         /\ node'[p] = [data |-> d, next |-> NULL]
         /\ \A q \in Allocated :
               /\ node'[q].data = node[q].data
               /\ node'[q].next = IF ~IsEmpty /\ q = rear THEN p ELSE node[q].next
<1>1. \A q \in Allocated : node[q] \in [data : Data, next : Pointer]
  BY DEF TypeOK, Node
<1>2. Allocated' = Allocated \cup {p} /\ node'[p] = [data |-> d, next |-> NULL]
  BY DEF Link, Allocated
<1>3. ASSUME NEW q \in Allocated
      PROVE  /\ node'[q].data = node[q].data
             /\ node'[q].next = IF ~IsEmpty /\ q = rear THEN p ELSE node[q].next
  BY <1>1 DEF Link
<1> QED
  BY <1>2, <1>3

\* Put appends the address of its node.
LEMMA PutAppends ==
  ASSUME TypeOK, NEW s \in Seq(Address), ListedBy(s), NEW d \in Data, Put(d)
  PROVE  \E p \in Address \ Allocated :
            /\ Append(s, p) \in Seq(Address)
            /\ ListedBy(Append(s, p))'
            /\ node'[p].data = d
            /\ \A q \in Allocated : node'[q].data = node[q].data
<1>1. PICK p \in Address \ Allocated :
         /\ node' = Link(p, d)
         /\ front' = IF IsEmpty THEN p ELSE front
         /\ rear' = p
         /\ size' = size + 1
  BY DEF Put
<1> DEFINE t == Append(s, p)
<1>e. p \in Address /\ p \notin Allocated
  OBVIOUS
<1>a. /\ Allocated' = Allocated \cup {p}
      /\ node'[p] = [data |-> d, next |-> NULL]
      /\ \A q \in Allocated :
            /\ node'[q].data = node[q].data
            /\ node'[q].next = IF ~IsEmpty /\ q = rear THEN p ELSE node[q].next
  BY <1>1, LinkAt
<1>b. /\ t \in Seq(Address) /\ Len(t) = Len(s) + 1 /\ Len(s) \in Nat /\ t # <<>>
      /\ DOMAIN s = 1..Len(s)
      /\ \A k \in 1..Len(s) : t[k] = s[k]
      /\ t[Len(s) + 1] = p
  <2>1. s \in Seq(Address) /\ p \in Address
    OBVIOUS
  <2> QED
    BY <2>1
<1>c. \A k \in 1..Len(s) : s[k] \in Allocated
  BY <1>b DEF ListedBy, Range
<1>d. size = Len(s) /\ (IsEmpty <=> s = <<>>)
  BY DEF ListedBy, IsEmpty
<1> HIDE DEF t
<1>2. /\ t \in Seq(Address) /\ Len(t) = Len(s) + 1 /\ Len(s) \in Nat /\ t # <<>>
      /\ DOMAIN s = 1..Len(s)
      /\ \A k \in 1..Len(s) : t[k] = s[k] /\ s[k] \in Allocated
      /\ t[Len(s) + 1] = p
      /\ IsEmpty <=> s = <<>>
      /\ size = Len(s)
  BY <1>b, <1>c, <1>d
<1>3. IsInjective(t) /\ Range(t) = Allocated \cup {p}
  <2>1. IsInjective(s) /\ Range(s) = Allocated /\ p \in Address /\ p \notin Range(s)
    BY DEF ListedBy
  <2> QED
    BY <2>1, InjectiveAppend, AppendRange DEF t
<1>4. Allocated' = Allocated \cup {p}
  BY <1>a
<1>5. front' = t[1] /\ rear' = t[Len(t)]
  <2>1. CASE s = <<>>
    BY <1>1, <1>2, <2>1
  <2>2. CASE s # <<>>
    <3>1. 1 \in 1..Len(s) /\ front = s[1]
      BY <1>2, <2>2 DEF ListedBy
    <3> QED
      BY <1>1, <1>2, <2>2, <3>1
  <2> QED
    BY <2>1, <2>2
<1>6. ASSUME NEW k \in 1..Len(t)
      PROVE  node'[t[k]].next = IF k = Len(t) THEN NULL ELSE t[k + 1]
  <2>1. CASE k = Len(t)
    <3>1. t[k] = p /\ node'[p] = [data |-> d, next |-> NULL]
      BY <1>2, <1>a, <2>1
    <3> QED
      BY <2>1, <3>1
  <2>2. CASE k = Len(s)
    <3>1. /\ k \in 1..Len(s) /\ ~IsEmpty /\ t[k] = rear /\ rear \in Allocated /\ rear # p
          /\ k # Len(t) /\ t[k + 1] = p
      BY <1>1, <1>2, <2>2 DEF ListedBy
    <3>2. node'[rear].next = p
      BY <1>a, <3>1
    <3> QED
      BY <3>1, <3>2
  <2>3. CASE k # Len(t) /\ k # Len(s)
    <3>1. /\ k \in 1..Len(s) /\ t[k] = s[k] /\ s[k] \in Allocated /\ s[k] # p
          /\ k + 1 \in 1..Len(s) /\ t[k + 1] = s[k + 1]
      <4>1. k \in 1..Len(s) /\ k + 1 \in 1..Len(s)
        <5>1. Len(t) = Len(s) + 1 /\ Len(s) \in Nat
          BY <1>2
        <5> QED
          BY <2>3, <5>1
      <4> QED
        BY <1>2, <1>e, <4>1
    <3>2. s[k] # rear
      <4>1. Len(s) \in 1..Len(s) /\ rear = s[Len(s)]
        BY <1>2, <3>1 DEF ListedBy
      <4> QED
        BY <1>2, <2>3, <3>1, <4>1 DEF ListedBy, IsInjective
    <3>3. node'[s[k]].next = node[s[k]].next
      BY <1>a, <3>1, <3>2
    <3>4. node[s[k]].next = s[k + 1]
      BY <2>3, <3>1 DEF ListedBy
    <3> QED
      BY <2>3, <3>1, <3>3, <3>4
  <2> QED
    BY <2>1, <2>2, <2>3
<1>7. ListedBy(t)'
  BY <1>1, <1>2, <1>3, <1>4, <1>5, <1>6 DEF ListedBy
<1> QED
  BY <1>a, <1>2, <1>7 DEF t

\* Unlink takes the first address away.
LEMMA UnlinkTakesHead ==
  ASSUME TypeOK, NEW s \in Seq(Address), ListedBy(s), ~IsEmpty, Unlink
  PROVE  /\ s # <<>>
         /\ Tail(s) \in Seq(Address)
         /\ ListedBy(Tail(s))'
         /\ \A q \in Range(Tail(s)) : node'[q] = node[q]
<1> DEFINE t == Tail(s)
<1>1. /\ s # <<>> /\ Len(s) \in Nat /\ Len(s) # 0 /\ size = Len(s)
      /\ DOMAIN s = 1..Len(s)
      /\ front = s[1] /\ rear = s[Len(s)] /\ Head(s) = s[1]
  BY DEF ListedBy, IsEmpty
<1>2. /\ t \in Seq(Address) /\ Len(t) = Len(s) - 1
      /\ \A k \in 1..Len(t) : t[k] = s[k + 1] /\ k + 1 \in 1..Len(s)
  BY <1>1
<1>3. IsInjective(t) /\ Range(t) = Allocated \ {front}
  BY <1>1, HeadTail DEF ListedBy
<1>4. /\ Allocated' = Allocated \ {front}
      /\ \A q \in Allocated \ {front} : node'[q] = node[q]
      /\ size' = size - 1
  BY DEF Unlink, Allocated
<1>5. front = rear <=> t = <<>>
  <2>1. front = rear => Len(s) = 1
    BY <1>1 DEF ListedBy, IsInjective
  <2>2. t = <<>> <=> Len(s) = 1
    BY <1>1, <1>2
  <2> QED
    BY <1>1, <2>1, <2>2
<1>6. /\ t = <<>> => front' = NULL /\ rear' = NULL
      /\ t # <<>> => front' = t[1] /\ rear' = t[Len(t)]
  <2>1. CASE t = <<>>
    BY <1>5, <2>1 DEF Unlink
  <2>2. CASE t # <<>>
    <3>1. front' = node[s[1]].next /\ rear' = s[Len(s)]
      BY <1>1, <1>5, <2>2 DEF Unlink
    <3>2. 1 \in 1..Len(t) /\ Len(t) \in 1..Len(t) /\ 1 # Len(s) /\ Len(t) + 1 = Len(s)
      BY <1>1, <1>2, <2>2
    <3>3. node[s[1]].next = s[2]
      BY <1>1, <3>2 DEF ListedBy
    <3> QED
      BY <1>2, <2>2, <3>1, <3>2, <3>3
  <2> QED
    BY <2>1, <2>2
<1>7. ASSUME NEW k \in 1..Len(t)
      PROVE  node'[t[k]].next = IF k = Len(t) THEN NULL ELSE t[k + 1]
  <2>1. t[k] \in Range(t) /\ t[k] = s[k + 1] /\ k + 1 \in 1..Len(s)
    <3>1. t[k] = s[k + 1] /\ k + 1 \in 1..Len(s)
      BY <1>2
    <3>2. k \in DOMAIN t
      BY <1>2
    <3> HIDE DEF t
    <3> QED
      BY <3>1, <3>2 DEF Range
  <2>2. node'[t[k]] = node[s[k + 1]]
    BY <1>3, <1>4, <2>1
  <2>3. node[s[k + 1]].next = IF k + 1 = Len(s) THEN NULL ELSE s[(k + 1) + 1]
    BY <2>1 DEF ListedBy
  <2>4. k # Len(t) => k + 1 \in 1..Len(t)
    BY <1>1, <1>2
  <2>5. (k + 1 = Len(s)) <=> (k = Len(t))
    BY <1>1, <1>2
  <2> QED
    BY <1>2, <2>2, <2>3, <2>4, <2>5
<1>8. ListedBy(t)'
  BY <1>1, <1>2, <1>3, <1>4, <1>6, <1>7 DEF ListedBy
<1> QED
  BY <1>1, <1>2, <1>3, <1>4, <1>8

LEMMA TypePut ==
  ASSUME TypeOK, NEW d \in Data, Put(d)
  PROVE  TypeOK'
<1>1. PICK p \in Address \ Allocated :
         /\ node' = Link(p, d)
         /\ front' = IF IsEmpty THEN p ELSE front
         /\ rear' = p
         /\ size' = size + 1
  BY DEF Put
<1>2. Allocated' = Allocated \cup {p} /\ Allocated' \in SUBSET Address
  BY <1>1, LinkAt DEF TypeOK
<1>3. node' \in [Allocated' -> Node]
  <2>1. \A q \in Allocated : node[q] \in [data : Data, next : Pointer]
    BY DEF TypeOK, Node
  <2>2. p \in Pointer /\ NULL \in Pointer
    BY DEF Pointer
  <2>3. node' \in [Allocated \cup {p} -> [data : Data, next : Pointer]]
    BY <1>1, <2>1, <2>2 DEF Link
  <2> QED
    BY <1>2, <2>3 DEF Node
<1> QED
  BY <1>1, <1>2, <1>3 DEF TypeOK, Pointer, Put

LEMMA TypeUnlink ==
  ASSUME TypeOK, NEW s \in Seq(Address), ListedBy(s), ~IsEmpty, Unlink
  PROVE  /\ front' \in Pointer /\ rear' \in Pointer /\ size' \in Nat
         /\ Allocated' \in SUBSET Address /\ node' \in [Allocated' -> Node]
<1>1. front \in Allocated
  <2>1. s # <<>> /\ DOMAIN s = 1..Len(s) /\ front = s[1] /\ 1 \in 1..Len(s)
    BY DEF ListedBy, IsEmpty, TypeOK
  <2> QED
    BY <2>1 DEF ListedBy, Range
<1>2. node[front].next \in Pointer
  BY <1>1 DEF TypeOK, Node
<1>3. Allocated' = Allocated \ {front} /\ node' \in [Allocated \ {front} -> Node]
  BY DEF Unlink, Allocated, TypeOK
<1>4. size' \in Nat
  BY DEF Unlink, TypeOK, IsEmpty
<1> QED
  BY <1>2, <1>3, <1>4 DEF Unlink, TypeOK, Pointer

\* The steps as what they do to the sequence that lists the nodes.
LEMMA QueueNext ==
  ASSUME QueueInv, [Next]_vars
  PROVE  QueueInv'
<1>1. PICK s \in Seq(Address) : ListedBy(s)
  BY DEF QueueInv
<1>2. TypeOK
  BY DEF QueueInv
<1>3. ASSUME NEW d \in Data, Put(d)
      PROVE  QueueInv'
  <2>1. \E p \in Address \ Allocated : Append(s, p) \in Seq(Address) /\ ListedBy(Append(s, p))'
    BY <1>1, <1>2, <1>3, PutAppends
  <2>2. TypeOK'
    BY <1>2, <1>3, TypePut
  <2> QED
    BY <2>1, <2>2 DEF QueueInv
<1>4. ASSUME ~IsEmpty, Unlink, kind' = kind,
             phase' \in {"live", "destroy", "gone", "crashed"}
      PROVE  QueueInv'
  <2>1. Tail(s) \in Seq(Address) /\ ListedBy(Tail(s))'
    BY <1>1, <1>2, <1>4, UnlinkTakesHead
  <2>2. TypeOK'
    <3>1. /\ front' \in Pointer /\ rear' \in Pointer /\ size' \in Nat
          /\ Allocated' \in SUBSET Address /\ node' \in [Allocated' -> Node]
      BY <1>1, <1>2, <1>4, TypeUnlink
    <3> QED
      BY <1>2, <1>4, <3>1 DEF TypeOK, Pointer, Node
  <2> QED
    BY <2>1, <2>2 DEF QueueInv
<1>5. ASSUME UNCHANGED <<kind, front, rear, size, node>>,
             phase' \in {"live", "destroy", "gone", "crashed"}
      PROVE  QueueInv'
  <2>1. TypeOK'
    BY <1>2, <1>5 DEF TypeOK, Allocated, Pointer, Node
  <2>2. ListedBy(s)'
    BY <1>1, <1>5 DEF ListedBy, Allocated
  <2> QED
    BY <2>1, <2>2 DEF QueueInv
<1>6. phase \in {"live", "destroy", "gone", "crashed"}
  BY <1>2 DEF TypeOK
<1>7. CASE Dequeue \/ VDequeue
  BY <1>4, <1>6, <1>7 DEF Dequeue, VDequeue, Get
<1>8. CASE DestroyQueue
  BY <1>4, <1>5, <1>6, <1>8 DEF DestroyQueue
<1>9. CASE EnqueueNoMemory \/ StartDestroy \/ UNCHANGED vars
  BY <1>5, <1>6, <1>9 DEF EnqueueNoMemory, StartDestroy, vars
<1> QED
  BY <1>3, <1>7, <1>8, <1>9 DEF Next, Enqueue, VEnqueue

LEMMA QueueInit == Init => QueueInv
<1> SUFFICES ASSUME Init PROVE QueueInv
  OBVIOUS
<1>1. Allocated = {} /\ front = NULL /\ rear = NULL /\ size = 0
  BY DEF Init, Allocated
<1>2. TypeOK
  BY <1>1 DEF Init, TypeOK, Pointer
<1>3. <<>> \in Seq(Address) /\ ListedBy(<<>>)
  BY <1>1 DEF ListedBy, IsInjective, Range
<1> QED
  BY <1>2, <1>3 DEF QueueInv

\* The allocated nodes form one list, whatever has been queued, taken and destroyed.
THEOREM QueueInvariant == Spec => []QueueInv
BY QueueInit, QueueNext, PTL DEF Spec

\* size steps along the pointers from front go through every allocated node once and end
\* at rear: no node is leaked, and none that was freed can be reached.
THEOREM WellLinkedHolds == Spec => []WellLinked
<1>1. QueueInv => WellLinked
  <2> SUFFICES ASSUME QueueInv PROVE WellLinked
    OBVIOUS
  <2>1. PICK s \in Seq(Address) : ListedBy(s)
    BY DEF QueueInv
  <2>2. Chain = s
    BY <2>1, ChainLists
  <2>3. /\ Len(s) \in Nat /\ DOMAIN s = 1..Len(s) /\ size = Len(s)
        /\ IsInjective(s) /\ Range(s) = Allocated
    BY <2>1 DEF ListedBy
  <2>4. Len(s) = Cardinality(Allocated)
    BY <2>3, InjectiveLen
  <2>5. {s[k] : k \in 1..size} = Allocated
    BY <2>3 DEF Range
  <2>6. IsEmpty => front = NULL /\ rear = NULL
    BY <2>1, <2>3 DEF ListedBy, IsEmpty
  <2>7. ~IsEmpty => rear = s[size] /\ node[rear].next = NULL
    <3> SUFFICES ASSUME ~IsEmpty PROVE rear = s[size] /\ node[rear].next = NULL
      OBVIOUS
    <3>1. s # <<>> /\ Len(s) \in 1..Len(s)
      BY <2>3 DEF IsEmpty
    <3> QED
      BY <2>1, <2>3, <3>1 DEF ListedBy
  <2> QED
    BY <2>2, <2>4, <2>5, <2>6, <2>7 DEF WellLinked, QueueInv
<1> QED
  BY <1>1, QueueInvariant, PTL

-------------------------------------------------------------------------------
(* The queue implements Fifo. *)

LEMMA ContentsLists ==
  \A s \in Seq(Address) :
     ListedBy(s) => Contents = IF Usable THEN [k \in 1..Len(s) |-> node[s[k]].data] ELSE <<>>
BY ChainLists DEF Contents, ListedBy

LEMMA ContentsListsNext ==
  (\A s \in Seq(Address) :
     ListedBy(s) => Contents = IF Usable THEN [k \in 1..Len(s) |-> node[s[k]].data] ELSE <<>>)'
BY ContentsLists, PTL

LEMMA PutPromised ==
  ASSUME QueueInv, NEW d \in Data, Put(d)
  PROVE  Promise!Put
<1>1. PICK s \in Seq(Address) : ListedBy(s)
  BY DEF QueueInv
<1>2. TypeOK /\ Usable /\ Usable'
  BY DEF QueueInv, Put, Usable
<1>3. PICK p \in Address \ Allocated :
         /\ Append(s, p) \in Seq(Address)
         /\ ListedBy(Append(s, p))'
         /\ node'[p].data = d
         /\ \A q \in Allocated : node'[q].data = node[q].data
  BY <1>1, <1>2, PutAppends
<1> DEFINE t == Append(s, p)
           old == [k \in 1..Len(s) |-> node[s[k]].data]
           new == [k \in 1..Len(t) |-> node'[t[k]].data]
<1>4. Contents = old
  BY <1>1, <1>2, ContentsLists
<1>5. Contents' = new
  BY <1>2, <1>3, ContentsListsNext
<1>6. /\ Len(s) \in Nat /\ Len(t) = Len(s) + 1 /\ t[Len(s) + 1] = p
      /\ \A k \in 1..Len(s) : t[k] = s[k]
      /\ DOMAIN s = 1..Len(s)
  <2>1. p \in Address
    OBVIOUS
  <2> QED
    BY <2>1
<1>7. \A k \in 1..Len(s) : s[k] \in Allocated
  BY <1>1, <1>6 DEF ListedBy, Range
<1>8. \A k \in 1..Len(s) : node[s[k]].data \in Data
  BY <1>2, <1>7 DEF TypeOK, Node
<1> HIDE DEF t
<1>9. new = Append(old, d)
  <2>1. old \in Seq(Data) /\ Len(old) = Len(s)
    BY <1>6, <1>8
  <2>2. \A k \in 1..Len(s) : new[k] = old[k]
    BY <1>3, <1>6, <1>7
  <2>3. new[Len(s) + 1] = d
    BY <1>3, <1>6
  <2>4. /\ Append(old, d) = [k \in 1..(Len(s) + 1) |-> Append(old, d)[k]]
        /\ \A k \in 1..Len(s) : Append(old, d)[k] = old[k]
        /\ Append(old, d)[Len(s) + 1] = d
    BY <2>1
  <2>5. new = [k \in 1..(Len(s) + 1) |-> new[k]]
    BY <1>6
  <2>6. \A k \in 1..(Len(s) + 1) : new[k] = Append(old, d)[k]
    <3>1. 1..(Len(s) + 1) = 1..Len(s) \cup {Len(s) + 1}
      BY <1>6
    <3> HIDE DEF new, old
    <3> QED
      BY <2>2, <2>3, <2>4, <3>1
  <2> HIDE DEF new, old
  <2> QED
    BY <2>4, <2>5, <2>6
<1> HIDE DEF old, new
<1> QED
  BY <1>2, <1>4, <1>5, <1>9 DEF Promise!Put

LEMMA GetPromised ==
  ASSUME QueueInv, Get
  PROVE  Promise!Get
<1>1. PICK s \in Seq(Address) : ListedBy(s)
  BY DEF QueueInv
<1>2. TypeOK /\ Usable /\ Usable' /\ ~IsEmpty /\ Unlink
  BY DEF QueueInv, Get, Usable
<1> DEFINE t == Tail(s)
           old == [k \in 1..Len(s) |-> node[s[k]].data]
           new == [k \in 1..Len(t) |-> node'[t[k]].data]
<1>3. /\ s # <<>> /\ t \in Seq(Address) /\ ListedBy(t)'
      /\ \A q \in Range(t) : node'[q] = node[q]
  BY <1>1, <1>2, UnlinkTakesHead
<1>4. Contents = old
  BY <1>1, <1>2, ContentsLists
<1>5. Contents' = new
  BY <1>2, <1>3, ContentsListsNext
<1>6. /\ Len(s) \in Nat /\ Len(s) # 0 /\ Len(t) = Len(s) - 1 /\ DOMAIN t = 1..Len(t)
      /\ \A k \in 1..Len(t) : t[k] = s[k + 1] /\ k + 1 \in 1..Len(s)
      /\ DOMAIN s = 1..Len(s)
  BY <1>3
<1>7. \A k \in 1..Len(s) : node[s[k]].data \in Data
  <2>1. \A k \in 1..Len(s) : s[k] \in Allocated
    BY <1>1, <1>6 DEF ListedBy, Range
  <2> QED
    BY <1>2, <2>1 DEF TypeOK, Node
<1> HIDE DEF t
<1>8. old # <<>> /\ new = Tail(old)
  <2>1. old \in Seq(Data) /\ Len(old) = Len(s)
    BY <1>6, <1>7
  <2>2. \A k \in 1..Len(t) : new[k] = old[k + 1]
    <3>1. \A k \in 1..Len(t) : t[k] \in Range(t)
      BY <1>6 DEF Range
    <3>2. \A k \in 1..Len(t) : node'[t[k]] = node[s[k + 1]]
      BY <1>3, <1>6, <3>1
    <3>3. \A k \in 1..Len(t) : old[k + 1] = node[s[k + 1]].data
      BY <1>6
    <3> QED
      BY <3>2, <3>3
  <2>3. /\ old # <<>>
        /\ Tail(old) = [k \in 1..Len(t) |-> old[k + 1]]
    <3>1. Len(old) # 0 /\ Len(old) - 1 = Len(t)
      BY <1>6, <2>1
    <3> HIDE DEF old
    <3>2. old # <<>>
      BY <2>1, <3>1
    <3>3. /\ Tail(old) \in Seq(Data) /\ Len(Tail(old)) = Len(t)
          /\ \A k \in 1..Len(t) : Tail(old)[k] = old[k + 1]
      BY <2>1, <3>1, <3>2
    <3>4. \A r \in Seq(Data) : r = [k \in 1..Len(r) |-> r[k]]
      OBVIOUS
    <3> QED
      BY <3>2, <3>3, <3>4
  <2>4. new = [k \in 1..Len(t) |-> new[k]]
    OBVIOUS
  <2> HIDE DEF new, old
  <2> QED
    BY <2>2, <2>3, <2>4
<1> HIDE DEF old, new
<1> QED
  BY <1>2, <1>4, <1>5, <1>8 DEF Promise!Get

LEMMA StepPromised ==
  ASSUME QueueInv, [Next]_vars
  PROVE  [Promise!Next]_<<Contents, Usable>>
<1>1. ASSUME NEW d \in Data, Put(d)
      PROVE  Promise!Next
  BY <1>1, PutPromised DEF Promise!Next
<1>2. CASE Dequeue \/ VDequeue
  BY <1>2, GetPromised DEF Dequeue, VDequeue, Promise!Next
<1>3. CASE StartDestroy
  <2>1. Usable /\ Usable' = FALSE
    BY <1>3 DEF StartDestroy, Usable
  <2>2. Contents' = <<>>
    BY <2>1 DEF Contents
  <2> QED
    BY <2>1, <2>2 DEF Promise!Next, Promise!Destroy
<1>4. CASE DestroyQueue
  <2>1. Usable = FALSE /\ Usable' = FALSE
    BY <1>4 DEF DestroyQueue, Usable
  <2>2. Contents = <<>> /\ Contents' = <<>>
    BY <2>1 DEF Contents
  <2> QED
    BY <2>1, <2>2
<1>5. CASE EnqueueNoMemory
  <2>1. Usable = TRUE /\ Usable' = TRUE /\ UNCHANGED <<front, rear, size, node>>
    BY <1>5 DEF EnqueueNoMemory, Usable
  <2>2. Chain' = Chain
    BY <2>1 DEF Chain, Allocated
  <2>3. Contents' = Contents
    BY <2>1, <2>2 DEF Contents
  <2> QED
    BY <2>1, <2>3
<1>6. CASE UNCHANGED vars
  BY <1>6 DEF vars, Contents, Usable, Chain, Allocated
<1> QED
  BY <1>1, <1>2, <1>3, <1>4, <1>5, <1>6 DEF Next, Enqueue, VEnqueue

\* For every set of urls and however much memory there is, a queue hands its urls out in
\* the order they came in, each once, until it is destroyed.
THEOREM ImplementsFifo == Spec => Refinement
<1>1. Init => Promise!Init
  <2> SUFFICES ASSUME Init PROVE Promise!Init
    OBVIOUS
  <2>1. Usable /\ size = 0
    BY DEF Init, Usable
  <2>2. Contents = [k \in 1..0 |-> node[Chain[k]].data]
    BY <2>1 DEF Contents
  <2>3. Contents = <<>>
    BY <2>2
  <2> QED
    BY <2>1, <2>3 DEF Promise!Init
<1>2. QueueInv /\ [Next]_vars => [Promise!Next]_<<Contents, Usable>>
  BY StepPromised
<1> QED
  BY <1>1, <1>2, QueueInvariant, PTL DEF Spec, Refinement, Promise!Spec

===============================================================================
