------------------------------ MODULE UrlQueue ------------------------------
(***************************************************************************)
(* The linked lists of queue.c (p4 and p5): the Queue of urls that is the  *)
(* frontier of both crawlers, and the VQueue of pointers that is the pool  *)
(* of handles of findpng3. Memory is explicit, so that a node that is      *)
(* leaked, freed twice or reached after it was freed can be seen.          *)
(*                                                                         *)
(* Each operation runs under url_frontier_mutex (p4) or in the only thread *)
(* (p5) and is one action; destroy_queue is a loop and takes a step for    *)
(* each node. malloc's result is not looked at: without memory the program *)
(* crashes in strcpy.                                                      *)
(***************************************************************************)
EXTENDS Naturals, Sequences, FiniteSets

CONSTANTS
    Data,     \* what is queued (urls, handles)
    Address,  \* where malloc can place a node
    NULL

ASSUME AddressAssumption ==
    /\ IsFiniteSet(Address)
    /\ NULL \notin Address

VARIABLES
    kind,     \* "Queue" or "VQueue"
    phase,    \* "live", "destroy" (in destroy_queue), "gone" or "crashed"
    front,
    rear,
    size,
    node      \* the allocated nodes: a function from their addresses

vars == <<kind, phase, front, rear, size, node>>

Pointer   == Address \cup {NULL}
Node      == [data : Data, next : Pointer]
Allocated == DOMAIN node

TypeOK ==
    /\ kind \in {"Queue", "VQueue"}
    /\ phase \in {"live", "destroy", "gone", "crashed"}
    /\ front \in Pointer
    /\ rear \in Pointer
    /\ size \in Nat
    /\ Allocated \in SUBSET Address
    /\ node \in [Allocated -> Node]

\* init_queue, or init_vqueue
Init == /\ kind \in {"Queue", "VQueue"}
        /\ phase = "live"
        /\ front = NULL
        /\ rear = NULL
        /\ size = 0
        /\ node = [p \in {} |-> NULL]

IsEmpty == size = 0

\* The memory with a new node at p, which the last one, if any, points to.
Link(p, d) ==
    [q \in Allocated \cup {p} |->
        IF q = p THEN [data |-> d, next |-> NULL]
        ELSE IF ~IsEmpty /\ q = rear THEN [node[q] EXCEPT !.next = p]
        ELSE node[q]]

BugPut(d) ==  \* the new node goes to the front
    /\ phase = "live"
    /\ \E p \in Address \ Allocated :
          /\ node' = [q \in Allocated \cup {p} |->
                        IF q = p THEN [data |-> d, next |-> front] ELSE node[q]]
          /\ front' = p
          /\ rear' = IF IsEmpty THEN p ELSE rear
    /\ size' = size + 1
    /\ UNCHANGED <<kind, phase>>

\* A node for d becomes the last.
Put(d) ==
    /\ phase = "live"
    /\ \E p \in Address \ Allocated :
          /\ node' = Link(p, d)
          /\ front' = IF IsEmpty THEN p ELSE front
          /\ rear' = p
    /\ size' = size + 1
    /\ UNCHANGED <<kind, phase>>

\* enqueue copies the url into the node, venqueue keeps the pointer.
Enqueue(d) == kind = "Queue" /\ Put(d)

VEnqueue(d) == kind = "VQueue" /\ Put(d)

\* enqueue, or venqueue, when malloc returns a null pointer
EnqueueNoMemory ==
    /\ phase = "live"
    /\ Address = Allocated
    /\ phase' = "crashed"
    /\ UNCHANGED <<kind, front, rear, size, node>>

BugUnlink ==  \* rear keeps pointing to the node that is freed
    /\ front' = IF front = rear THEN NULL ELSE node[front].next
    /\ size' = size - 1
    /\ node' = [q \in Allocated \ {front} |-> node[q]]
    /\ UNCHANGED rear

\* The first node is taken off the list and freed.
Unlink ==
    /\ IF front = rear
       THEN front' = NULL /\ rear' = NULL
       ELSE front' = node[front].next /\ UNCHANGED rear
    /\ size' = size - 1
    /\ node' = [q \in Allocated \ {front} |-> node[q]]

\* The first node is taken; an empty queue stays as it is.
Get == /\ phase = "live"
       /\ ~IsEmpty
       /\ Unlink
       /\ UNCHANGED <<kind, phase>>

Dequeue == kind = "Queue" /\ Get

VDequeue == kind = "VQueue" /\ Get

\* destroy_queue is called. A VQueue has none: findpng3 empties it with vdequeue.
StartDestroy ==
    /\ kind = "Queue" /\ phase = "live"
    /\ phase' = "destroy"
    /\ UNCHANGED <<kind, front, rear, size, node>>

BugDestroyQueue ==  \* the last node is left alone
    /\ phase = "destroy"
    /\ \/ front = rear /\ phase' = "gone" /\ UNCHANGED <<front, rear, size, node>>
       \/ front # rear /\ Unlink /\ UNCHANGED phase
    /\ UNCHANGED kind

\* destroy_queue dequeues until the queue is empty.
DestroyQueue ==
    /\ phase = "destroy"
    /\ \/ IsEmpty /\ phase' = "gone" /\ UNCHANGED <<front, rear, size, node>>
       \/ ~IsEmpty /\ Unlink /\ UNCHANGED phase
    /\ UNCHANGED kind

Next == \/ \E d \in Data : Enqueue(d) \/ VEnqueue(d)
        \/ EnqueueNoMemory
        \/ Dequeue \/ VDequeue
        \/ StartDestroy
        \/ DestroyQueue

Spec == Init /\ [][Next]_vars /\ WF_vars(DestroyQueue)

-------------------------------------------------------------------------------
\* The k-th node from the front, for k in 1..size; NULL behind a broken link.
Chain ==
    LET at[k \in 1..size] ==
          IF k = 1 THEN front
          ELSE IF at[k - 1] \in Allocated THEN node[at[k - 1]].next ELSE NULL
    IN  at

\* front, rear and size describe one list: size steps from front go through
\* every allocated node once, the last of them is rear, and it ends there. So no
\* node is leaked, and none is reachable after it was freed.
WellLinked ==
    /\ TypeOK
    /\ Len(Chain) = Cardinality(Allocated)
    /\ {Chain[k] : k \in 1..size} = Allocated
    /\ IsEmpty => front = NULL /\ rear = NULL
    /\ ~IsEmpty => rear = Chain[size] /\ node[rear].next = NULL

\* destroy_queue, once begun, ends with every node freed.
Destroyed == phase = "destroy" ~> (phase = "gone" /\ Allocated = {})

\* The queue can be used until it is destroyed, and what it holds until then, from the
\* front on.
Usable   == phase \in {"live", "crashed"}
Contents == IF Usable THEN [k \in 1..size |-> node[Chain[k]].data] ELSE <<>>

Promise == INSTANCE Fifo WITH contents <- Contents, usable <- Usable

\* The queue hands its data out in the order it came.
Refinement == Promise!Spec
===============================================================================
