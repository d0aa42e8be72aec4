------------------------------ MODULE WaitQueue ------------------------------
(***************************************************************************)
(* The wait queues of the kernel (viengoos/object.c): every object has a   *)
(* queue of threads that wait for something to happen to it.  The queue is *)
(* a list threaded through the thread objects.  Threads are designated by  *)
(* their object ids, not by pointers: both may be paged out.               *)
(*                                                                         *)
(* The folio of an object says whether its queue is empty and names the    *)
(* head.  In a thread, next designates the following waiter or, in the     *)
(* tail, the object; prev the preceding waiter or, in the head, the tail.  *)
(*                                                                         *)
(* The variable queue is a history variable: what the operations promise   *)
(* as plain sequences.  No operation on the list reads it.                 *)
(***************************************************************************)
EXTENDS Naturals, Sequences, FiniteSets

CONSTANTS
    Threads,   \* the ids of the thread objects
    Oids,      \* the ids of all objects; threads can be waited for, too
    None       \* not an object id

ASSUME OidsAssumption == Threads \subseteq Oids /\ None \notin Oids

VARIABLES
    wq,        \* the fields of struct thread and struct folio
    queue      \* history: the waiters of each object, head first

(***************************************************************************)
(* In thread t: p[t] is wait_queue_p, head[t] wait_queue_head, tail[t]     *)
(* wait_queue_tail, next[t] and prev[t] the links.  In the folio of object *)
(* o: fp[o] is folio_object_wait_queue_p, fhead[o] folio_object_wait_queue.*)
(***************************************************************************)
Fields == [p: [Threads -> BOOLEAN], head: [Threads -> BOOLEAN], tail: [Threads -> BOOLEAN],
           next: [Threads -> Oids \cup {None}], prev: [Threads -> Oids \cup {None}],
           fp: [Oids -> BOOLEAN], fhead: [Oids -> Oids \cup {None}]]

\* Thread objects and folios are zeroed when they are allocated.
EmptyFields ==
    [p |-> [t \in Threads |-> FALSE], head |-> [t \in Threads |-> FALSE],
     tail |-> [t \in Threads |-> FALSE],
     next |-> [t \in Threads |-> None], prev |-> [t \in Threads |-> None],
     fp |-> [o \in Oids |-> FALSE], fhead |-> [o \in Oids |-> None]]

\* object_wait_queue_enqueue on a queue whose head is oldhead.
EnqueueBefore(w, o, t, oldhead) ==
    [w EXCEPT !.p[t] = TRUE,
              !.head = [@ EXCEPT ![oldhead] = FALSE, ![t] = TRUE],
              !.tail[t] = FALSE,
              !.next[t] = oldhead,
              !.prev = [@ EXCEPT ![t] = w.prev[oldhead], ![oldhead] = t],
              !.fhead[o] = t]

\* object_wait_queue_enqueue on an empty queue.
EnqueueFirst(w, o, t) ==
    [w EXCEPT !.p[t] = TRUE,
              !.head[t] = TRUE,
              !.tail[t] = TRUE,
              !.next[t] = o,
              !.prev[t] = t,
              !.fp[o] = TRUE,
              !.fhead[o] = t]

EnqueueWaiter(w, o, t) == IF w.fp[o] THEN EnqueueBefore(w, o, t, w.fhead[o])
                          ELSE EnqueueFirst(w, o, t)

\* object_wait_queue_dequeue of the only waiter.
DequeueOnly(w, t) == [w EXCEPT !.p[t] = FALSE, !.fp[w.next[t]] = FALSE]

\* object_wait_queue_dequeue of the tail: the waiter before it becomes the
\* tail and the head is told.
DequeueTail(w, t) ==
    [w EXCEPT !.p[t] = FALSE,
              !.prev[w.fhead[w.next[t]]] = w.prev[t],
              !.tail[w.prev[t]] = TRUE,
              !.next[w.prev[t]] = w.next[t]]

\* Mutant: the new head still points back to the waiter that left.
DequeueHead_KeepPrev(w, t) ==
    [w EXCEPT !.p[t] = FALSE,
              !.head[w.next[t]] = TRUE,
              !.fhead[w.next[w.prev[t]]] = w.next[t]]

\* object_wait_queue_dequeue of the head: prev is the tail, which knows the
\* object; the waiter after it becomes the head.
DequeueHead(w, t) ==
    [w EXCEPT !.p[t] = FALSE,
              !.head[w.next[t]] = TRUE,
              !.fhead[w.next[w.prev[t]]] = w.next[t],
              !.prev[w.next[t]] = w.prev[t]]

\* object_wait_queue_dequeue of a waiter in the middle.
DequeueMiddle(w, t) ==
    [w EXCEPT !.p[t] = FALSE,
              !.next[w.prev[t]] = w.next[t],
              !.prev[w.next[t]] = w.prev[t]]

DequeueWaiter(w, t) ==
    IF w.tail[t] THEN IF w.head[t] THEN DequeueOnly(w, t) ELSE DequeueTail(w, t)
                 ELSE IF w.head[t] THEN DequeueHead(w, t) ELSE DequeueMiddle(w, t)

\* The waiters in the order object_wait_queue_for_each visits them: from the
\* folio's head along next up to the tail.
Walk(w, o) ==
    LET N == 1..Cardinality(Threads)
        at[i \in N] == IF i = 1 THEN w.fhead[o]
                       ELSE IF w.tail[at[i - 1]] THEN at[i - 1] ELSE w.next[at[i - 1]]
        last == CHOOSE i \in N : w.tail[at[i]] /\ \A j \in 1..(i - 1) : ~w.tail[at[j]]
    IN  IF w.fp[o] THEN [i \in 1..last |-> at[i]] ELSE <<>>

Init == wq = EmptyFields /\ queue = [o \in Oids |-> <<>>]

\* The queue without its k-th element.
Without(q, k) == [i \in 1..(Len(q) - 1) |-> IF i < k THEN q[i] ELSE q[i + 1]]

Enqueue(o, t) ==
    /\ ~wq.p[t]
    /\ wq' = EnqueueWaiter(wq, o, t)
    /\ queue' = [queue EXCEPT ![o] = <<t>> \o @]

Dequeue(t) ==
    /\ wq.p[t]
    /\ wq' = DequeueWaiter(wq, t)
    /\ \E o \in Oids : \E k \in 1..Len(queue[o]) :
          /\ queue[o][k] = t
          /\ queue' = [queue EXCEPT ![o] = Without(@, k)]

Next == \E t \in Threads : Dequeue(t) \/ \E o \in Oids : Enqueue(o, t)

Spec == Init /\ [][Next]_<<wq, queue>>
-----------------------------------------------------------------------------
\* The k-th waiter of o has the right links and flags.
Linked(w, q, o, k) ==
    LET t == q[o][k]
        n == Len(q[o])
    IN  /\ w.p[t]
        /\ w.head[t] <=> k = 1
        /\ w.tail[t] <=> k = n
        /\ w.next[t] = IF k = n THEN o ELSE q[o][k + 1]
        /\ w.prev[t] = IF k = 1 THEN q[o][n] ELSE q[o][k - 1]

(***************************************************************************)
(* The lists represent the sequences q: every waiter of every object is    *)
(* linked to its neighbours, the head to the tail and the tail to the      *)
(* object, the folio knows the head, no thread waits twice, and no thread  *)
(* is marked as waiting without being on a queue.  It implies every        *)
(* assertion of object_wait_queue_check, _head, _tail, _next and _prev.    *)
(***************************************************************************)
Represents(w, q) ==
    /\ \A o \in Oids : w.fp[o] <=> q[o] # <<>>
    /\ \A o \in Oids : q[o] # <<>> => w.fhead[o] = q[o][1]
    /\ \A o \in Oids : \A k \in 1..Len(q[o]) : Linked(w, q, o, k)
    /\ \A o1, o2 \in Oids : \A i \in 1..Len(q[o1]), j \in 1..Len(q[o2]) :
          q[o1][i] = q[o2][j] => o1 = o2 /\ i = j
    /\ \A t \in Threads : w.p[t] => \E o \in Oids : \E k \in 1..Len(q[o]) : q[o][k] = t

\* The links of struct thread and struct folio hold ids, the flags are flags.
TypeOK == wq \in Fields /\ queue \in [Oids -> Seq(Threads)]

(***************************************************************************)
(* Whatever is enqueued and dequeued in whatever order, the linked lists   *)
(* and the sequences agree: in particular a waiter dequeued from any place *)
(* leaves its neighbours, the head's link to the tail and the folio        *)
(* consistent.                                                             *)
(***************************************************************************)
ListsOK == Represents(wq, queue)
=============================================================================
