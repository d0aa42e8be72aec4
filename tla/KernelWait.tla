----------------------------- MODULE KernelWait ------------------------------
(***************************************************************************)
(* How threads block in the kernel and are woken (viengoos/server.c): the  *)
(* futex call, waiting for the destruction of an object, and waiting for   *)
(* information about an activity.  A blocked thread is on the wait queue   *)
(* of an object and gets no reply until an event takes it off that queue.  *)
(*                                                                         *)
(* Each action is one message: the server handles it with kernel_lock held.*)
(* The contents of the pages are left out: whether the word of a futex has *)
(* the expected value is a free choice.  When it has not, the call replies *)
(* and changes nothing.                                                    *)
(***************************************************************************)
EXTENDS WaitQueue, Integers, SequencesExt

CONSTANTS
    Pages,        \* the ids of the pages
    Activities,   \* the ids of the activities
    Offsets,      \* the offsets of futexes in a page
    Counts,       \* pairs <<val1, val2>> passed to the futex call
    Calls,        \* the calls that are made, a subset of AllCalls
    NDEBUG        \* whether assertions and the debug list are left out

AllCalls == {"wake", "wake_op", "requeue", "destroyed", "info", "alloc",
             "abort_ipc", "discard"}

ASSUME KernelWaitAssumption ==
    /\ IsFiniteSet(Threads)
    /\ Pages \cup Activities \subseteq Oids \ Threads
    /\ Counts \subseteq Nat \X Nat
    /\ Calls \subseteq AllCalls
    /\ NDEBUG \in BOOLEAN

VARIABLES
    reason,       \* wait_reason of each thread
    arg,          \* wait_reason_arg of each thread: flags, or the set of one offset
    waiters,      \* the debug list futex_waiters, oldest first
    alive,        \* the objects whose folio type is not void
    discarded,    \* the pages whose folio discarded flag is set
    running,      \* the threads that run in user mode
    blocked,      \* the threads that wait for a reply
    failed        \* the assertion that stopped the kernel, or "no"

vars == <<wq, queue, reason, arg, waiters, alive, discarded, running, blocked, failed>>

Events == {"stats", "pressure"}
Reasons == {"none", "futex", "destroy", "info"}

KernelInit ==
    /\ Init
    /\ reason = [t \in Threads |-> "none"]
    /\ arg = [t \in Threads |-> {}]
    /\ waiters = <<>>
    /\ alive = Oids
    /\ discarded = {}
    /\ running = Threads
    /\ blocked = {}
    /\ failed = "no"

(***************************************************************************)
(* The part of the state a handler changes step by step.                   *)
(***************************************************************************)
Now == [w |-> wq, q |-> queue, arg |-> arg, waiters |-> waiters,
        running |-> running, blocked |-> blocked, failed |-> failed]

Becomes(s) ==
    /\ wq' = s.w /\ queue' = s.q /\ arg' = s.arg /\ waiters' = s.waiters
    /\ running' = s.running /\ blocked' = s.blocked /\ failed' = s.failed

\* list_unlink and, in the history, the removal from a queue.
Unlink(list, t) ==
    IF t \notin ToSet(list) THEN list
    ELSE Without(list, CHOOSE k \in DOMAIN list : list[k] = t)

\* To dequeue the tail or the head the object is looked up, and in debug builds
\* object_wait_queue_check does so for every waiter.  object_find does not
\* return discarded pages.
ObjectMissing(w, t) ==
    /\ w.tail[t] \/ w.head[t] \/ ~NDEBUG
    /\ \E o \in discarded : t \in ToSet(Walk(w, o))

\* object_wait_queue_dequeue.
Detach(s, t) ==
    IF s.failed # "no" THEN s
    ELSE IF ObjectMissing(s.w, t) THEN [s EXCEPT !.failed = "object"]
    ELSE IF ~NDEBUG /\ reason[t] = "futex" /\ t \notin ToSet(s.waiters)
         THEN [s EXCEPT !.failed = "unlink"]
    ELSE [s EXCEPT !.w = DequeueWaiter(@, t),
                   !.q = [o \in Oids |-> Unlink(@[o], t)],
                   !.waiters = IF reason[t] = "futex" THEN Unlink(@, t) ELSE @]

\* object_wait_queue_enqueue; None is the null pointer.
Attach(s, o, t) ==
    IF s.failed # "no" THEN s
    ELSE IF s.w.p[t] THEN [s EXCEPT !.failed = "queued"]
    ELSE IF o = None THEN [s EXCEPT !.failed = "null"]
    ELSE [s EXCEPT !.w = EnqueueWaiter(@, o, t), !.q[o] = <<t>> \o @]

\* The reply that lets a blocked thread go on.
Reply(s, t) ==
    IF s.failed # "no" \/ t \notin s.blocked THEN s
    ELSE [s EXCEPT !.blocked = @ \ {t}, !.running = @ \cup {t}]

\* wake: a futex waiter that does not wait for a reply makes the reply fail.
FutexReply(s, t) ==
    IF s.failed = "no" /\ t \notin s.blocked THEN [s EXCEPT !.failed = "reply"]
    ELSE Reply(s, t)

\* The caller blocks on o: the handler does not reply.
Block(t, o, why, a) ==
    LET s == Attach(Now, o, t)
    IN  /\ Becomes(IF s.failed # "no" THEN s
                   ELSE [s EXCEPT !.arg[t] = a,
                                  !.running = @ \ {t}, !.blocked = @ \cup {t},
                                  !.waiters = IF why = "futex" /\ ~NDEBUG THEN Append(@, t)
                                              ELSE @])
        /\ reason' = [reason EXCEPT ![t] = why]
        /\ UNCHANGED <<alive, discarded>>

\* Those of the list who are chosen are dequeued and replied to in turn.
WakeEach(s, list, chosen) ==
    LET at[i \in 0..Len(list)] ==
            IF i = 0 THEN s
            ELSE IF list[i] \in chosen THEN Reply(Detach(at[i - 1], list[i]), list[i])
            ELSE at[i - 1]
    IN  at[Len(list)]

\* A handler that replies to the caller and wakes others.
Wakes(s) == Becomes(s) /\ UNCHANGED <<reason, alive, discarded>>

-----------------------------------------------------------------------------
\* Mutant: one waiter too many is moved.
WakeOne_MovesMore(a, t, toWake, offset1, o2, offset2) ==
    IF a.stop \/ reason[t] # "futex" \/ a.s.arg[t] # {offset1} THEN a
    ELSE IF a.count < toWake
         THEN LET s == FutexReply(Detach(a.s, t), t)
              IN  [s |-> s, count |-> a.count + 1, requeue |-> a.requeue,
                   stop |-> a.count + 1 = toWake /\ a.requeue = 0]
         ELSE LET d == Detach(a.s, t)
                  s == Attach([d EXCEPT !.arg[t] = {offset2}], o2, t)
              IN  [s |-> s, count |-> a.count + 1, requeue |-> a.requeue - 1,
                   stop |-> a.requeue = 0]

(***************************************************************************)
(* wake, the helper of the futex call: one visited waiter.  a.s is the     *)
(* state, a.count the number of waiters handled, a.requeue the decreasing  *)
(* to_requeue, a.stop whether the loop was left.                           *)
(***************************************************************************)
WakeOne(a, t, toWake, offset1, o2, offset2) ==
    IF a.stop \/ reason[t] # "futex" \/ a.s.arg[t] # {offset1} THEN a
    ELSE IF a.count < toWake
         THEN LET s == FutexReply(Detach(a.s, t), t)
              IN  [s |-> s, count |-> a.count + 1, requeue |-> a.requeue,
                   stop |-> \/ s.failed # "no"
                            \/ a.count + 1 = toWake /\ a.requeue = 0]
         ELSE LET d == Detach(a.s, t)
                  s == Attach([d EXCEPT !.arg[t] = {offset2}], o2, t)
              IN  [s |-> s, count |-> a.count + 1, requeue |-> a.requeue - 1,
                   stop |-> s.failed # "no" \/ a.requeue - 1 = 0]

Wake(s, toWake, o1, offset1, toRequeue, o2, offset2) ==
    LET list == Walk(s.w, o1)
        at[i \in 0..Len(list)] ==
            IF i = 0 THEN [s |-> s, count |-> 0, requeue |-> toRequeue, stop |-> s.failed # "no"]
            ELSE WakeOne(at[i - 1], list[i], toWake, offset1, o2, offset2)
    IN  at[Len(list)].s

MayCall(t) == failed = "no" /\ t \in running

\* OBJECT (...): the page is found in the caller's address space.
Found(o) == o \in alive \ discarded

FutexWait(t, o, offset) ==
    MayCall(t) /\ Found(o) /\ Block(t, o, "futex", {offset})

FutexWake(t, o, offset, n) ==
    MayCall(t) /\ Found(o) /\ n > 0 /\ Wakes(Wake(Now, n, o, offset, 0, None, None))

\* The comparison of the old value of the second word is a free choice.
FutexWakeOp(t, o1, offset1, o2, offset2, n) ==
    /\ MayCall(t) /\ Found(o1) /\ Found(o2)
    /\ LET s == Wake(Now, 1, o1, offset1, 0, None, None)
       IN  Wakes(s) \/ Wakes(Wake(s, n, o2, offset2, 0, None, None))

FutexCmpRequeue(t, o1, offset1, n1, o2, offset2, n2) ==
    /\ MayCall(t) /\ Found(o1) /\ Found(o2)
    /\ Wakes(Wake(Now, n1, o1, offset1, n2, o2, offset2))

ThreadWaitObjectDestroyed(t, o) ==
    MayCall(t) /\ Found(o) /\ Block(t, o, "destroy", arg[t])

ActivityInfo(t, a, flags) ==
    MayCall(t) /\ Found(a) /\ flags # {} /\ Block(t, a, "info", flags)

\* The pager and the ager wake those who asked for the event.  Whether the
\* period a waiter asked for has come is a free choice.
Notify(a, event) ==
    LET list == Walk(wq, a)
        asked == {t \in ToSet(list) : reason[t] = "info" /\ event \in arg[t]}
    IN  /\ failed = "no" /\ a \in alive
        /\ \E late \in SUBSET IF event = "stats" THEN asked ELSE {} :
              asked # late /\ Wakes(WakeEach(Now, list, asked \ late))

-----------------------------------------------------------------------------
\* Mutant: a thread is destroyed while it is on a queue.
ThreadDeinit_StaysQueued(s, o) == s

\* thread_deinit takes a waiting thread off its queue.
ThreadDeinit(s, o) == IF o \in Threads /\ s.w.p[o] THEN Detach(s, o) ELSE s

\* Mutant: only those who wait for the destruction are woken.
WakeAll_DestroyOnly(s, o) ==
    WakeEach(s, Walk(s.w, o), {t \in Threads : reason[t] = "destroy"})

\* folio_object_alloc: all who wait for the object are woken, whatever they
\* wait for.
WakeAll(s, o) == WakeEach(s, Walk(s.w, o), Threads)

\* The contents of the object are cleared.  A new thread does not run.
Clear(s, o) ==
    IF o \notin Threads \/ s.failed # "no" THEN s
    ELSE [s EXCEPT !.w = [@ EXCEPT !.head[o] = FALSE, !.tail[o] = FALSE,
                                   !.next[o] = None, !.prev[o] = None],
                   !.arg[o] = {},
                   !.running = @ \ {o}, !.blocked = @ \ {o}]

\* folio_object_alloc, with the type void (live is FALSE) or another.
FolioObjectAlloc(t, o, live) ==
    /\ MayCall(t)
    /\ Becomes(Clear(WakeAll(ThreadDeinit(Now, o), o), o))
    /\ reason' = IF o \in Threads /\ failed' = "no" THEN [reason EXCEPT ![o] = "none"] ELSE reason
    /\ alive' = IF failed' # "no" THEN alive ELSE IF live THEN alive \cup {o} ELSE alive \ {o}
    /\ discarded' = IF failed' # "no" THEN discarded ELSE discarded \ {o}

\* thread_exregs starts a new thread ...
Start(t, u) ==
    /\ MayCall(t) /\ u \in alive \ (running \cup blocked)
    /\ running' = running \cup {u}
    /\ UNCHANGED <<wq, queue, reason, arg, waiters, alive, discarded, blocked, failed>>

\* ... or, with HURD_EXREGS_ABORT_IPC, makes a blocked one run again.
AbortIPC(t, u) ==
    /\ MayCall(t) /\ u \in blocked
    /\ running' = running \cup {u} /\ blocked' = blocked \ {u}
    /\ UNCHANGED <<wq, queue, reason, arg, waiters, alive, discarded, failed>>

\* memory_frame_allocate takes the frame of a dirty discardable page ...
Discard(o) ==
    /\ failed = "no" /\ Found(o)
    /\ discarded' = discarded \cup {o}
    /\ UNCHANGED <<wq, queue, reason, arg, waiters, alive, running, blocked, failed>>

\* ... and object_discarded_clear makes it usable again.
DiscardedClear(t, o) ==
    /\ MayCall(t) /\ o \in discarded
    /\ discarded' = discarded \ {o}
    /\ UNCHANGED <<wq, queue, reason, arg, waiters, alive, running, blocked, failed>>

\* server_loop got no message for five seconds: all futex waiters get EDEADLK.
DeadlockTimeout ==
    /\ failed = "no" /\ ~NDEBUG /\ waiters # <<>>
    /\ Wakes(WakeEach(Now, waiters, Threads))

KernelNext ==
    \/ DeadlockTimeout
    \/ \E a \in Activities, e \in Events : Notify(a, e)
    \/ "discard" \in Calls /\ \E o \in Pages : Discard(o)
    \/ \E t \in Threads :
          \/ \E o \in Pages, f \in Offsets : FutexWait(t, o, f)
          \/ \E o \in Pages, f \in Offsets, n \in Counts :
                "wake" \in Calls /\ FutexWake(t, o, f, n[1])
          \/ \E o1, o2 \in Pages, f1, f2 \in Offsets, n \in Counts :
                \/ "wake_op" \in Calls /\ FutexWakeOp(t, o1, f1, o2, f2, n[2])
                \/ "requeue" \in Calls /\ FutexCmpRequeue(t, o1, f1, n[1], o2, f2, n[2])
          \/ \E o \in Oids :
                \/ "destroyed" \in Calls /\ ThreadWaitObjectDestroyed(t, o)
                \/ "alloc" \in Calls /\ \E live \in BOOLEAN : FolioObjectAlloc(t, o, live)
          \/ \E a \in Activities, flags \in SUBSET Events :
                "info" \in Calls /\ ActivityInfo(t, a, flags)
          \/ \E u \in Threads : Start(t, u) \/ ("abort_ipc" \in Calls /\ AbortIPC(t, u))
          \/ \E o \in Pages : DiscardedClear(t, o)

KernelSpec == KernelInit /\ [][KernelNext]_vars
-----------------------------------------------------------------------------
Queued == UNION {ToSet(queue[o]) : o \in Oids}

(***************************************************************************)
(* Until an assertion stops the kernel, a thread that waits for a reply is *)
(* on a queue, of an object that exists: no one sleeps where no event can  *)
(* wake it.  And no queue holds a thread that was destroyed.  (A thread    *)
(* that runs may be on a queue: AbortIPC leaves it there.)                 *)
(***************************************************************************)
BlockedIsQueued ==
    failed = "no" => /\ blocked \subseteq Queued /\ Queued \subseteq alive
                     /\ \A o \in Oids \ alive : queue[o] = <<>>
                     /\ running \cap blocked = {}

(***************************************************************************)
(* While nobody aborts calls, the threads on the queues are exactly those  *)
(* that wait for a reply: whoever is taken off a queue is replied to, also *)
(* when several threads, pages and reasons to wait are destroyed at once.  *)
(* No assertion of object_wait_queue_enqueue, object_wait_queue_dequeue or *)
(* list_unlink fails, and no reply goes to a thread that does not wait.    *)
(***************************************************************************)
BlockedIffQueued == failed = "no" /\ BlockedIsQueued /\ Queued = blocked

(***************************************************************************)
(* In debug builds futex_waiters lists exactly the threads that are queued *)
(* for a futex, so that the dead-lock timeout of server_loop reaches all   *)
(* of them and no other.                                                   *)
(***************************************************************************)
FutexWaitersComplete ==
    ~NDEBUG /\ failed = "no" =>
        /\ ToSet(waiters) = {t \in Queued : reason[t] = "futex"}
        /\ Len(waiters) = Cardinality(ToSet(waiters))

\* x waits before y in the queue.
Before(q, x, y) == \E i, j \in DOMAIN q : i < j /\ q[i] = x /\ q[j] = y

\* Those of the waiters for the futex at offset f of o who have at least m and
\* fewer than n of the others before them in the queue.
FutexWaiters(o, f, m, n) ==
    LET all == {t \in ToSet(queue[o]) : reason[t] = "futex" /\ arg[t] = {f}}
        rank(t) == Cardinality({u \in all : Before(queue[o], u, t)})
    IN  {t \in all : m <= rank(t) /\ rank(t) < n}

\* In state s the threads of woken were replied to and those of moved were put,
\* one by one, at the front of the queue of o2, to wait for offset f2.  Everyone
\* else is where he was.
WokenAndMoved(s, woken, moved, o1, o2, f2) ==
    LET left(o) == ToSet(queue[o]) \ (woken \cup moved)
    IN  /\ s.blocked = blocked \ woken
        /\ s.arg = [t \in Threads |-> IF t \in moved THEN {f2} ELSE arg[t]]
        /\ \A o \in Oids : ToSet(s.q[o]) = left(o) \cup (IF o = o2 THEN moved ELSE {})
        /\ \A o \in Oids, x, y \in Threads :
              Before(s.q[o], x, y) <=>
                  \/ {x, y} \subseteq left(o) /\ Before(queue[o], x, y)
                  \/ o = o2 /\ x \in moved /\ y \in left(o)
                  \/ o = o2 /\ {x, y} \subseteq moved /\ Before(queue[o1], y, x)

(***************************************************************************)
(* What the comments on FUTEX_WAKE and FUTEX_CMP_REQUEUE promise of a call *)
(* that leads to state s: the n1 waiters queued last are woken, the next   *)
(* n2 are moved to the second futex, everyone else stays where he is.      *)
(***************************************************************************)
WokenAndRequeued(s, o1, f1, n1, o2, f2, n2) ==
    WokenAndMoved(s, FutexWaiters(o1, f1, 0, n1), FutexWaiters(o1, f1, n1, n1 + n2), o1, o2, f2)

\* In every state, FUTEX_CMP_REQUEUE with any arguments would do that, also
\* when both futexes are in one page or are the same.
RequeueExact ==
    \A o1, o2 \in Pages, f1, f2 \in Offsets, n \in Counts :
        WokenAndRequeued(Wake(Now, n[1], o1, f1, n[2], o2, f2), o1, f1, n[1], o2, f2, n[2])

\* So would FUTEX_WAKE, which moves no one.
WakeExact ==
    \A o \in Pages, f \in Offsets, n \in Counts :
        n[1] > 0 => WokenAndRequeued(Wake(Now, n[1], o, f, 0, None, None),
                                     o, f, n[1], None, None, 0)

\* What the futex calls promise, in every state that the other calls lead to.
FutexExact == WakeExact /\ RequeueExact

\* Every waiter can be reached: by the event it waits for, and, if it waits for
\* a futex, by the dead-lock timeout.
WaitersReachable == BlockedIsQueued /\ FutexWaitersComplete
=============================================================================
