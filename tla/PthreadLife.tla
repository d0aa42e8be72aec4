----------------------------- MODULE PthreadLife -----------------------------
(***************************************************************************)
(* The life of a thread in libpthread: pthread_create, pthread_exit,       *)
(* pthread_join and pthread_detach (libpthread/pthread), and the recycling *)
(* of control blocks (struct __pthread).  A member of Threads is a control *)
(* block, and the thread that runs with it.                                *)
(*                                                                         *)
(* object: tcb[u], the control block; running, the threads that the kernel *)
(* may run; threads, the thread ID table (__pthread_threads, its size is   *)
(* __pthread_max_threads); num, __pthread_num_threads; free, the list      *)
(* __pthread_free_threads; total, __pthread_total; exited, the process has *)
(* called exit; unclaimed, the threads that may still be joined or         *)
(* detached (a program does either once); of[t], the control block that t  *)
(* works on.                                                               *)
(***************************************************************************)
EXTENDS PthreadBlock

Life == "life"

\* A control block that was never allocated.
NoTcb == [state |-> "NONE", id |-> 0, stack |-> FALSE, kernel |-> FALSE]

\* The program starts with one thread, made by the library's initialisation.
\* The table has one entry, where the code starts with
\* _POSIX_THREAD_THREADS_MAX, so that it must be enlarged.
LifeInit ==
    /\ LET main == CHOOSE t \in Threads : TRUE IN
          object = [kind |-> Life, spin |-> FALSE,
                    tcb |-> [t \in Threads |->
                                IF t = main THEN [state |-> "JOINABLE", id |-> 1,
                                                  stack |-> TRUE, kernel |-> TRUE]
                                            ELSE NoTcb],
                    running |-> {main}, threads |-> <<main>>, num |-> 1, free |-> <<>>,
                    total |-> 1, exited |-> FALSE, unclaimed |-> {main},
                    of |-> [t \in Threads |-> None]]
    /\ holds = [t \in Threads |-> 0]

\* Thread t goes from one place of the code to another.
Step(t, from, to) ==
    /\ object.kind = Life /\ ~object.exited
    /\ t \in object.running
    /\ pc[t] = from
    /\ pc' = [pc EXCEPT ![t] = to]
    /\ UNCHANGED <<call, waking, holds>>

Target(t) == object.tcb[object.of[t]]
WithTcb(u, fields) == [tcb |-> [object.tcb EXCEPT ![u] = With(@, fields)]]
WorkOn(t, u) == [of |-> [object.of EXCEPT ![t] = u]]
\* __pthread_setid.
Entry(id, u) == [threads |-> [object.threads EXCEPT ![id] = u]]
Stopped(u) == [running |-> object.running \ {u}]

\* The place of the first terminated block in the free list, 0 if there is none.
Reusable == SelectInSeq(object.free, LAMBDA u : object.tcb[u].state = "TERMINATED")

-----------------------------------------------------------------------------
\* pthread_create: __pthread_alloc takes the first terminated block off the
\* free list.
CreateRecycled(t) ==
    /\ Step(t, "run", "halt new")
    /\ Reusable # 0
    /\ object' = With(Updated(WorkOn(t, object.free[Reusable])),
                      [free |-> RemoveAt(object.free, Reusable)])

\* Mutant: the recycled thread is not stopped.
AllocHalt_Not(t) == Step(t, "halt new", "setup") /\ UNCHANGED object

\* __pthread_alloc: the recycled thread may still be on the last
\* instructions of its life.
AllocHalt(t) ==
    /\ Step(t, "halt new", "setup")
    /\ object' = IF Target(t).kernel THEN Updated(Stopped(object.of[t])) ELSE object

\* __pthread_alloc allocates a new block.
CreateNew(t) ==
    /\ Step(t, "run", "slot")
    /\ Reusable = 0
    /\ \E v \in Threads : object.tcb[v] = NoTcb
    /\ LET u == CHOOSE v \in Threads : object.tcb[v] = NoTcb IN
       object' = With(Updated(WorkOn(t, u)), WithTcb(u, [state |-> "NEW"]))

\* __pthread_alloc: a table twice as large takes the contents of the old one.
Grown ==
    [i \in 1..(2 * Len(object.threads)) |->
        IF i \in DOMAIN object.threads THEN object.threads[i] ELSE None]

\* __pthread_alloc: the next slot of the table becomes the new thread's.  The
\* larger table is allocated with the lock dropped, by as many threads as find
\* the table full; one that finds it already enlarged starts over, so only the
\* first enlargement, of the table as it then is, takes effect.
AllocSlot(t) ==
    /\ Step(t, "slot", "setup")
    /\ LET id == object.num + 1
           table == IF id <= Len(object.threads) THEN object.threads ELSE Grown
       IN  object' = With(Updated(WithTcb(object.of[t], [id |-> id])),
                          [num |-> id, threads |-> [table EXCEPT ![id] = None]])

-----------------------------------------------------------------------------
\* pthread_create: state, stack, kernel resources.  A recycled block keeps the
\* stack and the kernel resources of a detached thread.
CreateSetup(t) ==
    /\ Step(t, "setup", "count")
    /\ \E state \in {"JOINABLE", "DETACHED"} :
          object' = Updated(WithTcb(object.of[t], [state |-> state, stack |-> TRUE,
                                                   kernel |-> TRUE]))

\* pthread_create when the stack or the kernel resources cannot be had: what
\* was allocated is released, and the block goes to the free list.  No later
\* step fails: __pthread_setup and __pthread_sigstate_init of viengoos always
\* return 0, and so does __pthread_thread_start, which asserts that it can.
CreateFails(t) ==
    /\ Step(t, "setup", "withdraw")
    /\ ~Target(t).kernel
    /\ \E state \in {"JOINABLE", "DETACHED"} :
          object' = Updated(WithTcb(object.of[t], [state |-> state, stack |-> FALSE]))

\* pthread_create: __pthread_total is incremented ...
CreateCount(t) ==
    /\ Step(t, "count", "publish")
    /\ object' = Updated([total |-> object.total + 1])

\* ... the thread is entered in the table ...
CreatePublish(t) ==
    /\ Step(t, "publish", "start")
    /\ object' = Updated(Entry(Target(t).id, object.of[t]))

\* ... and started (__pthread_thread_start).
CreateStart(t) ==
    /\ object.kind = Life /\ ~object.exited
    /\ t \in object.running
    /\ pc[t] = "start"
    /\ LET u == object.of[t] IN
       /\ object' = With(Updated(WorkOn(t, None)),
                      [running |-> object.running \cup {u},
                       unclaimed |-> IF Target(t).state = "JOINABLE"
                                     THEN object.unclaimed \cup {u} ELSE object.unclaimed])
       /\ pc' = [pc EXCEPT ![t] = "run", ![u] = "run"]
    /\ UNCHANGED <<call, waking, holds>>

-----------------------------------------------------------------------------
\* pthread_exit: the last thread ends the process.
ExitCount(t) ==
    /\ Step(t, "run", "exit")
    /\ object' = Updated([total |-> object.total - 1, exited |-> object.total = 1])

\* pthread_exit of a detached thread: it puts its own block on the free list.
ExitDetached(t) ==
    /\ Step(t, "exit", "withdraw")
    /\ object.tcb[t].state = "DETACHED"
    /\ object' = Updated(WorkOn(t, t))

\* pthread_exit of a joinable thread: the threads that wait to join go on.
ExitJoinable(t) ==
    /\ Step(t, "exit", "halt")
    /\ object.tcb[t].state = "JOINABLE"
    /\ object' = Updated(WithTcb(t, [state |-> "EXITED"]))

\* pthread_exit: __pthread_thread_halt (self).
ExitHalt(t) ==
    /\ Step(t, "halt", "halted")
    /\ object' = Updated(Stopped(t))

\* __pthread_dealloc: the thread ID table,
DeallocWithdraw(t) ==
    /\ Step(t, "withdraw", "free")
    /\ object' = Updated(Entry(Target(t).id, None))

\* the free list,
DeallocFree(t) ==
    /\ Step(t, "free", "terminate")
    /\ object' = Updated([free |-> Enqueue(object.free, object.of[t])])

\* and, without a lock, the state that makes the block available.
DeallocTerminate(t) ==
    /\ Step(t, "terminate", IF object.of[t] = t THEN "halt" ELSE "run")
    /\ object' = With(Updated(WorkOn(t, None)), WithTcb(object.of[t], [state |-> "TERMINATED"]))

-----------------------------------------------------------------------------
\* pthread_join, up to its wait for the thread to exit.
Join(t) ==
    /\ Step(t, "run", "join")
    /\ \E u \in object.unclaimed \ {t} :
          object' = With(Updated(WorkOn(t, u)), [unclaimed |-> object.unclaimed \ {u}])

\* The wait is over.
JoinExited(t) ==
    /\ Step(t, "join", "halt old")
    /\ Target(t).state = "EXITED"
    /\ UNCHANGED object

\* pthread_detach of a thread that runs ...
DetachJoinable(t) ==
    /\ Step(t, "run", "run")
    /\ \E u \in object.unclaimed :
          /\ object.tcb[u].state = "JOINABLE"
          /\ object' = With(Updated(WithTcb(u, [state |-> "DETACHED"])),
                            [unclaimed |-> object.unclaimed \ {u}])

\* ... and of one that has exited.
DetachExited(t) ==
    /\ Step(t, "run", "halt old")
    /\ \E u \in object.unclaimed :
          /\ object.tcb[u].state = "EXITED"
          /\ object' = With(Updated(WorkOn(t, u)), [unclaimed |-> object.unclaimed \ {u}])

\* pthread_join and pthread_detach: the thread is stopped before its stack
\* goes ...
ReapHalt(t) ==
    /\ Step(t, "halt old", "reap")
    /\ object' = Updated(Stopped(object.of[t]))

\* ... with the kernel resources.
ReapDealloc(t) ==
    /\ Step(t, "reap", "withdraw")
    /\ object' = Updated(WithTcb(object.of[t], [stack |-> FALSE, kernel |-> FALSE]))

CreateSteps(t) ==
    \/ AllocHalt(t) \/ AllocSlot(t)
    \/ CreateSetup(t) \/ CreateFails(t) \/ CreateCount(t) \/ CreatePublish(t) \/ CreateStart(t)

ExitSteps(t) ==
    \/ ExitDetached(t) \/ ExitJoinable(t) \/ ExitHalt(t)
    \/ DeallocWithdraw(t) \/ DeallocFree(t) \/ DeallocTerminate(t)

ReapSteps(t) == JoinExited(t) \/ ReapHalt(t) \/ ReapDealloc(t)

LifeNext ==
    \E t \in Threads :
        \/ CreateRecycled(t) \/ CreateNew(t) \/ ExitCount(t)
        \/ Join(t) \/ DetachJoinable(t) \/ DetachExited(t)
        \/ CreateSteps(t) \/ ExitSteps(t) \/ ReapSteps(t)

-----------------------------------------------------------------------------
\* The thread works on another block, which it sets up or takes apart.
Working(t) == t \in object.running /\ pc[t] \notin {"run", "exit", "halt", "halted", "join"}

\* u has been counted in __pthread_total and has not left it.
Counted(u) ==
    \/ u \in object.running /\ pc[u] \notin {"exit", "halt"} /\ ~(Working(u) /\ object.of[u] = u)
    \/ \E t \in object.running : pc[t] \in {"publish", "start"} /\ object.of[t] = u

\* __pthread_total is the number of threads that have been created and have
\* not begun to exit, so the process exits exactly with its last thread.
CountedOnce ==
    object.kind = Life =>
        /\ ~object.exited => object.total = Cardinality({u \in Threads : Counted(u)})
        /\ object.exited => object.total = 0

\* Stacks, kernel threads, IDs and control blocks are never in use twice: a
\* thread that runs has its stack and its kernel resources; a block that is
\* being set up, or freed by another thread, has no thread running on it; one
\* thread at a time works on a block; a block is at most once on the free
\* list, and then not in the table; the IDs are distinct and the table finds
\* every thread that has not been withdrawn.
ResourcesOwned ==
    object.kind = Life =>
        /\ \A u \in object.running : object.tcb[u].stack /\ object.tcb[u].kernel
        /\ \A t \in Threads :
              Working(t) /\ object.of[t] # t
              /\ pc[t] \in {"setup", "count", "publish", "start", "reap", "withdraw", "free", "terminate"}
                 => object.of[t] \notin object.running
        /\ \A t, v \in Threads : Working(t) /\ Working(v) /\ object.of[t] = object.of[v] => t = v
        /\ IsInjective(object.free)
        /\ \A u \in ToSet(object.free) : u \notin ToSet(object.threads)
        /\ \A u, v \in Threads : object.tcb[u].id = object.tcb[v].id /\ u # v => object.tcb[u].id = 0
        /\ \A u \in object.running :
              pc[u] \notin {"halt", "free", "terminate"} => object.threads[object.tcb[u].id] = u

\* A thread that joins one which exits returns (or ends with the process).
JoinReturns ==
    \A t \in Threads :
        (object.kind = Life /\ pc[t] = "join" /\ pc[object.of[t]] = "exit")
            ~> (object.kind = Life /\ (pc[t] = "run" \/ object.exited))
=============================================================================
