---------------------------- MODULE ThreadControl ----------------------------
(***************************************************************************)
(* The kernel's threads and their L4 threads (viengoos/thread.c): a thread *)
(* object gets an id and an L4 thread when it is first started or stopped, *)
(* and loses both when the object is deallocated or allocated anew.  Each  *)
(* action is a message that the server handles with kernel_lock held.      *)
(*                                                                         *)
(* thr is the struct thread of each object, ids the bit array thread_ids,  *)
(* table the hash tid_to_thread, l4 the L4 threads by id.  Of the          *)
(* registers there is user_handle, which only this call changes.  ref is   *)
(* what a client knows: the register, whether it gave the thread an        *)
(* activity that still exists, and whether the thread should run.          *)
(***************************************************************************)
EXTENDS BitArray, PthreadKeys, FreeSpace

CONSTANTS
    ThreadObjs,             \* the objects that may be threads
    Handles,                \* values of user_handle, 0 among them
    NoL4                    \* an id without an L4 thread, or without a thread object

ASSUME ThreadsAssumption ==
    /\ 0 \in Handles
    /\ NoL4 \notin ThreadObjs /\ NoL4 \notin [user_handle : Handles, halted : BOOLEAN]

ThreadKind == "threads"

\* The memory of a new object is cleared.
BlankThread == [init |-> FALSE, commissioned |-> FALSE, tid |-> 0, user_handle |-> 0,
            activity |-> FALSE]
Unknown == [user_handle |-> 0, activity |-> FALSE, run |-> "no"]

ThreadInit ==
    /\ lib = [kind |-> ThreadKind, thr |-> [t \in ThreadObjs |-> BlankThread], ids |-> {},
              table |-> [i \in AllBits |-> NoL4], l4 |-> [i \in AllBits |-> NoL4]]
    /\ ref = [t \in ThreadObjs |-> Unknown]

\* thread_id_next: THREAD_IDS_MAX is 1 << 16 without parentheses, so that the
\* remainder is taken of 1 and the next id to consider is always the first.
thread_id_next == 0

\* thread_init: an id and an entry of the hash.
Identified(L, t) ==
    LET tid == bit_alloc(L.ids, thread_id_next)
    IN  [L EXCEPT !.ids = @ \cup {tid}, !.table[tid] = t,
                  !.thr[t].tid = tid, !.thr[t].init = TRUE]

\* thread_commission: the L4 thread is created.
Commissioned(L, t) ==
    LET I == IF L.thr[t].init THEN L ELSE Identified(L, t)
    IN  [I EXCEPT !.thr[t].commissioned = TRUE,
                  !.l4[I.thr[t].tid] = [user_handle |-> 0, halted |-> TRUE]]

\* thread_decommission.
Decommissioned(L, t) ==
    [L EXCEPT !.thr[t].commissioned = FALSE, !.l4[L.thr[t].tid] = NoL4]

\* thread_deinit; the wait queue is in KernelWait.
Deinitialised(L, t) ==
    LET D == IF L.thr[t].commissioned THEN Decommissioned(L, t) ELSE L
    IN  IF ~L.thr[t].init THEN L
        ELSE [D EXCEPT !.ids = @ \ {D.thr[t].tid}, !.table[D.thr[t].tid] = NoL4,
                       !.thr[t].init = FALSE]

\* folio_object_alloc of an object that is a thread, whatever it becomes.
Allocate(t) ==
    Becomes([Deinitialised(lib, t) EXCEPT !.thr[t] = BlankThread], [ref EXCEPT ![t] = Unknown])

\* The arguments of RM_thread_exregs: an activity or none, a value for the
\* register or none, and of HURD_EXREGS_START and _STOP, which has the bit of
\* _START as well, one or none.
Controls == [activity : BOOLEAN, set : BOOLEAN, user_handle : Handles,
             halt : {"keep", "start", "stop"}]

\* thread_exregs of a thread that has an L4 thread: L4 does it.
Exchange(L, t, c) ==
    LET id == L.thr[t].tid
    IN  [L EXCEPT !.l4[id] = [user_handle |-> IF c.set THEN c.user_handle ELSE @.user_handle,
                              halted |-> IF c.halt = "keep" THEN @.halted ELSE c.halt = "stop"]]

\* thread_exregs of another one: the register is kept, and what is to start or
\* to stop is commissioned if it has an activity.
ExchangeKept(L, t, c) ==
    LET K == [L EXCEPT !.thr[t].user_handle = IF c.set THEN c.user_handle ELSE @]
    IN  IF c.halt = "keep" \/ ~K.thr[t].activity THEN K
        ELSE Exchange(Commissioned(K, t), t,
                      [c EXCEPT !.set = TRUE, !.user_handle = K.thr[t].user_handle])

\* What the caller concludes.
Concluded(r, c) ==
    LET has == r.activity \/ c.activity
    IN  [user_handle |-> IF c.set THEN c.user_handle ELSE r.user_handle,
         activity |-> has,
         run |-> IF c.halt = "keep" \/ (r.run = "no" /\ ~has) THEN r.run
                 ELSE IF c.halt = "stop" THEN "halted" ELSE "running"]

\* The kernel panics when there is no id left.
ExRegs(t, c) ==
    LET L == [lib EXCEPT !.thr[t].activity = @ \/ c.activity]
    IN  /\ lib.thr[t].init \/ lib.ids # AllBits
        /\ Becomes(IF L.thr[t].commissioned THEN Exchange(L, t, c) ELSE ExchangeKept(L, t, c),
                   [ref EXCEPT ![t] = Concluded(@, c)])

\* The activity is destroyed, and the thread's capability is stale.
ActivityGone(t) ==
    /\ lib.thr[t].activity
    /\ Becomes([lib EXCEPT !.thr[t].activity = FALSE], [ref EXCEPT ![t].activity = FALSE])

ThreadNext ==
    /\ lib.kind = ThreadKind
    /\ \E t \in ThreadObjs :
          \/ Allocate(t) \/ ActivityGone(t)
          \/ \E c \in Controls : ExRegs(t, c)

\* Whoever sends the kernel a message is known: each L4 thread is that of one
\* object, which thread_lookup finds, and there are no others; the ids of
\* objects that are gone are free; and registers and state are those that the
\* client asked for last, before or after the L4 thread was there.
ThreadsKnown ==
    lib.kind = ThreadKind =>
        /\ \A i \in AllBits : lib.l4[i] # NoL4 =>
              /\ lib.table[i] # NoL4
              /\ lib.thr[lib.table[i]].tid = i /\ lib.thr[lib.table[i]].commissioned
        /\ lib.ids = {lib.thr[t].tid : t \in {u \in ThreadObjs : lib.thr[u].init}}
        /\ Cardinality(lib.ids) = Cardinality({u \in ThreadObjs : lib.thr[u].init})
        /\ \A t \in ThreadObjs :
              LET r == lib.thr[t]
              IN  IF r.commissioned
                  THEN /\ lib.l4[r.tid].user_handle = ref[t].user_handle
                       /\ ref[t].run = IF lib.l4[r.tid].halted THEN "halted" ELSE "running"
                  ELSE r.user_handle = ref[t].user_handle /\ ref[t].run = "no"
-----------------------------------------------------------------------------
(***************************************************************************)
(* The allocators of numbers, together: bits, keys, addresses and, the     *)
(* user of bits, thread ids.  A behaviour is about that of lib.kind.       *)
(***************************************************************************)
NumbersInit == BitInit \/ KeyInit \/ SpaceInit \/ ThreadInit
NumbersNext == BitNext \/ KeyNext \/ SpaceNext \/ ThreadNext
NumbersSpec == NumbersInit /\ [][NumbersNext]_vars

\* The allocators of bits, keys, addresses and thread ids give out each one
\* once until it comes back, find one when there is one, and what they gave
\* out designates what it was given out for.
NumbersAgree == BitsAgree /\ KeysAgree /\ SpaceAgrees /\ ThreadsKnown
=============================================================================
