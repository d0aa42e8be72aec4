---------------------------- MODULE KernelThreads ----------------------------
(***************************************************************************)
(* The two threads of the kernel around kernel_lock: server_loop takes it  *)
(* for every message (viengoos/server.c), ager_loop for every batch of     *)
(* frames, for the statistics and, in debug builds, for printing           *)
(* (viengoos/ager.c).  What they do with the lock held is left out here.   *)
(***************************************************************************)
EXTENDS KernelMutex, Naturals

CONSTANTS
    Server,    \* the thread of server_loop
    Ager,      \* the thread of ager_loop
    Frames,    \* the number of frames
    Freq,      \* FREQ, the periods between two statistics
    Debug      \* whether do_debug (1) prints

ASSUME KernelThreadsAssumption ==
    /\ Tasks = {Server, Ager} /\ Server # Ager
    /\ Frames \in Nat \ {0} /\ Freq \in Nat \ {0} /\ Debug \in BOOLEAN

VARIABLES
    phase,     \* what ager_loop locks for next, or "sleep"
    frame,     \* the next frame ager_loop looks at
    period     \* period % FREQ

agerVars == <<phase, frame, period>>

KernelInit == MutexInit /\ phase = "batch" /\ frame = 0 /\ period = 0

\* server_loop received a message and locks.
ServerLock == KLock(Server) /\ UNCHANGED agerVars

\* The top of server_loop, after a reply or a continue: unlock.
ServerUnlock == KUnlock(Server) /\ UNCHANGED agerVars

AgerLock == phase # "sleep" /\ KLock(Ager) /\ UNCHANGED agerVars

\* What follows the batches: statistics every FREQ periods.
AfterBatches == IF period = 0 THEN "stats" ELSE "sleep"

\* Mutant: an empty batch does not end the loop.
AgerBatch_NoBreak ==
    /\ phase = "batch" /\ KUnlock(Ager)
    /\ \/ \E f \in (frame + 1)..Frames :
             frame' = f /\ phase' = IF f < Frames THEN "batch" ELSE AfterBatches
       \/ UNCHANGED <<frame, phase>>
    /\ UNCHANGED period

\* A batch: grab found frames up to a later one, or none and breaks.
AgerBatch ==
    /\ phase = "batch" /\ KUnlock(Ager)
    /\ \/ \E f \in (frame + 1)..Frames :
             frame' = f /\ phase' = IF f < Frames THEN "batch" ELSE AfterBatches
       \/ frame' = Frames /\ phase' = AfterBatches
    /\ UNCHANGED period

\* update_stats, and the locked printing after it.
AgerStats ==
    /\ phase \in {"stats", "print"} /\ KUnlock(Ager)
    /\ phase' = IF phase = "stats" /\ Debug THEN "print" ELSE "sleep"
    /\ UNCHANGED <<frame, period>>

\* The timeout of l4_receive_timeout.
AgerTimeout ==
    /\ phase = "sleep" /\ kpc[Ager] = "idle"
    /\ phase' = "batch" /\ frame' = 0 /\ period' = (period + 1) % Freq
    /\ UNCHANGED mutexVars

Internal(t) == (KExchange(t) \/ Wakeup(t)) /\ UNCHANGED agerVars

ServerStep == ServerUnlock \/ Internal(Server)

AgerStep == AgerLock \/ AgerBatch \/ AgerStats \/ AgerTimeout \/ Internal(Ager)

KernelNext == ServerLock \/ ServerStep \/ AgerStep

(***************************************************************************)
(* L4 schedules both threads, and handlers end: the ager always goes on,   *)
(* the server always comes back to its loop, but nobody has to send a      *)
(* message.                                                                *)
(***************************************************************************)
KernelSpec == /\ KernelInit /\ [][KernelNext]_<<mutexVars, agerVars>>
              /\ WF_<<mutexVars, agerVars>>(ServerStep) /\ WF_<<mutexVars, agerVars>>(AgerStep)
-----------------------------------------------------------------------------
\* Who waits for the lock is sent the wake-up and tries again.
WaiterWoken == \A t \in Tasks : kpc[t] = "receive" ~> kpc[t] = "exchange"

\* If messages stop, the ager is not kept from its work: it goes to sleep
\* again and again.
AgerGoesOn == <>[][~ServerLock]_<<mutexVars, agerVars>> => []<>(phase = "sleep")

\* Nobody is stuck: neither a thread that waits for kernel_lock nor the ager.
NobodyStuck == WaiterWoken /\ AgerGoesOn
=============================================================================
