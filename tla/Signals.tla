------------------------------- MODULE Signals -------------------------------
(***************************************************************************)
(* Signals between the threads of a program (libpthread/signal and         *)
(* sysdeps/viengoos).  Every thread has a signal state with a lock: what   *)
(* is pending, what is blocked, and the actions.  Who sends a signal that  *)
(* is not blocked locks the state of the receiver, and, in a step of its   *)
(* own, stops it wherever it is and makes it run signal_dispatch, which    *)
(* owns the lock then and runs the handlers.  frames[t] are the dispatches *)
(* on the stack of t, the innermost first.  Whatever else is done with the *)
(* lock held is one step.                                                  *)
(*                                                                         *)
(* The sigwaiter of a thread is on its stack: it is always the same place, *)
(* and dead (Dead) while the thread is not in sigwaitinfo.  Both builds    *)
(* are modelled, with assertions and without.                              *)
(*                                                                         *)
(* ref[t] is the mask that t has set outside of handlers.  Alternate       *)
(* stacks are not modelled; process_pending is always empty, because       *)
(* nothing adds to it; a thread that waits for its own lock is not queued. *)
(***************************************************************************)
EXTENDS LibState

CONSTANTS
    SigThreads,
    Sigs,           \* the signals, numbers; lower ones are delivered first
    StopSigs,       \* those whose default action is to stop the process
    ContSig,        \* SIGCONT
    IgnoredSigs,    \* those that are ignored by default
    NoDefer,        \* those whose handler does not block the signal
    ResetHand,      \* those whose action is reset when it is taken
    SaMask,         \* what the handlers block
    MaxSigCalls,    \* bound: the calls of the threads
    MaxFrames,      \* bound: dispatches on a stack
    Nobody          \* NULL

ASSUME SigsAssumption ==
    /\ Sigs \subseteq Nat \ {0}
    /\ SaMask \subseteq Sigs
    /\ Nobody \notin SigThreads

SigKind == "signals"
NoSignal == 0
Actions == {"dfl", "ign", "handler"}

\* What a thread has begun and has yet to finish: a call of raise, or the
\* delivery of a signal, with its place on the stack.
RaiseAt(s, depth) == [signo |-> s, depth |-> depth]
NoRaise == RaiseAt(NoSignal, 0)

\* The program has installed handlers.  stopped: the process exited, panicked
\* or hangs, an assertion failed, or a dead sigwaiter was used.  sent is the
\* signal that the owner of the lock, another thread, is about to deliver.
SigInit ==
    /\ lib = [kind |-> SigKind, calls |-> 0, stopped |-> FALSE,
              sigwaiters |-> [head |-> Nobody, next |-> [t \in SigThreads |-> Nobody],
                              prev |-> [t \in SigThreads |-> Nobody]],
              ss |-> [t \in SigThreads |-> [lock |-> Nobody, pending |-> {}, blocked |-> {},
                                            actions |-> [s \in Sigs |-> "handler"],
                                            set |-> {}, info |-> NoSignal, sent |-> NoRaise]],
              pc |-> [t \in SigThreads |-> "run"],
              raise |-> [t \in SigThreads |-> NoRaise],
              frames |-> [t \in SigThreads |-> <<>>]]
    /\ ref = [t \in SigThreads |-> {}]

\* A thread calls from its own code or from a handler, which is the innermost
\* dispatch, and not in the middle of another call.
InHandler(t) == lib.frames[t] # <<>>
Idle(t) ==
    /\ InHandler(t) => Head(lib.frames[t]).at = "handler"
    /\ lib.raise[t] # NoRaise => lib.raise[t].depth < Len(lib.frames[t])
    /\ \A u \in SigThreads \ {t} : lib.ss[u].lock = t => lib.ss[u].sent.depth < Len(lib.frames[t])
MayCall(t) ==
    /\ lib.calls < MaxSigCalls
    /\ InHandler(t) \/ lib.pc[t] = "run"
    /\ Idle(t)

Calls(L) == [L EXCEPT !.calls = @ + 1]
Ignores(u, s) ==
    \/ lib.ss[u].actions[s] = "ign"
    \/ lib.ss[u].actions[s] = "dfl" /\ s \in IgnoredSigs

\* signal_dispatch comes to the lock of u's state with a signal.
DispatchFrame(s) == [signo |-> s, at |-> "dispatch", orig |-> {}]

Dispatched(L, u, s) ==
    [L EXCEPT !.ss[u] = [L.ss[u] EXCEPT !.lock = u, !.sent = NoRaise],
              !.frames[u] = <<DispatchFrame(s)>> \o @,
              !.pc[u] = IF @ = "sigwait" THEN "aborted" ELSE @]

\* The program is lost.
ProgramLost == [lib EXCEPT !.stopped = TRUE]

\* The list of those in sigwaitinfo.  The assertion of sigwaiter_block: the
\* head has no predecessor.
Dead(v) == v # Nobody /\ lib.pc[v] = "run"
WaiterOn(w, t) ==
    [head |-> t,
     next |-> [w.next EXCEPT ![t] = w.head],
     prev |-> [v \in SigThreads |-> IF v = t THEN Nobody ELSE IF v = w.head THEN t ELSE w.prev[v]]]
WaiterOff(w, u) ==
    [head |-> IF w.prev[u] = Nobody THEN w.next[u] ELSE w.head,
     next |-> [v \in SigThreads |-> IF v = w.prev[u] THEN w.next[u] ELSE w.next[v]],
     prev |-> [v \in SigThreads |-> IF v = w.next[u] THEN w.prev[u] ELSE w.prev[v]]]

\* sigwaiter_unblock: the waiter leaves the list with the signal.  One that has
\* left it before, and did not run yet, is unlinked again by what next and prev
\* were then: others may get lost, or come back.
Unblock(L, u, s) ==
    IF Dead(L.sigwaiters.next[u]) \/ Dead(L.sigwaiters.prev[u]) THEN ProgramLost
    ELSE [L EXCEPT !.ss[u] = [L.ss[u] EXCEPT !.info = s, !.pending = @ \ {s}],
                   !.sigwaiters = WaiterOff(@, u)]

\* pthread_kill_siginfo_np by t: to a waiter, to nobody, to the pending signals,
\* or into a dispatch, a call when t sends it to itself.  A waiter that was
\* given a signal and did not run yet is given this one instead.
KillSiginfo(L, t, u, s) ==
    IF L.ss[u].set # {} /\ Dead(u) THEN ProgramLost
    ELSE IF s \in L.ss[u].set THEN Unblock(L, u, s)
    ELSE IF Ignores(u, s) THEN L
    ELSE IF s \in L.ss[u].blocked THEN [L EXCEPT !.ss[u].pending = @ \cup {s}]
    ELSE IF t = u THEN Dispatched(L, u, s)
    ELSE [L EXCEPT !.ss[u] = [L.ss[u] EXCEPT !.lock = t, !.sent = RaiseAt(s, Len(lib.frames[t]))]]

PthreadKill(t, u, s) ==
    /\ MayCall(t)
    /\ lib.ss[u].lock = Nobody
    /\ Len(lib.frames[u]) < MaxFrames
    /\ Becomes(KillSiginfo(Calls(lib), t, u, s), ref)

\* signal_dispatch_lowlevel: the receiver is interrupted in whatever it does.
\* If it has just taken sig_lock in a call of its own, which the sender gave
\* up before, then signal_dispatch waits for it, and all who need it wait too.
Deliver(t, u) ==
    /\ t # u /\ lib.ss[u].lock = t
    /\ lib.ss[u].sent.depth = Len(lib.frames[t])
    /\ InHandler(t) => Head(lib.frames[t]).at = "handler"
    /\ \/ Becomes(Dispatched(lib, u, lib.ss[u].sent.signo), ref)
       \/ MayCall(u) /\ Becomes(ProgramLost, ref)

\* The first waiter for s on the list, or a dead one before it.
FirstWaiter(s) ==
    LET w == lib.sigwaiters
        at[n \in Nat] == IF n = 0 THEN w.head ELSE IF at[n - 1] = Nobody THEN Nobody ELSE w.next[at[n - 1]]
    IN  at[Min({n \in 0..Cardinality(SigThreads) :
                   at[n] = Nobody \/ Dead(at[n]) \/ s \in lib.ss[at[n]].set})]

\* kill: a thread that waits for the signal gets it, or the caller.
Kill(t, s) ==
    LET u == FirstWaiter(s)
    IN  /\ MayCall(t)
        /\ \/ /\ u = Nobody
              /\ lib.ss[t].lock = Nobody
              /\ Len(lib.frames[t]) < MaxFrames
              /\ Becomes(KillSiginfo(Calls(lib), t, t, s), ref)
           \/ /\ u \in SigThreads
              /\ lib.ss[u].lock = Nobody
              /\ Becomes(IF Dead(u) THEN ProgramLost ELSE Unblock(Calls(lib), u, s), ref)

-----------------------------------------------------------------------------
\* The part of signal_dispatch up to the handler.  A stop signal and SIGCONT
\* cancel each other.  Stopping and continuing are not implemented, and the
\* latter's panic is reached by every signal whose default action returns.
Dispatch(t) ==
    LET f == Head(lib.frames[t])
        s == f.signo
        S == lib.ss[t]
        cancelled == IF s \in StopSigs THEN {ContSig} ELSE IF s = ContSig THEN StopSigs ELSE {}
        own == IF s \in NoDefer \cup ResetHand THEN {} ELSE {s}
        new == [S EXCEPT !.pending = @ \ (cancelled \cup {s}),
                         !.blocked = @ \cup SaMask \cup own,
                         !.actions[s] = IF s \in ResetHand THEN "dfl" ELSE @,
                         !.lock = Nobody]
        run == [f EXCEPT !.at = "handler", !.orig = S.blocked]
    IN  /\ InHandler(t) /\ f.at = "dispatch"
        /\ Becomes([lib EXCEPT !.ss[t] = new, !.frames[t] = <<run>> \o Tail(@),
                               !.stopped = S.actions[s] = "dfl"], ref)

\* Mutant: the mask is restored only when no other signal is to be delivered.
Restored_Late(blocked, orig, pending) == IF pending \ blocked = {} THEN orig ELSE blocked

\* The mask when a handler has returned.
Restored(blocked, orig, pending) == orig

\* The part of signal_dispatch after the handler: the mask is restored, and a
\* signal that is pending and not blocked is next.
HandlerReturns(t) ==
    LET f == Head(lib.frames[t])
        S == lib.ss[t]
        blocked == Restored(S.blocked, f.orig, S.pending)
        next == S.pending \ blocked
        L == [lib EXCEPT !.ss[t].blocked = blocked]
    IN  /\ InHandler(t) /\ Idle(t)
        /\ S.lock = Nobody
        /\ Becomes(IF next = {} THEN [L EXCEPT !.frames[t] = Tail(@)]
                   ELSE [L EXCEPT !.ss[t].lock = t,
                                  !.frames[t] = <<DispatchFrame(Min(next))>> \o Tail(@)], ref)

-----------------------------------------------------------------------------
\* __pthread_sigstate: the mask changes; a signal that can be delivered now is
\* raised, after the lock was dropped.  (Handlers that interrupt the call in
\* between do not change the mask.)
Sigmask(t, set) ==
    LET extant == lib.ss[t].pending \ set
        L == [Calls(lib) EXCEPT !.ss[t].blocked = set]
    IN  /\ MayCall(t)
        /\ lib.ss[t].lock = Nobody
        /\ lib.raise[t] = NoRaise
        /\ Becomes([L EXCEPT !.raise[t] = IF extant = {} THEN NoRaise
                                            ELSE RaiseAt(Min(extant), Len(lib.frames[t]))],
                   IF InHandler(t) THEN ref ELSE [ref EXCEPT ![t] = set])

\* The end of __pthread_sigstate, raise.
Raise(t) ==
    /\ lib.raise[t] # NoRaise /\ lib.raise[t].depth = Len(lib.frames[t])
    /\ InHandler(t) => Head(lib.frames[t]).at = "handler"
    /\ lib.ss[t].lock = Nobody
    /\ Len(lib.frames[t]) < MaxFrames
    /\ Becomes(KillSiginfo([lib EXCEPT !.raise[t] = NoRaise], t, t, lib.raise[t].signo), ref)

\* sigaction: what is ignored from now on is not pending any more.
Sigaction(t, s, a) ==
    LET ignored == a = "ign" \/ (a = "dfl" /\ s \in IgnoredSigs)
        L == [Calls(lib) EXCEPT !.ss[t].actions[s] = a]
    IN  /\ MayCall(t)
        /\ lib.ss[t].lock = Nobody
        /\ Becomes([L EXCEPT !.ss[t].pending = IF ignored THEN @ \ {s} ELSE @], ref)

\* sigwaitinfo of signals that the thread blocks: a pending one is accepted,
\* the highest first, or the thread sleeps in sigwaiter_block.
Sigwait(t, set) ==
    LET extant == lib.ss[t].pending \cap set
        w == lib.sigwaiters
    IN  /\ MayCall(t) /\ ~InHandler(t)
        /\ lib.ss[t].lock = Nobody
        /\ set # {} /\ set \subseteq lib.ss[t].blocked
        /\ Becomes(IF extant # {} THEN [Calls(lib) EXCEPT !.ss[t].pending = @ \ {Max(extant)}]
                   ELSE IF Dead(w.head) \/ (w.head # Nobody /\ w.prev[w.head] # Nobody)
                   THEN ProgramLost
                   ELSE [Calls(lib) EXCEPT !.ss[t].set = set, !.ss[t].info = NoSignal,
                                           !.pc[t] = "sigwait", !.sigwaiters = WaiterOn(@, t)], ref)

\* The waiter runs again, woken, or because a dispatch has aborted its futex
\* call: then it has no signal.  With assertions it clears ss->sigwaiter, and
\* fails if it has none.  Without, ss->sigwaiter goes on to point to its stack.
SigwaitReturns(t) ==
    /\ \/ lib.pc[t] = "sigwait" /\ lib.ss[t].info # NoSignal
       \/ lib.pc[t] = "aborted"
    /\ ~InHandler(t)
    /\ \/ /\ lib.ss[t].lock = Nobody
          /\ Becomes([lib EXCEPT !.ss[t].set = {}, !.pc[t] = "run",
                                 !.stopped = lib.ss[t].info = NoSignal], ref)
       \/ Becomes([lib EXCEPT !.pc[t] = "run"], ref)

SigNext ==
    /\ lib.kind = SigKind
    /\ ~lib.stopped
    /\ \E t \in SigThreads :
          \/ \E u \in SigThreads, s \in Sigs : PthreadKill(t, u, s)
          \/ \E u \in SigThreads : Deliver(t, u)
          \/ \E s \in Sigs : Kill(t, s)
          \/ Dispatch(t) \/ HandlerReturns(t)
          \/ \E set \in SUBSET Sigs : Sigmask(t, set)
          \/ Raise(t)
          \/ \E s \in Sigs, a \in Actions : Sigaction(t, s, a)
          \/ \E set \in SUBSET Sigs : Sigwait(t, set)
          \/ SigwaitReturns(t)

SigSpec == SigInit /\ [][SigNext]_vars

-----------------------------------------------------------------------------
\* However signals, masks and handlers interrupt one another: a signal that is
\* blocked is not delivered; when its handlers have returned, a thread has the
\* mask that it set itself, and a signal stays pending only while it is
\* blocked, unless the thread is about to deliver one.
SignalsHonoured ==
    lib.kind = SigKind /\ ~lib.stopped =>
        \A t \in SigThreads :
            LET S == lib.ss[t] IN
            /\ InHandler(t) /\ Head(lib.frames[t]).at = "dispatch" =>
                  S.lock = t /\ Head(lib.frames[t]).signo \notin S.blocked
            /\ ~InHandler(t) =>
                  /\ S.blocked = ref[t]
                  /\ S.pending \subseteq S.blocked \/ lib.raise[t] # NoRaise
=============================================================================
