------------------------------ MODULE Activation -----------------------------
(***************************************************************************)
(* Page faults that a program handles itself: the kernel raises an         *)
(* exception (thread_raise_exception of viengoos/thread.c), the thread     *)
(* enters activated mode (libhurd-mm/ia32-exception-entry.S), where        *)
(* exception_handler_activated handles a stack fault at once and leaves    *)
(* other faults to exception_handler_normal, which runs in normal mode and *)
(* may fault again.                                                        *)
(*                                                                         *)
(* Context 0 is the program, context n + 1 the handler that runs on top of *)
(* context n.  cpu says which context runs, where it is, and whose         *)
(* registers and message buffers (UTCB) the processor holds; the label of  *)
(* code of the exception entry is not one of a context.  ref is the        *)
(* sequence of the labels that the contexts have reached.                  *)
(***************************************************************************)
EXTENDS LibState

CONSTANT MaxContexts        \* bound: handlers on top of each other

ASSUME ContextsAssumption == MaxContexts \in Nat

ActKind == "activation"
Junk == MaxContexts + 1     \* registers or buffers that are no context's

Context(id, label) == [id |-> id, label |-> label]
EntryLabels == {"entry", "alloc", "handle", "return", "restore", "run"}
NoFrame == [at |-> Context(0, "body"), regs |-> Junk, utcb |-> Junk]

\* page is the exception page, area the registers saved on its stack, frames
\* the exception frames in use, mine the place in frames of each handler's
\* frame, pushed what a handler has put on its stack to return with.
ActInit ==
    /\ lib = [kind |-> ActKind, cpu |-> [at |-> Context(0, "body"), regs |-> 0, utcb |-> 0],
              page |-> [activated |-> FALSE, transition |-> FALSE, saved |-> Context(0, "body"),
                        stackfault |-> FALSE],
              area |-> 0, frames |-> <<>>, mine |-> [i \in 1..MaxContexts |-> 0],
              pushed |-> [i \in 1..MaxContexts |-> NoFrame], hung |-> FALSE]
    /\ ref = <<"body">>

At(label) == lib.cpu.at.label = label
Running == lib.cpu.at.label \notin EntryLabels
Enters(L, label) == [L EXCEPT !.cpu.at.label = label]

-----------------------------------------------------------------------------
\* Mutant: the kernel saves the place of the interruption in any case.
InTransition_Never(label) == FALSE

\* The instruction pointer is between exception_handler_entry and
\* exception_handler_end.
InTransition(label) == label \in EntryLabels

\* thread_raise_exception.  An exception in activated mode is not delivered,
\* and the thread does not go on.
RaiseException(stackfault) ==
    LET label == lib.cpu.at.label
        saved == IF InTransition(label) THEN lib.page.saved ELSE lib.cpu.at
        page == [activated |-> TRUE, transition |-> InTransition(label), saved |-> saved,
                 stackfault |-> stackfault]
    IN  Becomes(IF lib.page.activated THEN [lib EXCEPT !.hung = TRUE]
                ELSE Enters([lib EXCEPT !.page = page], "entry"), ref)

\* Any code of a context may fault; the return to one, on its stack.
Fault(stackfault) ==
    /\ Running \/ At("return") \/ At("restore")
    /\ Len(ref) <= MaxContexts
    /\ RaiseException(stackfault)

\* Code in activated mode faults.
FaultActivated ==
    /\ lib.page.activated
    /\ RaiseException(FALSE)

-----------------------------------------------------------------------------
\* exception_handler_entry: the registers are saved, unless the ones saved
\* have not been restored yet.
Entry ==
    /\ At("entry")
    /\ Becomes(Enters([lib EXCEPT !.area = IF lib.page.transition THEN @ ELSE lib.cpu.regs,
                                  !.cpu.regs = Junk], "alloc"), ref)

\* exception_frame_alloc and utcb_state_save.  A frame that was made before is
\* used again.  To make one, storage is allocated by messages, but
\* exception_frame_slab_alloc restores the UTCB.
AllocFrame ==
    LET frame == [NoFrame EXCEPT !.utcb = lib.cpu.utcb]
    IN  /\ At("alloc")
        /\ Becomes(Enters([lib EXCEPT !.frames = Append(@, frame), !.cpu.utcb = Junk],
                          "handle"), ref)

\* The rest of exception_handler_activated: a stack fault is handled, the UTCB
\* restored and the frame released; otherwise the frame is kept.  If map_fault
\* fails SIGSEGV is raised here, by a call: the program's handler runs in
\* activated mode then, returns to this place, and may fault (FaultActivated).
HandleActivated ==
    LET top == Last(lib.frames)
    IN  /\ At("handle")
        /\ Becomes(IF lib.page.stackfault
                   THEN Enters([lib EXCEPT !.cpu.utcb = top.utcb, !.frames = Front(@)], "return")
                   ELSE Enters(lib, "run"), ref)

\* The way back without a frame: activated mode is left first, ...
LeaveActivated ==
    /\ At("return") /\ lib.page.activated
    /\ Becomes([lib EXCEPT !.page.activated = FALSE], ref)

\* ... then the stack pointer and the registers are restored, ...
RestoreRegisters ==
    /\ At("return") /\ ~lib.page.activated
    /\ Becomes(Enters([lib EXCEPT !.cpu.regs = lib.area], "restore"), ref)

\* ... and the saved instruction pointer is popped from the stack.
ReturnToSaved ==
    /\ At("restore")
    /\ Becomes([lib EXCEPT !.cpu.at = lib.page.saved], ref)

\* exception_frame_run: all that was saved moves to the frame, and the handler
\* begins, in normal mode.
FrameRun ==
    LET n == Len(lib.frames)
        frame == [at |-> lib.page.saved, regs |-> lib.area, utcb |-> lib.frames[n].utcb]
    IN  /\ At("run")
        /\ Becomes([lib EXCEPT !.frames[n] = frame, !.page.activated = FALSE,
                               !.mine[Len(ref)] = n,
                               !.cpu = [at |-> Context(Len(ref), "body"), regs |-> Len(ref),
                                        utcb |-> Len(ref)]],
                   Append(ref, "body"))

-----------------------------------------------------------------------------
Mine == lib.mine[lib.cpu.at.id]

Moves(L, label) ==
    Becomes([L EXCEPT !.cpu.at.label = label], [ref EXCEPT ![Len(ref)] = label])

\* exception_handler_normal has handled the fault and restores the UTCB.  If
\* map_fault fails it has called pthread_kill_siginfo_np before: handlers of
\* SIGSEGV are part of the body, where they may fault, and those that do not
\* return leave the program there.
HandlerDone ==
    /\ At("body") /\ lib.cpu.at.id > 0
    /\ Moves([lib EXCEPT !.cpu.utcb = lib.frames[Mine].utcb], "push")

\* What the frame holds is pushed on the stack of the interrupted code.
PushSaved ==
    /\ At("push")
    /\ Moves([lib EXCEPT !.pushed[lib.cpu.at.id] = lib.frames[Mine]], "release")

\* The frame is released: the next one becomes the top of the stack of frames.
ReleaseFrame ==
    /\ At("release")
    /\ Moves([lib EXCEPT !.frames = SubSeq(@, 1, Mine - 1)], "pop")

\* The registers and the instruction pointer are popped.
PopSaved ==
    LET p == lib.pushed[lib.cpu.at.id]
    IN  /\ At("pop")
        /\ Becomes([lib EXCEPT !.cpu.at = p.at, !.cpu.regs = p.regs,
                               !.mine[lib.cpu.at.id] = 0, !.pushed[lib.cpu.at.id] = NoFrame],
                   Front(ref))

ActNext ==
    /\ lib.kind = ActKind
    /\ ~lib.hung
    /\ \/ \E stackfault \in BOOLEAN : Fault(stackfault)
       \/ FaultActivated
       \/ Entry \/ AllocFrame \/ HandleActivated
       \/ LeaveActivated \/ RestoreRegisters \/ ReturnToSaved \/ FrameRun
       \/ HandlerDone \/ PushSaved \/ ReleaseFrame \/ PopSaved

ActSpec == ActInit /\ [][ActNext]_vars

-----------------------------------------------------------------------------
\* Whose message buffers context i should see: its own, or, once it has
\* restored them, those of the context below.  The program keeps its own.
UtcbOf(labels, i) == Max({j \in 0..i : labels[j + 1] = "body"})

\* However faults nest and wherever they hit, also on the way back from a
\* handler: when a context runs it is the innermost one, at the place it had
\* reached, with its own registers and message buffers; and there is a frame
\* for every handler that has not released its own.
ResumesExactly ==
    lib.kind = ActKind /\ Running =>
        LET id == Len(ref) - 1 IN
        /\ lib.cpu.at = Context(id, ref[id + 1])
        /\ lib.cpu.regs = id
        /\ lib.cpu.utcb = UtcbOf(ref, id)
        /\ ~lib.page.activated
        /\ Len(lib.frames) = Cardinality({i \in 1..id : ref[i + 1] # "pop"})
=============================================================================
