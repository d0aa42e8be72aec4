---------------------------- MODULE LibraryProofs ----------------------------
(***************************************************************************)
(* Theorems about the libraries, for every value of the constants.         *)
(***************************************************************************)
EXTENDS Signals, Activation, Storage, Slab, ThreadControl, CapAlloc,
        FiniteSetTheorems, SequenceTheorems, WellFoundedInduction, TLAPS

LEMMA Smallest ==
  ASSUME NEW S \in SUBSET Nat, S # {}
  PROVE  Min(S) \in S
<1>1. PICK x \in S : \A y \in S : ~(<<y, x>> \in OpToRel(<, Nat))
  BY NatLessThanWellFounded, WFMin, Zenon
<1>2. ASSUME NEW y \in S PROVE x <= y
  <2>1. x \in Nat /\ y \in Nat
    OBVIOUS
  <2>2. y < x => <<y, x>> \in OpToRel(<, Nat)
    BY <2>1 DEF OpToRel
  <2>3. ~(y < x)
    BY <1>1, <2>2, Zenon
  <2> QED BY <2>1, <2>3
<1> QED BY <1>2 DEF Min

LEMMA Least ==
  ASSUME NEW S \in SUBSET Nat, S # {}
  PROVE  Min(S) \in S /\ \A y \in S : Min(S) <= y
<1>1. PICK x \in S : \A y \in S : ~(<<y, x>> \in OpToRel(<, Nat))
  BY NatLessThanWellFounded, WFMin, Zenon
<1>2. ASSUME NEW y \in S PROVE x <= y
  <2>1. x \in Nat /\ y \in Nat
    OBVIOUS
  <2>2. y < x => <<y, x>> \in OpToRel(<, Nat)
    BY <2>1 DEF OpToRel
  <2>3. ~(y < x)
    BY <1>1, <2>2, Zenon
  <2> QED BY <2>1, <2>3
<1> QED BY <1>2 DEF Min

-----------------------------------------------------------------------------
(***************************************************************************)
(* Signals.                                                                *)
(***************************************************************************)
SigRaises == [signo : Nat, depth : Nat]
SigStates ==
    [lock : SigThreads \cup {Nobody}, pending : SUBSET Sigs, blocked : SUBSET Sigs,
     actions : [Sigs -> Actions], set : SUBSET Sigs, info : Nat, sent : SigRaises]
SigLinks == [SigThreads -> SigThreads \cup {Nobody}]
SigLists == [head : SigThreads \cup {Nobody}, next : SigLinks, prev : SigLinks]
SigFrames == [signo : Sigs, at : {"dispatch", "handler"}, orig : SUBSET Sigs]
SigPlaces == {"run", "sigwait", "aborted"}

SigLib ==
    [kind : {SigKind}, calls : Nat, stopped : BOOLEAN, sigwaiters : SigLists,
     ss : [SigThreads -> SigStates], pc : [SigThreads -> SigPlaces],
     raise : [SigThreads -> SigRaises], frames : [SigThreads -> Seq(SigFrames)]]

SigTypeOK == lib \in SigLib /\ ref \in [SigThreads -> SUBSET Sigs]

IgnoredBy(S, s) == S.actions[s] = "ign" \/ (S.actions[s] = "dfl" /\ s \in IgnoredSigs)

\* The dispatches on a stack: only the innermost may be on its way to the
\* handler, it owns the lock then; the outermost has, or will have, the mask
\* of the thread to restore.  What is about to be delivered is not blocked.
FramesOK(t, S, fs, m) ==
    /\ S.lock = t <=> fs # <<>> /\ fs[1].at = "dispatch"
    /\ S.lock \notin {t, Nobody} => S.sent.signo \in Sigs \ S.blocked
    /\ \A i \in 2..Len(fs) : fs[i].at = "handler"
    /\ fs # <<>> /\ fs[Len(fs)].at = "handler" => fs[Len(fs)].orig = m
    /\ fs # <<>> /\ fs[Len(fs)].at = "dispatch" => S.blocked = m
    /\ fs = <<>> => S.blocked = m
    /\ fs # <<>> /\ fs[1].at = "dispatch" => fs[1].signo \notin S.blocked

\* A call of raise is made where the mask was changed.
RaiseOK(p, r, fs) ==
    r # NoRaise => r.signo \in Sigs /\ r.depth <= Len(fs) /\ (r.depth = 0 => p = "run")

\* What is pending and can be delivered is about to be.
PendingOK(S, r, fs) ==
    /\ \A s \in S.pending : ~IgnoredBy(S, s)
    /\ fs = <<>> => \/ S.pending \subseteq S.blocked
                    \/ r # NoRaise /\ r.signo \in S.pending \ S.blocked

ThreadOK(t, S, p, r, fs, m) == FramesOK(t, S, fs, m) /\ RaiseOK(p, r, fs) /\ PendingOK(S, r, fs)

SigInv ==
    /\ SigTypeOK
    /\ \A t \in SigThreads :
          ThreadOK(t, lib.ss[t], lib.pc[t], lib.raise[t], lib.frames[t], ref[t])

\* A step changes what belongs to one thread.
LibIs(L, c, stop, w, ss, pc, raise, frames) ==
    L \in [kind : {SigKind}, calls : {c}, stopped : {stop}, sigwaiters : {w}, ss : {ss}, pc : {pc},
           raise : {raise}, frames : {frames}]

LibWith(L, c, stop, w, u, S, p, r, fs) ==
    LibIs(L, c, stop, w, [lib.ss EXCEPT ![u] = S], [lib.pc EXCEPT ![u] = p],
          [lib.raise EXCEPT ![u] = r], [lib.frames EXCEPT ![u] = fs])

\* The values of a thread and of what is shared have their types.
Typed(c, stop, w, S, p, r, fs, m) ==
    /\ c \in Nat /\ stop \in BOOLEAN /\ w \in SigLists
    /\ S \in SigStates /\ p \in SigPlaces /\ r \in SigRaises /\ fs \in Seq(SigFrames)
    /\ m \in SUBSET Sigs

LEMMA OneThread ==
  ASSUME SigInv, NEW u \in SigThreads, NEW S, NEW p, NEW r, NEW fs, NEW m, NEW c, NEW w, NEW stop,
         Typed(c, stop, w, S, p, r, fs, m),
         LibWith(lib', c, stop, w, u, S, p, r, fs),
         ref' = [ref EXCEPT ![u] = m],
         ThreadOK(u, S, p, r, fs, m)
  PROVE  SigInv'
<1>2. /\ lib'.ss = [lib.ss EXCEPT ![u] = S] /\ lib'.pc = [lib.pc EXCEPT ![u] = p]
      /\ lib'.raise = [lib.raise EXCEPT ![u] = r] /\ lib'.frames = [lib.frames EXCEPT ![u] = fs]
  BY DEF LibWith, LibIs
<1>1. SigTypeOK'
  <2>1. /\ [lib.ss EXCEPT ![u] = S] \in [SigThreads -> SigStates]
        /\ [lib.pc EXCEPT ![u] = p] \in [SigThreads -> SigPlaces]
        /\ [lib.raise EXCEPT ![u] = r] \in [SigThreads -> SigRaises]
        /\ [lib.frames EXCEPT ![u] = fs] \in [SigThreads -> Seq(SigFrames)]
        /\ [ref EXCEPT ![u] = m] \in [SigThreads -> SUBSET Sigs]
    BY DEF SigInv, SigTypeOK, SigLib, Typed
  <2>2. lib' \in SigLib
    BY <2>1 DEF LibWith, LibIs, SigLib, Typed
  <2> QED BY <2>1, <2>2 DEF SigTypeOK
<1>3. ASSUME NEW v \in SigThreads
      PROVE ThreadOK(v, lib'.ss[v], lib'.pc[v], lib'.raise[v], lib'.frames[v], ref'[v])
  <2>1. CASE v = u
    <3>1. lib'.ss[v] = S /\ lib'.pc[v] = p /\ lib'.raise[v] = r /\ lib'.frames[v] = fs /\ ref'[v] = m
      BY <1>2, <2>1 DEF SigInv, SigTypeOK, SigLib
    <3> QED BY <3>1, <2>1
  <2>2. CASE v # u
    <3>1. /\ lib'.ss[v] = lib.ss[v] /\ lib'.pc[v] = lib.pc[v] /\ lib'.raise[v] = lib.raise[v]
          /\ lib'.frames[v] = lib.frames[v] /\ ref'[v] = ref[v]
      BY <1>2, <2>2 DEF SigInv, SigTypeOK, SigLib
    <3> QED BY <3>1 DEF SigInv
  <2> QED BY <2>1, <2>2
<1>4. (\A t \in SigThreads : ThreadOK(t, lib.ss[t], lib.pc[t], lib.raise[t], lib.frames[t], ref[t]))'
  BY <1>3
<1> QED BY <1>1, <1>4 DEF SigInv

LEMMA Pushed ==
  ASSUME NEW T, NEW fs \in Seq(T), NEW f \in T
  PROVE  LET q == <<f>> \o fs IN
         /\ q \in Seq(T) /\ q # <<>> /\ Len(q) = Len(fs) + 1 /\ q[1] = f
         /\ \A i \in 2..Len(q) : q[i] = fs[i - 1]
OBVIOUS

LEMMA Popped ==
  ASSUME NEW T, NEW fs \in Seq(T), fs # <<>>
  PROVE  /\ Tail(fs) \in Seq(T) /\ Len(Tail(fs)) = Len(fs) - 1 /\ Len(fs) > 0
         /\ \A i \in 1..Len(Tail(fs)) : Tail(fs)[i] = fs[i + 1]
         /\ Head(fs) = fs[1] /\ Head(fs) \in T /\ (Len(fs) = 1 \/ Len(fs) > 1)
         /\ Tail(fs) = <<>> <=> Len(fs) = 1
         /\ Tail(fs) # <<>> => Tail(fs)[Len(Tail(fs))] = fs[Len(fs)] /\ Tail(fs)[1] = fs[2]
              /\ Len(fs) >= 2
<1>1. /\ Tail(fs) \in Seq(T) /\ Len(Tail(fs)) = Len(fs) - 1 /\ Len(fs) > 0
      /\ \A i \in 1..Len(Tail(fs)) : Tail(fs)[i] = fs[i + 1]
      /\ Head(fs) = fs[1] /\ Head(fs) \in T
  OBVIOUS
<1> DEFINE q == Tail(fs)
<1>20. q \in Seq(T)
  BY <1>1
<1> HIDE DEF q
<1>2. Len(q) \in Nat /\ Len(fs) \in Nat /\ (q = <<>> <=> Len(q) = 0)
  BY <1>20
<1>21. Len(fs) = 1 \/ Len(fs) > 1
  BY <1>1, <1>2
<1>3. q = <<>> <=> Len(fs) = 1
  BY <1>1, <1>2 DEF q
<1>4. ASSUME q # <<>> PROVE q[Len(q)] = fs[Len(fs)] /\ q[1] = fs[2] /\ Len(fs) >= 2
  <2>1. Len(q) \in 1..Len(q) /\ 1 \in 1..Len(q) /\ Len(q) + 1 = Len(fs)
    BY <1>1, <1>2, <1>4 DEF q
  <2>2. \A i \in 1..Len(q) : q[i] = fs[i + 1]
    BY <1>1 DEF q
  <2>3. q[Len(q)] = fs[Len(q) + 1] /\ q[1] = fs[1 + 1]
    BY <2>1, <2>2
  <2> QED BY <1>2, <2>1, <2>3
<1> QED BY <1>1, <1>21, <1>3, <1>4 DEF q

\* signal_dispatch interrupts a thread that is not on its way to a handler.
LEMMA DispatchedThread ==
  ASSUME NEW u \in SigThreads, NEW s \in Sigs, NEW S \in SigStates, NEW p \in SigPlaces,
         NEW r0 \in SigRaises, NEW r \in SigRaises, NEW fs \in Seq(SigFrames), NEW m \in SUBSET Sigs,
         ThreadOK(u, S, p, r0, fs, m), S.lock # u, s \notin S.blocked,
         r = r0 \/ r = NoRaise
  PROVE  ThreadOK(u, [S EXCEPT !.lock = u, !.sent = NoRaise], IF p = "sigwait" THEN "aborted" ELSE p, r,
                  <<DispatchFrame(s)>> \o fs, m)
<1> DEFINE S1 == [S EXCEPT !.lock = u, !.sent = NoRaise]
           f == DispatchFrame(s)
           q == <<f>> \o fs
           p1 == IF p = "sigwait" THEN "aborted" ELSE p
<1>0. r0.depth \in Nat /\ r.depth \in Nat
  BY DEF SigRaises
<1>1. /\ S1.lock = u /\ S1.blocked = S.blocked /\ S1.actions = S.actions
      /\ S1.pending = S.pending
  BY DEF SigStates
<1>2. f \in SigFrames /\ f.at = "dispatch" /\ f.signo = s
  BY DEF DispatchFrame, SigFrames
<1> HIDE DEF S1, f
<1>3. /\ q \in Seq(SigFrames) /\ q # <<>> /\ Len(q) = Len(fs) + 1 /\ q[1] = f
      /\ \A i \in 2..Len(q) : q[i] = fs[i - 1]
  BY <1>2, Pushed
<1>31. Len(fs) \in Nat /\ (Len(fs) = 0 <=> fs = <<>>)
  OBVIOUS
<1> HIDE DEF q
<1>4. FramesOK(u, S1, q, m)
  <2>1. fs # <<>> => fs[1].at # "dispatch"
    BY DEF ThreadOK, FramesOK
  <2>2. ASSUME NEW i \in 1..Len(fs) PROVE fs[i].at \in {"dispatch", "handler"}
    <3>1. fs[i] \in SigFrames
      OBVIOUS
    <3> QED BY <3>1 DEF SigFrames
  <2>3. \A i \in 1..Len(fs) : fs[i].at = "handler"
    BY <1>31, <2>1, <2>2 DEF ThreadOK, FramesOK
  <2>4. \A i \in 2..Len(q) : q[i].at = "handler"
    BY <1>3, <1>31, <2>3
  <2>5. CASE fs = <<>>
    BY <1>1, <1>2, <1>3, <1>31, <2>4, <2>5 DEF ThreadOK, FramesOK
  <2>6. CASE fs # <<>>
    <3>1. q[Len(q)] = fs[Len(fs)] /\ fs[Len(fs)].at = "handler" /\ fs[Len(fs)].orig = m
      BY <1>3, <1>31, <2>3, <2>6 DEF ThreadOK, FramesOK
    <3> QED BY <1>1, <1>2, <1>3, <2>4, <3>1 DEF ThreadOK, FramesOK
  <2> QED BY <2>5, <2>6
<1>5. RaiseOK(p1, r, q)
  BY <1>0, <1>1, <1>3, <1>31 DEF ThreadOK, RaiseOK
<1>6. PendingOK(S1, r, q)
  BY <1>1, <1>3 DEF ThreadOK, PendingOK, IgnoredBy
<1> QED BY <1>4, <1>5, <1>6 DEF ThreadOK, S1, q, f

\* pthread_kill_siginfo_np to a thread whose state is not locked.
LEMMA KillThread ==
  ASSUME NEW u \in SigThreads, NEW s \in Sigs, NEW S \in SigStates, NEW p \in SigPlaces,
         NEW r0 \in SigRaises, NEW r \in SigRaises, NEW fs \in Seq(SigFrames), NEW m \in SUBSET Sigs,
         ThreadOK(u, S, p, r0, fs, m), S.lock = Nobody,
         r = r0 \/ (r = NoRaise /\ r0 # NoRaise /\ r0.signo = s /\ r0.depth = Len(fs))
  PROVE  /\ p # "run" => ThreadOK(u, [S EXCEPT !.info = s, !.pending = @ \ {s}], p, r, fs, m)
         /\ IgnoredBy(S, s) => ThreadOK(u, S, p, r, fs, m)
         /\ ~IgnoredBy(S, s) /\ s \in S.blocked =>
               ThreadOK(u, [S EXCEPT !.pending = @ \cup {s}], p, r, fs, m)
         /\ s \notin S.blocked => \A t \in SigThreads, d \in Nat : r = r0 /\ t # u =>
               ThreadOK(u, [S EXCEPT !.lock = t, !.sent = RaiseAt(s, d)], p, r, fs, m)
<1>0. /\ S.pending \in SUBSET Sigs /\ S.blocked \in SUBSET Sigs /\ Nobody \notin SigThreads
      /\ r.depth \in Nat /\ r0.depth \in Nat /\ s # 0
  BY SigsAssumption DEF SigStates, SigRaises
<1>1. ASSUME p # "run" PROVE ThreadOK(u, [S EXCEPT !.info = s, !.pending = @ \ {s}], p, r, fs, m)
  <2> DEFINE S1 == [S EXCEPT !.info = s, !.pending = @ \ {s}]
  <2>1. /\ S1.lock = S.lock /\ S1.blocked = S.blocked /\ S1.actions = S.actions
        /\ S1.pending = S.pending \ {s}
    BY DEF SigStates
  <2>3. fs = <<>> => r0 = NoRaise
    BY <1>0, <1>1 DEF ThreadOK, RaiseOK
  <2> HIDE DEF S1
  <2>4. FramesOK(u, S1, fs, m)
    BY <2>1 DEF ThreadOK, FramesOK
  <2>5. RaiseOK(p, r, fs)
    BY DEF ThreadOK, RaiseOK
  <2>6. PendingOK(S1, r, fs)
    BY <2>1, <2>3 DEF ThreadOK, PendingOK, IgnoredBy
  <2> QED BY <2>4, <2>5, <2>6 DEF ThreadOK, S1
<1>2. ASSUME IgnoredBy(S, s) PROVE ThreadOK(u, S, p, r, fs, m)
  BY <1>0, <1>2 DEF ThreadOK, FramesOK, RaiseOK, PendingOK
<1>3. ASSUME ~IgnoredBy(S, s), s \in S.blocked
      PROVE ThreadOK(u, [S EXCEPT !.pending = @ \cup {s}], p, r, fs, m)
  <2> DEFINE S1 == [S EXCEPT !.pending = @ \cup {s}]
  <2>1. /\ S1.lock = S.lock /\ S1.blocked = S.blocked /\ S1.actions = S.actions
        /\ S1.pending = S.pending \cup {s}
    BY DEF SigStates
  <2> HIDE DEF S1
  <2>4. FramesOK(u, S1, fs, m)
    BY <2>1 DEF ThreadOK, FramesOK
  <2>5. RaiseOK(p, r, fs)
    BY DEF ThreadOK, RaiseOK
  <2>6. PendingOK(S1, r, fs)
    BY <1>3, <2>1 DEF ThreadOK, PendingOK, IgnoredBy
  <2> QED BY <2>4, <2>5, <2>6 DEF ThreadOK, S1
<1>4. ASSUME s \notin S.blocked, NEW t \in SigThreads, NEW d \in Nat, r = r0, t # u
      PROVE ThreadOK(u, [S EXCEPT !.lock = t, !.sent = RaiseAt(s, d)], p, r, fs, m)
  <2> DEFINE S1 == [S EXCEPT !.lock = t, !.sent = RaiseAt(s, d)]
  <2>1. /\ S1.lock = t /\ S1.blocked = S.blocked /\ S1.actions = S.actions
        /\ S1.pending = S.pending /\ S1.sent.signo = s
    BY DEF SigStates, RaiseAt
  <2> HIDE DEF S1
  <2>4. FramesOK(u, S1, fs, m)
    BY <1>0, <1>4, <2>1 DEF ThreadOK, FramesOK
  <2>5. RaiseOK(p, r, fs)
    BY <1>4 DEF ThreadOK, RaiseOK
  <2>6. PendingOK(S1, r, fs)
    BY <1>4, <2>1 DEF ThreadOK, PendingOK, IgnoredBy
  <2> QED BY <2>4, <2>5, <2>6 DEF ThreadOK, S1
<1> QED BY <1>1, <1>2, <1>3, <1>4

LEMMA WaitersTyped ==
  ASSUME NEW w \in SigLists, NEW u \in SigThreads
  PROVE  WaiterOff(w, u) \in SigLists /\ WaiterOn(w, u) \in SigLists
<1>1. /\ w.head \in SigThreads \cup {Nobody} /\ w.next \in SigLinks /\ w.prev \in SigLinks
      /\ w.next[u] \in SigThreads \cup {Nobody} /\ w.prev[u] \in SigThreads \cup {Nobody}
  BY DEF SigLists, SigLinks
<1>2. \A x \in SigThreads \cup {Nobody}, y \in SigThreads \cup {Nobody}, f \in SigLinks :
        [v \in SigThreads |-> IF v = x THEN y ELSE f[v]] \in SigLinks
  BY DEF SigLinks
<1>3. WaiterOff(w, u) \in SigLists
  <2>1. (IF w.prev[u] = Nobody THEN w.next[u] ELSE w.head) \in SigThreads \cup {Nobody}
    BY <1>1
  <2>2. /\ [v \in SigThreads |-> IF v = w.prev[u] THEN w.next[u] ELSE w.next[v]] \in SigLinks
        /\ [v \in SigThreads |-> IF v = w.next[u] THEN w.prev[u] ELSE w.prev[v]] \in SigLinks
    BY <1>1, <1>2
  <2> DEFINE h == IF w.prev[u] = Nobody THEN w.next[u] ELSE w.head
             n == [v \in SigThreads |-> IF v = w.prev[u] THEN w.next[u] ELSE w.next[v]]
             p == [v \in SigThreads |-> IF v = w.next[u] THEN w.prev[u] ELSE w.prev[v]]
  <2>3. WaiterOff(w, u) = [head |-> h, next |-> n, prev |-> p]
    BY DEF WaiterOff
  <2> HIDE DEF h, n, p
  <2>4. h \in SigThreads \cup {Nobody} /\ n \in SigLinks /\ p \in SigLinks
    BY <2>1, <2>2 DEF h, n, p
  <2> QED BY <2>3, <2>4 DEF SigLists
<1>4. WaiterOn(w, u) \in SigLists
  <2>1. [w.next EXCEPT ![u] = w.head] \in SigLinks
    BY <1>1 DEF SigLinks
  <2>2. [v \in SigThreads |-> IF v = u THEN Nobody ELSE IF v = w.head THEN u ELSE w.prev[v]] \in SigLinks
    BY <1>1 DEF SigLinks
  <2> QED BY <2>1, <2>2 DEF SigLists, WaiterOn
<1> QED BY <1>3, <1>4

LEMMA LostStep ==
  ASSUME SigInv, lib' = ProgramLost, ref' = ref
  PROVE  SigInv'
<1>1. /\ lib'.ss = lib.ss /\ lib'.pc = lib.pc /\ lib'.raise = lib.raise /\ lib'.frames = lib.frames
      /\ lib' \in SigLib
  BY DEF ProgramLost, SigInv, SigTypeOK, SigLib
<1> QED BY <1>1 DEF SigInv, SigTypeOK

\* sigwaiter_unblock of a thread that is in sigwaitinfo.
LEMMA UnblockStep ==
  ASSUME SigInv, NEW u \in SigThreads, NEW s \in Sigs, NEW c \in Nat, NEW r \in SigRaises,
         lib.ss[u].lock = Nobody, lib.pc[u] # "run",
         \/ r = lib.raise[u]
         \/ /\ r = NoRaise /\ lib.raise[u] # NoRaise
            /\ lib.raise[u].signo = s /\ lib.raise[u].depth = Len(lib.frames[u]),
         NEW L, LibIs(L, c, lib.stopped, lib.sigwaiters, lib.ss, lib.pc, [lib.raise EXCEPT ![u] = r],
           lib.frames),
         lib' = Unblock(L, u, s), ref' = ref
  PROVE  SigInv'
<1> DEFINE S == lib.ss[u]
           p == lib.pc[u]
           fs == lib.frames[u]
           w == lib.sigwaiters
           stop == lib.stopped
           r1 == [lib.raise EXCEPT ![u] = r]
           S1 == [S EXCEPT !.info = s, !.pending = @ \ {s}]
           w1 == WaiterOff(w, u)
<1>1. /\ lib \in SigLib /\ S \in SigStates /\ p \in SigPlaces /\ lib.raise[u] \in SigRaises
      /\ fs \in Seq(SigFrames) /\ ref[u] \in SUBSET Sigs /\ w \in SigLists /\ stop \in BOOLEAN
      /\ ThreadOK(u, S, p, lib.raise[u], fs, ref[u])
  BY DEF SigInv, SigTypeOK, SigLib
<1>2. ref' = [ref EXCEPT ![u] = ref[u]]
  BY DEF SigInv, SigTypeOK
<1>3. LibIs(L, c, stop, w, lib.ss, lib.pc, r1, lib.frames)
  OBVIOUS
<1>4. lib.pc = [lib.pc EXCEPT ![u] = p] /\ lib.frames = [lib.frames EXCEPT ![u] = fs]
  BY <1>1 DEF SigLib
<1>5. L.ss = lib.ss /\ L.sigwaiters = w
  BY <1>3 DEF LibIs
<1>50. \/ lib' = ProgramLost
       \/ lib' = [L EXCEPT !.ss = [lib.ss EXCEPT ![u] = S1], !.sigwaiters = w1]
  <2>1. \/ lib' = ProgramLost
        \/ lib' = [L EXCEPT !.ss[u] = [L.ss[u] EXCEPT !.info = s, !.pending = @ \ {s}],
                            !.sigwaiters = WaiterOff(L.sigwaiters, u)]
    BY DEF Unblock
  <2>2. [L.ss[u] EXCEPT !.info = s, !.pending = @ \ {s}] = S1 /\ WaiterOff(L.sigwaiters, u) = w1
    BY <1>5
  <2> HIDE DEF S1, w1
  <2> QED BY <1>5, <2>1, <2>2
<1>6. CASE lib' = ProgramLost
  BY <1>6, LostStep
<1>7. CASE lib' = [L EXCEPT !.ss = [lib.ss EXCEPT ![u] = S1], !.sigwaiters = w1]
  <2>3. S1 \in SigStates /\ w1 \in SigLists
    BY <1>1, WaitersTyped, SigsAssumption DEF SigStates
  <2>4. ThreadOK(u, S1, p, r, fs, ref[u])
    BY <1>1, KillThread
  <2> HIDE DEF S1, w1
  <2>2. LibWith(lib', c, stop, w1, u, S1, p, r, fs)
    BY <1>3, <1>4, <1>7 DEF LibWith, LibIs
  <2> HIDE DEF p, fs, stop, w
  <2>5. Typed(c, stop, w1, S1, p, r, fs, ref[u])
    BY <1>1, <2>3 DEF Typed
  <2> QED BY <1>2, <2>2, <2>4, <2>5, OneThread
<1> QED BY <1>50, <1>6, <1>7

\* t # u sends no raise of its own.
LEMMA KillStep ==
  ASSUME SigInv, NEW t \in SigThreads, NEW u \in SigThreads, NEW s \in Sigs, NEW c \in Nat,
         NEW r \in SigRaises, lib.ss[u].lock = Nobody,
         \/ r = lib.raise[u]
         \/ /\ r = NoRaise /\ lib.raise[u] # NoRaise /\ t = u
            /\ lib.raise[u].signo = s /\ lib.raise[u].depth = Len(lib.frames[u]),
         NEW L, LibIs(L, c, lib.stopped, lib.sigwaiters, lib.ss, lib.pc, [lib.raise EXCEPT ![u] = r],
           lib.frames),
         lib' = KillSiginfo(L, t, u, s), ref' = ref
  PROVE  SigInv'
<1> DEFINE S == lib.ss[u]
           p == lib.pc[u]
           fs == lib.frames[u]
           w == lib.sigwaiters
           stop == lib.stopped
           r1 == [lib.raise EXCEPT ![u] = r]
<1>1. /\ lib \in SigLib /\ S \in SigStates /\ p \in SigPlaces /\ lib.raise[u] \in SigRaises
      /\ fs \in Seq(SigFrames) /\ ref[u] \in SUBSET Sigs /\ w \in SigLists /\ stop \in BOOLEAN
      /\ ThreadOK(u, S, p, lib.raise[u], fs, ref[u])
  BY DEF SigInv, SigTypeOK, SigLib
<1>2. ref' = [ref EXCEPT ![u] = ref[u]]
  BY DEF SigInv, SigTypeOK
<1>3. /\ L.ss[u].set = S.set /\ L.ss[u].blocked = S.blocked
      /\ Ignores(u, s) <=> IgnoredBy(S, s)
  BY <1>1 DEF LibIs, SigLib, Ignores, IgnoredBy
<1>30. LibIs(L, c, stop, w, lib.ss, lib.pc, r1, lib.frames)
  OBVIOUS
<1>31. /\ lib.ss = [lib.ss EXCEPT ![u] = S] /\ lib.pc = [lib.pc EXCEPT ![u] = p]
       /\ lib.frames = [lib.frames EXCEPT ![u] = fs]
  BY <1>1 DEF SigLib
<1>32. Dead(u) <=> p = "run"
  BY SigsAssumption DEF Dead
<1>4. CASE S.set # {} /\ p = "run"
  BY <1>3, <1>32, <1>4, LostStep DEF KillSiginfo
<1>41. CASE p # "run" /\ s \in S.set
  <2>1. lib' = Unblock(L, u, s)
    BY <1>3, <1>32, <1>41 DEF KillSiginfo
  <2> QED BY <1>41, <2>1, UnblockStep
<1> DEFINE Past == (S.set = {} \/ p # "run") /\ s \notin S.set
<1>42. Past => ~(L.ss[u].set # {} /\ Dead(u)) /\ s \notin L.ss[u].set
  BY <1>3, <1>32
<1>43. Past \/ (S.set # {} /\ p = "run") \/ (p # "run" /\ s \in S.set)
  OBVIOUS
<1> HIDE DEF Past
<1>5. CASE Past /\ IgnoredBy(S, s)
  <2>1. lib' = L
    BY <1>3, <1>42, <1>5 DEF KillSiginfo
  <2>2. LibWith(lib', c, stop, w, u, S, p, r, fs)
    BY <1>1, <1>30, <1>31, <2>1 DEF LibWith, LibIs
  <2>4. ThreadOK(u, S, p, r, fs, ref[u])
    BY <1>1, <1>5, KillThread
  <2> HIDE DEF S, p, fs, stop, w
  <2>5. Typed(c, stop, w, S, p, r, fs, ref[u])
    BY <1>1 DEF Typed
  <2> QED BY <1>2, <2>2, <2>4, <2>5, OneThread
<1>6. CASE Past /\ ~IgnoredBy(S, s) /\ s \in S.blocked
  <2> DEFINE S1 == [S EXCEPT !.pending = @ \cup {s}]
  <2>1. lib' = [L EXCEPT !.ss[u].pending = @ \cup {s}]
    BY <1>3, <1>42, <1>6 DEF KillSiginfo
  <2>2. LibWith(lib', c, stop, w, u, S1, p, r, fs)
    BY <1>1, <1>30, <1>31, <2>1 DEF LibWith, LibIs
  <2>3. S1 \in SigStates
    BY <1>1 DEF SigStates
  <2>4. ThreadOK(u, S1, p, r, fs, ref[u])
    BY <1>1, <1>6, KillThread
  <2> HIDE DEF S1, p, fs, stop, w
  <2>5. Typed(c, stop, w, S1, p, r, fs, ref[u])
    BY <1>1, <2>3 DEF Typed
  <2> QED BY <1>2, <2>2, <2>4, <2>5, OneThread
<1>7. CASE Past /\ ~IgnoredBy(S, s) /\ s \notin S.blocked /\ t = u
  <2> DEFINE S1 == [S EXCEPT !.lock = u, !.sent = NoRaise]
             q == <<DispatchFrame(s)>> \o fs
             p1 == IF p = "sigwait" THEN "aborted" ELSE p
  <2>1. lib' = Dispatched(L, u, s)
    BY <1>3, <1>42, <1>7 DEF KillSiginfo
  <2>11. L.ss[u] = S /\ L.frames[u] = fs /\ L.pc[u] = p
    BY <1>30 DEF LibIs
  <2>12. lib' = [L EXCEPT !.ss[u] = S1, !.frames[u] = q, !.pc[u] = p1]
    BY <2>1, <2>11 DEF Dispatched
  <2>3. S1 \in SigStates /\ p1 \in SigPlaces /\ DispatchFrame(s) \in SigFrames
    BY <1>1 DEF SigStates, SigPlaces, SigFrames, DispatchFrame, NoRaise, RaiseAt, SigRaises, NoSignal
  <2>31. q \in Seq(SigFrames)
    BY <1>1, <2>3, Pushed
  <2>4. ThreadOK(u, S1, p1, r, q, ref[u])
    BY <1>1, <1>7, DispatchedThread, SigsAssumption
  <2> HIDE DEF S1, p1, q, stop, w
  <2>2. LibWith(lib', c, stop, w, u, S1, p1, r, q)
    BY <1>30, <2>12 DEF LibWith, LibIs
  <2>5. Typed(c, stop, w, S1, p1, r, q, ref[u])
    BY <1>1, <2>3, <2>31 DEF Typed
  <2> QED BY <1>2, <2>2, <2>4, <2>5, OneThread
<1>8. CASE Past /\ ~IgnoredBy(S, s) /\ s \notin S.blocked /\ t # u
  <2> DEFINE d == Len(lib.frames[t])
             S1 == [S EXCEPT !.lock = t, !.sent = RaiseAt(s, d)]
  <2>1. lib' = [L EXCEPT !.ss[u] = [L.ss[u] EXCEPT !.lock = t, !.sent = RaiseAt(s, d)]]
    BY <1>3, <1>42, <1>8 DEF KillSiginfo
  <2>10. lib.frames[t] \in Seq(SigFrames)
    BY <1>1 DEF SigLib
  <2>11. d \in Nat
    BY <2>10
  <2> HIDE DEF d
  <2>2. LibWith(lib', c, stop, w, u, S1, p, r, fs)
    <3>1. [L.ss[u] EXCEPT !.lock = t, !.sent = RaiseAt(s, d)] = S1 /\ L.ss = lib.ss
      BY <1>30 DEF LibIs
    <3> HIDE DEF S1
    <3> QED BY <1>30, <1>31, <2>1, <3>1 DEF LibWith, LibIs
  <2>3. S1 \in SigStates
    BY <1>1, <2>11, SigsAssumption DEF SigStates, RaiseAt, SigRaises
  <2>4. ThreadOK(u, S1, p, r, fs, ref[u])
    BY <1>1, <1>8, <2>11, KillThread
  <2> HIDE DEF S1, p, fs, stop, w
  <2>5. Typed(c, stop, w, S1, p, r, fs, ref[u])
    BY <1>1, <2>3 DEF Typed
  <2> QED BY <1>2, <2>2, <2>4, <2>5, OneThread
<1> QED BY <1>4, <1>41, <1>43, <1>5, <1>6, <1>7, <1>8

\* What the step of a thread finds.
LEMMA SigFacts ==
  ASSUME SigInv, NEW t \in SigThreads
  PROVE  /\ lib \in SigLib /\ ref[t] \in SUBSET Sigs
         /\ Typed(lib.calls, lib.stopped, lib.sigwaiters, lib.ss[t], lib.pc[t], lib.raise[t],
                  lib.frames[t], ref[t])
         /\ ThreadOK(t, lib.ss[t], lib.pc[t], lib.raise[t], lib.frames[t], ref[t])
         /\ lib.calls + 1 \in Nat
         /\ lib.ss = [lib.ss EXCEPT ![t] = lib.ss[t]] /\ lib.pc = [lib.pc EXCEPT ![t] = lib.pc[t]]
         /\ lib.raise = [lib.raise EXCEPT ![t] = lib.raise[t]]
         /\ lib.frames = [lib.frames EXCEPT ![t] = lib.frames[t]]
         /\ ref = [ref EXCEPT ![t] = ref[t]]
BY DEF SigInv, SigTypeOK, SigLib, Typed

LEMMA CallsIs ==
  ASSUME SigInv
  PROVE  LibIs(Calls(lib), lib.calls + 1, lib.stopped, lib.sigwaiters, lib.ss, lib.pc, lib.raise,
        lib.frames)
BY DEF SigInv, SigTypeOK, SigLib, LibIs, Calls

LEMMA PthreadKillStep ==
  ASSUME SigInv, NEW t \in SigThreads, NEW u \in SigThreads, NEW s \in Sigs, PthreadKill(t, u, s)
  PROVE  SigInv'
<1>1. /\ lib.ss[u].lock = Nobody /\ lib' = KillSiginfo(Calls(lib), t, u, s) /\ ref' = ref
  BY DEF PthreadKill, Becomes
<1>2. /\ lib.calls + 1 \in Nat /\ lib.raise[u] \in SigRaises
      /\ lib.raise = [lib.raise EXCEPT ![u] = lib.raise[u]]
  BY SigFacts DEF Typed
<1>3. LibIs(Calls(lib), lib.calls + 1, lib.stopped, lib.sigwaiters, lib.ss, lib.pc,
            [lib.raise EXCEPT ![u] = lib.raise[u]], lib.frames)
  BY <1>2, CallsIs
<1> QED BY <1>1, <1>2, <1>3, KillStep

LEMMA DeliverStep ==
  ASSUME SigInv, NEW t \in SigThreads, NEW u \in SigThreads, Deliver(t, u)
  PROVE  SigInv'
<1> DEFINE S == lib.ss[u]
           p == lib.pc[u]
           r == lib.raise[u]
           fs == lib.frames[u]
           m == ref[u]
           s == S.sent.signo
           S1 == [S EXCEPT !.lock = u, !.sent = NoRaise]
           q == <<DispatchFrame(s)>> \o fs
           p1 == IF p = "sigwait" THEN "aborted" ELSE p
<1>1. /\ t # u /\ S.lock = t /\ ref' = ref
      /\ lib' = Dispatched(lib, u, s) \/ lib' = ProgramLost
  BY DEF Deliver, Becomes
<1>2. /\ lib \in SigLib /\ Typed(lib.calls, lib.stopped, lib.sigwaiters, S, p, r, fs, m)
      /\ ThreadOK(u, S, p, r, fs, m)
      /\ lib.raise = [lib.raise EXCEPT ![u] = r] /\ ref = [ref EXCEPT ![u] = m]
  BY SigFacts
<1>3. CASE lib' = Dispatched(lib, u, s)
  <2>1. s \in Sigs /\ s \notin S.blocked /\ S.lock # u
    BY <1>1, <1>2, SigsAssumption DEF ThreadOK, FramesOK
  <2>12. lib' = [lib EXCEPT !.ss[u] = S1, !.frames[u] = q, !.pc[u] = p1]
    BY <1>3 DEF Dispatched
  <2> HIDE DEF s
  <2>2. S1 \in SigStates /\ p1 \in SigPlaces /\ DispatchFrame(s) \in SigFrames
    BY <1>2, <2>1 DEF Typed, SigStates, SigPlaces, SigFrames, DispatchFrame, NoRaise, RaiseAt,
                      SigRaises, NoSignal
  <2>3. q \in Seq(SigFrames)
    BY <1>2, <2>2, Pushed DEF Typed
  <2>4. ThreadOK(u, S1, p1, r, q, m)
    BY <1>2, <2>1, DispatchedThread DEF Typed
  <2> HIDE DEF S1, p1, q
  <2>5. LibWith(lib', lib.calls, lib.stopped, lib.sigwaiters, u, S1, p1, r, q)
    BY <1>2, <2>12 DEF LibWith, LibIs, SigLib
  <2>6. Typed(lib.calls, lib.stopped, lib.sigwaiters, S1, p1, r, q, m)
    BY <1>2, <2>2, <2>3 DEF Typed
  <2>7. ref' = [ref EXCEPT ![u] = m]
    BY <1>1, <1>2
  <2> HIDE DEF r, m
  <2> QED BY <2>4, <2>5, <2>6, <2>7, OneThread
<1> QED BY <1>1, <1>3, LostStep

LEMMA KillProcessStep ==
  ASSUME SigInv, NEW t \in SigThreads, NEW s \in Sigs, Kill(t, s)
  PROVE  SigInv'
<1> DEFINE u == FirstWaiter(s)
<1>1. ref' = ref
  BY DEF Kill, Becomes
<1>2. \A v \in SigThreads :
        /\ lib.calls + 1 \in Nat /\ lib.raise[v] \in SigRaises
        /\ LibIs(Calls(lib), lib.calls + 1, lib.stopped, lib.sigwaiters, lib.ss, lib.pc,
                 [lib.raise EXCEPT ![v] = lib.raise[v]], lib.frames)
  BY CallsIs, SigFacts DEF Typed
<1>3. \/ lib.ss[t].lock = Nobody /\ lib' = KillSiginfo(Calls(lib), t, t, s)
      \/ /\ u \in SigThreads /\ lib.ss[u].lock = Nobody
         /\ lib' = IF Dead(u) THEN ProgramLost ELSE Unblock(Calls(lib), u, s)
  BY DEF Kill, Becomes
<1> HIDE DEF u
<1>4. CASE lib.ss[t].lock = Nobody /\ lib' = KillSiginfo(Calls(lib), t, t, s)
  BY <1>1, <1>2, <1>4, KillStep
<1>5. CASE u \in SigThreads /\ lib.ss[u].lock = Nobody /\ ~Dead(u) /\ lib' = Unblock(Calls(lib), u, s)
  <2>1. lib.pc[u] # "run"
    BY <1>5, SigsAssumption DEF Dead
  <2> QED BY <1>1, <1>2, <1>5, <2>1, UnblockStep
<1>6. CASE lib' = ProgramLost
  BY <1>1, <1>6, LostStep
<1> QED BY <1>3, <1>4, <1>5, <1>6

LEMMA RaiseStep ==
  ASSUME SigInv, NEW t \in SigThreads, Raise(t)
  PROVE  SigInv'
<1> DEFINE s == lib.raise[t].signo
           L == [lib EXCEPT !.raise[t] = NoRaise]
<1>1. /\ lib.raise[t] # NoRaise /\ lib.raise[t].depth = Len(lib.frames[t])
      /\ lib.ss[t].lock = Nobody /\ ref' = ref /\ lib' = KillSiginfo(L, t, t, s)
  BY DEF Raise, Becomes
<1>2. lib \in SigLib /\ lib.calls \in Nat /\ NoRaise \in SigRaises
  BY DEF SigInv, SigTypeOK, SigLib, NoRaise, RaiseAt, NoSignal, SigRaises
<1>3. LibIs(L, lib.calls, lib.stopped, lib.sigwaiters, lib.ss, lib.pc,
            [lib.raise EXCEPT ![t] = NoRaise], lib.frames)
  BY <1>2 DEF SigLib, LibIs
<1>4. s \in Sigs
  BY <1>1, SigFacts DEF ThreadOK, RaiseOK
<1> HIDE DEF L
<1> QED BY <1>1, <1>2, <1>3, <1>4, KillStep

LEMMA DispatchStep ==
  ASSUME SigInv, NEW t \in SigThreads, Dispatch(t)
  PROVE  SigInv'
<1> DEFINE S == lib.ss[t]
           p == lib.pc[t]
           r == lib.raise[t]
           fs == lib.frames[t]
           m == ref[t]
           f == Head(fs)
           s == f.signo
           cancelled == IF s \in StopSigs THEN {ContSig} ELSE IF s = ContSig THEN StopSigs ELSE {}
           own == IF s \in NoDefer \cup ResetHand THEN {} ELSE {s}
           new == [S EXCEPT !.pending = @ \ (cancelled \cup {s}),
                            !.blocked = @ \cup SaMask \cup own,
                            !.actions[s] = IF s \in ResetHand THEN "dfl" ELSE @,
                            !.lock = Nobody]
           run == [f EXCEPT !.at = "handler", !.orig = S.blocked]
           stop == S.actions[s] = "dfl"
           q == <<run>> \o Tail(fs)
<1>1. /\ fs # <<>> /\ f.at = "dispatch" /\ ref' = ref
      /\ lib' = [lib EXCEPT !.ss[t] = new, !.frames[t] = <<run>> \o Tail(@), !.stopped = stop]
  BY DEF Dispatch, InHandler, Becomes
<1>2. /\ lib \in SigLib /\ Typed(lib.calls, lib.stopped, lib.sigwaiters, S, p, r, fs, m)
      /\ ThreadOK(t, S, p, r, fs, m)
      /\ lib.pc = [lib.pc EXCEPT ![t] = p] /\ lib.raise = [lib.raise EXCEPT ![t] = r]
      /\ ref = [ref EXCEPT ![t] = m]
  BY SigFacts
<1>3. LibWith(lib', lib.calls, stop, lib.sigwaiters, t, new, p, r, q)
  <2> HIDE DEF new, run, stop
  <2> QED BY <1>1, <1>2 DEF LibWith, LibIs, SigLib
<1>4. S \in SigStates /\ fs \in Seq(SigFrames)
  BY <1>2 DEF Typed
<1>5. /\ Tail(fs) \in Seq(SigFrames) /\ Len(Tail(fs)) = Len(fs) - 1 /\ Len(fs) > 0
      /\ \A i \in 1..Len(Tail(fs)) : Tail(fs)[i] = fs[i + 1]
      /\ f = fs[1] /\ f \in SigFrames /\ (Len(fs) = 1 \/ Len(fs) > 1)
      /\ Tail(fs) = <<>> <=> Len(fs) = 1
      /\ Tail(fs) # <<>> => Tail(fs)[Len(Tail(fs))] = fs[Len(fs)] /\ Tail(fs)[1] = fs[2] /\ Len(fs) >= 2
  BY <1>1, <1>4, Popped
<1>6. s \in Sigs
  BY <1>5 DEF SigFrames
<1>7. /\ new.lock = Nobody /\ new.set = S.set
      /\ new.pending = S.pending \ (cancelled \cup {s})
      /\ new.blocked = S.blocked \cup SaMask \cup own
      /\ new.actions = [S.actions EXCEPT ![s] = IF s \in ResetHand THEN "dfl" ELSE @]
      /\ new \in SigStates
  <2>1. own \in SUBSET Sigs
    BY <1>6
  <2>2. SaMask \in SUBSET Sigs
    BY SigsAssumption
  <2>3. [S.actions EXCEPT ![s] = IF s \in ResetHand THEN "dfl" ELSE @] \in [Sigs -> Actions]
    BY <1>4 DEF SigStates, Actions
  <2> HIDE DEF own, cancelled, s
  <2> QED BY <1>4, <2>1, <2>2, <2>3 DEF SigStates
<1>8. run \in SigFrames /\ run.at = "handler" /\ run.orig = S.blocked
  BY <1>4, <1>5 DEF SigFrames, SigStates
<1> HIDE DEF new, run
<1>9. /\ q \in Seq(SigFrames) /\ q # <<>> /\ Len(q) = Len(Tail(fs)) + 1 /\ q[1] = run
      /\ \A i \in 2..Len(q) : q[i] = Tail(fs)[i - 1]
  BY <1>5, <1>8, Pushed
<1>10. Len(q) = Len(fs) /\ Len(fs) \in Nat /\ \A i \in 2..Len(q) : q[i] = fs[i]
  BY <1>4, <1>5, <1>9
<1> HIDE DEF q
<1>11. FramesOK(t, new, q, m)
  <2>1. \A i \in 2..Len(q) : q[i].at = "handler"
    BY <1>2, <1>10 DEF ThreadOK, FramesOK
  <2>2. q[Len(q)].orig = m /\ q[Len(q)].at = "handler"
    <3>1. CASE Len(fs) = 1
      BY <1>1, <1>2, <1>5, <1>8, <1>9, <1>10, <3>1 DEF ThreadOK, FramesOK
    <3>2. CASE Len(fs) > 1
      BY <1>1, <1>2, <1>10, <2>1, <3>2 DEF ThreadOK, FramesOK
    <3> QED BY <1>5, <3>1, <3>2
  <2> QED BY <1>7, <1>8, <1>9, <2>1, <2>2, SigsAssumption DEF FramesOK
<1>12. RaiseOK(p, r, q)
  BY <1>2, <1>7, <1>10 DEF ThreadOK, RaiseOK
<1>13. PendingOK(new, r, q)
  <2>1. ASSUME NEW x \in new.pending PROVE ~IgnoredBy(new, x)
    <3>1. x \in S.pending /\ x # s
      BY <1>7
    <3>2. x \in Sigs
      BY <1>4, <3>1 DEF SigStates
    <3>3. S.actions \in [Sigs -> Actions]
      BY <1>4 DEF SigStates
    <3>4. new.actions[x] = S.actions[x]
      BY <1>7, <3>1, <3>2, <3>3
    <3> QED BY <1>2, <3>1, <3>4 DEF ThreadOK, PendingOK, IgnoredBy
  <2> QED BY <1>9, <2>1 DEF PendingOK
<1>14. Typed(lib.calls, stop, lib.sigwaiters, new, p, r, q, m)
  BY <1>2, <1>7, <1>9 DEF Typed
<1>15. ThreadOK(t, new, p, r, q, m)
  BY <1>11, <1>12, <1>13 DEF ThreadOK
<1>16. ref' = [ref EXCEPT ![t] = m]
  BY <1>1, <1>2
<1> HIDE DEF p, r, m, stop
<1> QED BY <1>3, <1>14, <1>15, <1>16, OneThread

LEMMA HandlerReturnsStep ==
  ASSUME SigInv, NEW t \in SigThreads, HandlerReturns(t)
  PROVE  SigInv'
<1> DEFINE S == lib.ss[t]
           p == lib.pc[t]
           r == lib.raise[t]
           fs == lib.frames[t]
           m == ref[t]
           f == Head(fs)
           next == S.pending \ f.orig
           L == [lib EXCEPT !.ss[t].blocked = f.orig]
           d == DispatchFrame(Min(next))
           q == IF next = {} THEN Tail(fs) ELSE <<d>> \o Tail(fs)
           new == IF next = {} THEN [S EXCEPT !.blocked = f.orig]
                  ELSE [S EXCEPT !.blocked = f.orig, !.lock = t]
<1>1. /\ fs # <<>> /\ f.at = "handler" /\ ref' = ref /\ S.lock = Nobody
      /\ r # NoRaise => r.depth < Len(fs)
      /\ lib' = IF next = {} THEN [L EXCEPT !.frames[t] = Tail(@)]
                ELSE [L EXCEPT !.ss[t].lock = t, !.frames[t] = <<d>> \o Tail(@)]
  BY DEF HandlerReturns, Idle, InHandler, Becomes, Restored
<1>2. /\ lib \in SigLib /\ Typed(lib.calls, lib.stopped, lib.sigwaiters, S, p, r, fs, m)
      /\ ThreadOK(t, S, p, r, fs, m)
      /\ lib.pc = [lib.pc EXCEPT ![t] = p] /\ lib.raise = [lib.raise EXCEPT ![t] = r]
      /\ ref = [ref EXCEPT ![t] = m]
  BY SigFacts
<1>4. S \in SigStates /\ fs \in Seq(SigFrames) /\ r \in SigRaises
  BY <1>2 DEF Typed
<1>3. LibWith(lib', lib.calls, lib.stopped, lib.sigwaiters, t, new, p, r, q)
  <2> DEFINE S1 == [S EXCEPT !.blocked = f.orig]
             ss1 == [lib.ss EXCEPT ![t] = S1]
  <2>1. LibIs(L, lib.calls, lib.stopped, lib.sigwaiters, ss1, lib.pc, lib.raise, lib.frames)
    BY <1>2 DEF SigLib, LibIs
  <2>2. ss1[t] = S1
    BY <1>2 DEF SigLib
  <2>3. [ss1 EXCEPT ![t] = [S1 EXCEPT !.lock = t]] = [lib.ss EXCEPT ![t] = [S1 EXCEPT !.lock = t]]
    BY <1>2 DEF SigLib
  <2>4. CASE next = {}
    <3>1. lib' = [L EXCEPT !.frames[t] = Tail(@)]
      BY <1>1, <2>4
    <3>2. new = S1 /\ q = Tail(fs)
      BY <2>4
    <3> HIDE DEF L, S1, ss1, new, q, next
    <3>3. LibIs(lib', lib.calls, lib.stopped, lib.sigwaiters, ss1, lib.pc, lib.raise,
                [lib.frames EXCEPT ![t] = Tail(fs)])
      BY <2>1, <3>1 DEF LibIs
    <3> QED BY <1>2, <3>2, <3>3 DEF LibWith, ss1
  <2>5. CASE next # {}
    <3>1. lib' = [L EXCEPT !.ss[t].lock = t, !.frames[t] = <<d>> \o Tail(@)]
      BY <1>1, <2>5
    <3>2. new = [S1 EXCEPT !.lock = t] /\ q = <<d>> \o Tail(fs)
      BY <2>5
    <3> HIDE DEF L, S1, ss1, new, q, next, d
    <3>3. LibIs(lib', lib.calls, lib.stopped, lib.sigwaiters, [ss1 EXCEPT ![t] = [S1 EXCEPT !.lock = t]],
                lib.pc, lib.raise, [lib.frames EXCEPT ![t] = <<d>> \o Tail(fs)])
      BY <2>1, <2>2, <3>1 DEF LibIs
    <3> QED BY <1>2, <2>3, <3>2, <3>3 DEF LibWith
  <2> QED BY <2>4, <2>5
<1>5. /\ Tail(fs) \in Seq(SigFrames) /\ Len(Tail(fs)) = Len(fs) - 1 /\ Len(fs) > 0
      /\ \A i \in 1..Len(Tail(fs)) : Tail(fs)[i] = fs[i + 1]
      /\ f = fs[1] /\ f \in SigFrames /\ (Len(fs) = 1 \/ Len(fs) > 1)
      /\ Tail(fs) = <<>> <=> Len(fs) = 1
      /\ Tail(fs) # <<>> => Tail(fs)[Len(Tail(fs))] = fs[Len(fs)] /\ Tail(fs)[1] = fs[2] /\ Len(fs) >= 2
  BY <1>1, <1>4, Popped
<1>6. f.orig \in SUBSET Sigs /\ Len(fs) \in Nat /\ r.depth \in Nat
  BY <1>4, <1>5 DEF SigFrames, SigRaises
<1>7. S.pending \in SUBSET Sigs /\ next \in SUBSET Nat /\ next \in SUBSET Sigs
  BY <1>4, SigsAssumption DEF SigStates
<1>71. next # {} => Min(next) \in next
  BY <1>7, Smallest
<1>8. /\ new \in SigStates /\ new.blocked = f.orig /\ new.pending = S.pending
      /\ new.actions = S.actions /\ new.set = S.set
      /\ new.lock = IF next = {} THEN Nobody ELSE t
  <2> HIDE DEF next
  <2> QED BY <1>1, <1>4, <1>6 DEF SigStates
<1>9. \A i \in 1..Len(fs) : fs[i].at = "handler"
  BY <1>1, <1>2, <1>5, <1>6 DEF ThreadOK, FramesOK
<1>91. Len(fs) = 1 => f.orig = m
  BY <1>1, <1>2, <1>5 DEF ThreadOK, FramesOK
<1>92. Len(fs) > 1 => fs[Len(fs)].orig = m
  BY <1>1, <1>2, <1>6, <1>9 DEF ThreadOK, FramesOK
<1>10. CASE next = {}
  <2>1. q = Tail(fs) /\ new.lock = Nobody
    BY <1>8, <1>10
  <2> HIDE DEF new, q
  <2>21. Len(q) = Len(fs) - 1 /\ (q = <<>> <=> Len(fs) = 1)
    BY <1>5, <2>1
  <2>22. \A i \in 1..Len(q) : q[i].at = "handler"
    BY <1>5, <1>6, <1>9, <2>1
  <2>2. /\ \A i \in 1..Len(q) : q[i].at = "handler"
        /\ Len(q) = Len(fs) - 1 /\ (q = <<>> <=> Len(fs) = 1)
    BY <2>21, <2>22
  <2>3. q # <<>> => q[Len(q)] = fs[Len(fs)] /\ q[1].at = "handler"
    BY <1>5, <1>6, <1>9, <2>1
  <2>4. FramesOK(t, new, q, m)
    <3>1. CASE q = <<>>
      <4>1. Len(fs) = 1 /\ Len(q) = 0
        BY <1>6, <2>2, <3>1
      <4>2. \A i \in 2..Len(q) : FALSE
        BY <4>1
      <4>3. new.blocked = m
        BY <1>8, <1>91, <4>1
      <4> HIDE DEF m
      <4> QED BY <2>1, <3>1, <4>2, <4>3, SigsAssumption DEF FramesOK
    <3>2. CASE q # <<>>
      <4>1. q[Len(q)].orig = m /\ q[Len(q)].at = "handler" /\ q[1].at = "handler"
        BY <1>5, <1>6, <1>9, <1>92, <2>2, <2>3, <3>2
      <4>2. \A i \in 2..Len(q) : q[i].at = "handler"
        BY <1>6, <2>2
      <4> QED BY <2>1, <3>2, <4>1, <4>2, SigsAssumption DEF FramesOK
    <3> QED BY <3>1, <3>2
  <2>5. RaiseOK(p, r, q)
    BY <1>1, <1>2, <1>6, <1>8, <2>2 DEF ThreadOK, RaiseOK
  <2>6. PendingOK(new, r, q)
    BY <1>2, <1>8, <1>10 DEF ThreadOK, PendingOK, IgnoredBy
  <2>7. Typed(lib.calls, lib.stopped, lib.sigwaiters, new, p, r, q, m)
    BY <1>2, <1>5, <1>8, <2>1 DEF Typed
  <2>8. ThreadOK(t, new, p, r, q, m) /\ ref' = [ref EXCEPT ![t] = m]
    BY <1>1, <1>2, <2>4, <2>5, <2>6 DEF ThreadOK
  <2> HIDE DEF p, r, m
  <2> QED BY <1>3, <2>7, <2>8, OneThread
<1>11. CASE next # {}
  <2>1. q = <<d>> \o Tail(fs) /\ new.lock = t
    BY <1>8, <1>11
  <2>11. d \in SigFrames /\ d.at = "dispatch" /\ d.signo = Min(next)
    BY <1>7, <1>71, <1>11 DEF DispatchFrame, SigFrames
  <2>12. d.signo \notin new.blocked
    BY <1>71, <1>8, <1>11, <2>11
  <2> HIDE DEF new, q, d
  <2>2. /\ q \in Seq(SigFrames) /\ q # <<>> /\ Len(q) = Len(Tail(fs)) + 1 /\ q[1] = d
        /\ \A i \in 2..Len(q) : q[i] = Tail(fs)[i - 1]
    BY <1>5, <2>1, <2>11, Pushed
  <2>3. Len(q) = Len(fs) /\ \A i \in 2..Len(q) : q[i] = fs[i] /\ q[i].at = "handler"
    BY <1>5, <1>6, <1>9, <2>2
  <2>4. FramesOK(t, new, q, m)
    <3>1. CASE Len(fs) = 1
      BY <1>8, <1>91, <2>1, <2>11, <2>12, <2>2, <2>3, <3>1 DEF FramesOK
    <3>2. CASE Len(fs) > 1
      <4>1. q[Len(q)].orig = m /\ q[Len(q)].at = "handler"
        BY <1>6, <1>92, <2>3, <3>2
      <4> QED BY <1>8, <2>1, <2>11, <2>12, <2>2, <2>3, <4>1 DEF FramesOK
    <3> QED BY <1>5, <3>1, <3>2
  <2>5. RaiseOK(p, r, q)
    BY <1>2, <1>8, <2>3 DEF ThreadOK, RaiseOK
  <2>6. PendingOK(new, r, q)
    BY <1>2, <1>8, <2>2 DEF ThreadOK, PendingOK, IgnoredBy
  <2>7. Typed(lib.calls, lib.stopped, lib.sigwaiters, new, p, r, q, m)
    BY <1>2, <1>8, <2>2 DEF Typed
  <2>8. ThreadOK(t, new, p, r, q, m) /\ ref' = [ref EXCEPT ![t] = m]
    BY <1>1, <1>2, <2>4, <2>5, <2>6 DEF ThreadOK
  <2> HIDE DEF p, r, m
  <2> QED BY <1>3, <2>7, <2>8, OneThread
<1> QED BY <1>10, <1>11

\* The caller is outside of handlers, or in the innermost one.
LEMMA CallFacts ==
  ASSUME SigInv, NEW t \in SigThreads, MayCall(t)
  PROVE  /\ lib.frames[t] # <<>> \/ lib.pc[t] = "run"
         /\ lib.raise[t] # NoRaise => lib.raise[t].depth < Len(lib.frames[t])
         /\ lib.frames[t] = <<>> => lib.raise[t] = NoRaise
<1>1. lib.raise[t] \in SigRaises /\ lib.frames[t] \in Seq(SigFrames)
  BY SigFacts DEF Typed
<1>2. lib.raise[t].depth \in Nat /\ (lib.frames[t] = <<>> => Len(lib.frames[t]) = 0)
  BY <1>1 DEF SigRaises
<1> QED BY <1>2 DEF MayCall, Idle, InHandler

LEMMA SigmaskStep ==
  ASSUME SigInv, NEW t \in SigThreads, NEW set \in SUBSET Sigs, Sigmask(t, set)
  PROVE  SigInv'
<1> DEFINE S == lib.ss[t]
           p == lib.pc[t]
           fs == lib.frames[t]
           c == lib.calls + 1
           extant == S.pending \ set
           r == IF extant = {} THEN NoRaise ELSE RaiseAt(Min(extant), Len(fs))
           new == [S EXCEPT !.blocked = set]
           m == IF fs # <<>> THEN ref[t] ELSE set
           L == Calls(lib)
<1>1. /\ MayCall(t) /\ S.lock = Nobody /\ lib.raise[t] = NoRaise
      /\ lib' = [[L EXCEPT !.ss[t].blocked = set] EXCEPT !.raise[t] = r]
      /\ ref' = IF fs # <<>> THEN ref ELSE [ref EXCEPT ![t] = set]
  BY DEF Sigmask, InHandler, Becomes
<1>2. /\ lib \in SigLib /\ Typed(lib.calls, lib.stopped, lib.sigwaiters, S, p, lib.raise[t], fs, ref[t])
      /\ ThreadOK(t, S, p, lib.raise[t], fs, ref[t]) /\ c \in Nat
      /\ lib.pc = [lib.pc EXCEPT ![t] = p] /\ lib.frames = [lib.frames EXCEPT ![t] = fs]
      /\ ref = [ref EXCEPT ![t] = ref[t]]
  BY SigFacts
<1>3. LibWith(lib', c, lib.stopped, lib.sigwaiters, t, new, p, r, fs)
  <2>1. LibIs(L, c, lib.stopped, lib.sigwaiters, lib.ss, lib.pc, lib.raise, lib.frames)
    BY CallsIs
  <2>2. lib' = [[L EXCEPT !.ss[t].blocked = set] EXCEPT !.raise[t] = r]
    BY <1>1
  <2> HIDE DEF L, r, c
  <2>3. LibIs(lib', c, lib.stopped, lib.sigwaiters, [lib.ss EXCEPT ![t] = new], lib.pc,
              [lib.raise EXCEPT ![t] = r], lib.frames)
    BY <2>1, <2>2 DEF LibIs
  <2> HIDE DEF new, p, fs
  <2> QED BY <1>2, <2>3 DEF LibWith
<1>4. S \in SigStates /\ fs \in Seq(SigFrames) /\ p \in SigPlaces /\ Len(fs) \in Nat
      /\ (Len(fs) = 0 <=> fs = <<>>)
  BY <1>2 DEF Typed
<1>5. /\ new \in SigStates /\ new.blocked = set /\ new.pending = S.pending
      /\ new.actions = S.actions /\ new.set = S.set /\ new.lock = Nobody
  BY <1>1, <1>4 DEF SigStates
<1>6. extant \in SUBSET Nat /\ extant \in SUBSET Sigs
  BY <1>4, SigsAssumption DEF SigStates
<1>7. extant # {} => Min(extant) \in extant
  <2> HIDE DEF extant
  <2> QED BY <1>6, Smallest
<1>8. /\ r \in SigRaises
      /\ extant # {} => r # NoRaise /\ r.signo \in extant /\ r.depth = Len(fs)
      /\ extant = {} => r = NoRaise
  <2>1. CASE extant = {}
    BY <2>1 DEF NoRaise, RaiseAt, NoSignal, SigRaises
  <2>2. CASE extant # {}
    <3>1. r = [signo |-> Min(extant), depth |-> Len(fs)]
      BY <2>2 DEF RaiseAt
    <3>2. Min(extant) \in extant /\ Min(extant) \in Nat /\ Min(extant) # 0
      BY <1>6, <1>7, <2>2, SigsAssumption
    <3> HIDE DEF extant, r
    <3>3. r.signo = Min(extant) /\ r.depth = Len(fs)
      BY <3>1
    <3>4. r # NoRaise
      BY <3>2, <3>3 DEF NoRaise, RaiseAt, NoSignal
    <3> QED BY <1>4, <3>1, <3>2, <3>3, <3>4, <2>2 DEF SigRaises
  <2> QED BY <2>1, <2>2
<1>9. fs # <<>> => fs[1].at # "dispatch"
  BY <1>1, <1>2, SigsAssumption DEF ThreadOK, FramesOK
<1>91. fs = <<>> => p = "run"
  BY <1>1, CallFacts
<1> HIDE DEF new, r
<1>10. FramesOK(t, new, fs, m)
  <2>1. CASE fs = <<>>
    BY <1>4, <1>5, <1>9, <2>1, SigsAssumption DEF FramesOK
  <2>2. CASE fs # <<>>
    <3>1. \A i \in 2..Len(fs) : fs[i].at = "handler"
      BY <1>2 DEF ThreadOK, FramesOK
    <3>2. fs[Len(fs)].at # "dispatch"
      BY <1>4, <1>9, <2>2, <3>1
    <3> QED BY <1>2, <1>5, <1>9, <2>2, <3>1, <3>2, SigsAssumption DEF ThreadOK, FramesOK
  <2> QED BY <2>1, <2>2
<1>11. RaiseOK(p, r, fs)
  BY <1>2, <1>4, <1>5, <1>6, <1>8, <1>91 DEF ThreadOK, RaiseOK
<1>12. PendingOK(new, r, fs)
  BY <1>2, <1>5, <1>8 DEF ThreadOK, PendingOK, IgnoredBy
<1>13. Typed(c, lib.stopped, lib.sigwaiters, new, p, r, fs, m)
  BY <1>2, <1>5, <1>8 DEF Typed
<1>14. ThreadOK(t, new, p, r, fs, m) /\ ref' = [ref EXCEPT ![t] = m]
  BY <1>1, <1>2, <1>10, <1>11, <1>12 DEF ThreadOK
<1> HIDE DEF p, m, c, fs
<1> QED BY <1>3, <1>13, <1>14, OneThread

LEMMA SigactionStep ==
  ASSUME SigInv, NEW t \in SigThreads, NEW s \in Sigs, NEW a \in Actions, Sigaction(t, s, a)
  PROVE  SigInv'
<1> DEFINE S == lib.ss[t]
           p == lib.pc[t]
           r == lib.raise[t]
           fs == lib.frames[t]
           m == ref[t]
           c == lib.calls + 1
           ignored == a = "ign" \/ (a = "dfl" /\ s \in IgnoredSigs)
           acts == [S.actions EXCEPT ![s] = a]
           x == IF ignored THEN S.pending \ {s} ELSE S.pending
           S1 == [S EXCEPT !.actions = acts]
           new == [S1 EXCEPT !.pending = x]
           L == Calls(lib)
<1>1. /\ MayCall(t) /\ S.lock = Nobody /\ ref' = ref
      /\ lib' = [[L EXCEPT !.ss[t].actions[s] = a] EXCEPT !.ss[t].pending = IF ignored THEN @ \ {s} ELSE @]
  BY DEF Sigaction, Becomes
<1>2. /\ lib \in SigLib /\ Typed(lib.calls, lib.stopped, lib.sigwaiters, S, p, r, fs, m)
      /\ ThreadOK(t, S, p, r, fs, m) /\ c \in Nat
      /\ lib.pc = [lib.pc EXCEPT ![t] = p] /\ lib.frames = [lib.frames EXCEPT ![t] = fs]
      /\ lib.raise = [lib.raise EXCEPT ![t] = r] /\ ref = [ref EXCEPT ![t] = m]
  BY SigFacts
<1>4. S \in SigStates
  BY <1>2 DEF Typed
<1>40. S1.pending = S.pending
  BY <1>4 DEF SigStates
<1>3. LibWith(lib', c, lib.stopped, lib.sigwaiters, t, new, p, r, fs)
  <2>1. LibIs(L, c, lib.stopped, lib.sigwaiters, lib.ss, lib.pc, lib.raise, lib.frames)
    BY CallsIs
  <2> DEFINE L1 == [L EXCEPT !.ss[t].actions[s] = a]
             ss1 == [lib.ss EXCEPT ![t] = S1]
  <2>2. lib' = [L1 EXCEPT !.ss[t].pending = IF ignored THEN @ \ {s} ELSE @]
    BY <1>1
  <2> HIDE DEF L, c, ignored
  <2>3. LibIs(L1, c, lib.stopped, lib.sigwaiters, ss1, lib.pc, lib.raise, lib.frames)
    BY <2>1 DEF LibIs
  <2>4. ss1[t] = S1 /\ [ss1 EXCEPT ![t] = new] = [lib.ss EXCEPT ![t] = new]
    <3> HIDE DEF S1, new
    <3> QED BY <1>2 DEF SigLib
  <2> HIDE DEF L1, ss1, S1
  <2>5. LibIs(lib', c, lib.stopped, lib.sigwaiters, [ss1 EXCEPT ![t] = new], lib.pc, lib.raise,
          lib.frames)
    BY <1>40, <2>2, <2>3, <2>4 DEF LibIs
  <2> HIDE DEF new, p, r, fs
  <2> QED BY <1>2, <2>4, <2>5 DEF LibWith
<1>5. /\ acts \in [Sigs -> Actions] /\ acts[s] = a
      /\ \A y \in Sigs : y # s => acts[y] = S.actions[y]
  BY <1>4 DEF SigStates
<1>6. x \in SUBSET Sigs
  BY <1>4 DEF SigStates
<1> HIDE DEF acts, x
<1>7. /\ new \in SigStates /\ new.blocked = S.blocked /\ new.pending = x
      /\ new.actions = acts /\ new.set = S.set /\ new.lock = S.lock
  BY <1>4, <1>5, <1>6 DEF SigStates
<1> HIDE DEF new, S1
<1>8. fs = <<>> => r = NoRaise
  BY <1>1, CallFacts
<1>10. FramesOK(t, new, fs, m)
  BY <1>1, <1>2, <1>7 DEF ThreadOK, FramesOK
<1>11. RaiseOK(p, r, fs)
  BY <1>2, <1>7 DEF ThreadOK, RaiseOK
<1>12. PendingOK(new, r, fs)
  <2>1. ASSUME NEW y \in x PROVE ~IgnoredBy(new, y)
    <3>1. y \in Sigs /\ y \in S.pending
      BY <1>4, <1>6 DEF x
    <3>2. CASE y = s
      BY <1>5, <1>7, <3>2 DEF IgnoredBy, x
    <3>3. CASE y # s
      BY <1>2, <1>5, <1>7, <3>1, <3>3 DEF ThreadOK, PendingOK, IgnoredBy
    <3> QED BY <3>2, <3>3
  <2>2. x \subseteq S.pending
    BY DEF x
  <2> QED BY <1>2, <1>7, <1>8, <2>1, <2>2 DEF ThreadOK, PendingOK
<1>13. Typed(c, lib.stopped, lib.sigwaiters, new, p, r, fs, m)
  BY <1>2, <1>7 DEF Typed
<1>14. ThreadOK(t, new, p, r, fs, m) /\ ref' = [ref EXCEPT ![t] = m]
  BY <1>1, <1>2, <1>10, <1>11, <1>12 DEF ThreadOK
<1> HIDE DEF p, m, c, r, fs
<1> QED BY <1>3, <1>13, <1>14, OneThread

LEMMA SigwaitStep ==
  ASSUME SigInv, NEW t \in SigThreads, NEW set \in SUBSET Sigs, Sigwait(t, set)
  PROVE  SigInv'
<1> DEFINE S == lib.ss[t]
           p == lib.pc[t]
           r == lib.raise[t]
           fs == lib.frames[t]
           m == ref[t]
           c == lib.calls + 1
           w == lib.sigwaiters
           extant == S.pending \cap set
           y == Max(extant)
           L == Calls(lib)
<1>1. /\ MayCall(t) /\ fs = <<>> /\ S.lock = Nobody /\ ref' = ref
      /\ lib' = IF extant # {} THEN [L EXCEPT !.ss[t].pending = @ \ {y}]
                ELSE IF Dead(w.head) \/ (w.head # Nobody /\ w.prev[w.head] # Nobody) THEN ProgramLost
                ELSE [L EXCEPT !.ss[t].set = set, !.ss[t].info = NoSignal, !.pc[t] = "sigwait",
                               !.sigwaiters = WaiterOn(@, t)]
  BY DEF Sigwait, InHandler, Becomes
<1>2. /\ lib \in SigLib /\ Typed(lib.calls, lib.stopped, w, S, p, r, fs, m)
      /\ ThreadOK(t, S, p, r, fs, m) /\ c \in Nat
      /\ lib.pc = [lib.pc EXCEPT ![t] = p] /\ lib.frames = [lib.frames EXCEPT ![t] = fs]
      /\ lib.raise = [lib.raise EXCEPT ![t] = r] /\ ref = [ref EXCEPT ![t] = m]
  BY SigFacts
<1>3. LibIs(L, c, lib.stopped, w, lib.ss, lib.pc, lib.raise, lib.frames)
  BY CallsIs
<1>4. S \in SigStates /\ w \in SigLists
  BY <1>2 DEF Typed
<1>5. r = NoRaise
  BY <1>1, CallFacts
<1> HIDE DEF L, c
<1>6. CASE extant # {}
  <2> DEFINE new == [S EXCEPT !.pending = @ \ {y}]
  <2>1. lib' = [L EXCEPT !.ss[t].pending = @ \ {y}]
    BY <1>1, <1>6
  <2> HIDE DEF y, extant
  <2>2. /\ new \in SigStates /\ new.blocked = S.blocked /\ new.pending = S.pending \ {y}
        /\ new.actions = S.actions /\ new.set = S.set /\ new.lock = S.lock
    BY <1>4 DEF SigStates
  <2>3. LibIs(lib', c, lib.stopped, w, [lib.ss EXCEPT ![t] = new], lib.pc, lib.raise, lib.frames)
    BY <1>3, <2>1 DEF LibIs
  <2> HIDE DEF new
  <2>4. FramesOK(t, new, fs, m)
    BY <1>1, <1>2, <2>2 DEF ThreadOK, FramesOK
  <2>5. RaiseOK(p, r, fs)
    BY <1>2, <2>2 DEF ThreadOK, RaiseOK
  <2>6. PendingOK(new, r, fs)
    BY <1>2, <1>5, <2>2 DEF ThreadOK, PendingOK, IgnoredBy
  <2>7. Typed(c, lib.stopped, w, new, p, r, fs, m)
    BY <1>2, <2>2 DEF Typed
  <2>8. ThreadOK(t, new, p, r, fs, m) /\ ref' = [ref EXCEPT ![t] = m]
    BY <1>1, <1>2, <2>4, <2>5, <2>6 DEF ThreadOK
  <2> HIDE DEF p, r, fs, w, m
  <2>9. LibWith(lib', c, lib.stopped, w, t, new, p, r, fs)
    BY <1>2, <2>3 DEF LibWith
  <2> QED BY <2>7, <2>8, <2>9, OneThread
<1>70. CASE lib' = ProgramLost
  BY <1>1, <1>70, LostStep
<1>7. CASE extant = {} /\ lib' # ProgramLost
  <2> DEFINE S1 == [S EXCEPT !.set = set]
             new == [S1 EXCEPT !.info = NoSignal]
             ss1 == [lib.ss EXCEPT ![t] = S1]
             w1 == WaiterOn(w, t)
             p1 == "sigwait"
  <2>1. lib' = [L EXCEPT !.ss[t].set = set, !.ss[t].info = NoSignal, !.pc[t] = "sigwait",
                         !.sigwaiters = WaiterOn(@, t)]
    BY <1>1, <1>7
  <2>2. /\ new \in SigStates /\ new.blocked = S.blocked /\ new.pending = S.pending
        /\ new.actions = S.actions /\ new.set = set /\ new.lock = S.lock
    BY <1>4 DEF SigStates, NoSignal
  <2>21. ss1[t] = S1 /\ [ss1 EXCEPT ![t] = new] = [lib.ss EXCEPT ![t] = new]
    <3> HIDE DEF S1, new
    <3> QED BY <1>2 DEF SigLib
  <2>3. LibIs(lib', c, lib.stopped, w1, [ss1 EXCEPT ![t] = new], [lib.pc EXCEPT ![t] = p1], lib.raise,
              lib.frames)
    BY <1>3, <2>1, <2>21 DEF LibIs
  <2> HIDE DEF new
  <2>4. FramesOK(t, new, fs, m)
    BY <1>1, <1>2, <2>2 DEF ThreadOK, FramesOK
  <2>5. RaiseOK(p1, r, fs)
    BY <1>5 DEF RaiseOK
  <2>6. PendingOK(new, r, fs)
    BY <1>2, <1>5, <2>2 DEF ThreadOK, PendingOK, IgnoredBy
  <2>61. w1 \in SigLists
    BY <1>4, WaitersTyped
  <2>7. Typed(c, lib.stopped, w1, new, p1, r, fs, m)
    BY <1>2, <2>2, <2>61 DEF Typed, SigPlaces
  <2>8. ThreadOK(t, new, p1, r, fs, m) /\ ref' = [ref EXCEPT ![t] = m]
    BY <1>1, <1>2, <2>4, <2>5, <2>6 DEF ThreadOK
  <2> HIDE DEF p1, r, fs, w, w1, m, ss1
  <2>9. LibWith(lib', c, lib.stopped, w1, t, new, p1, r, fs)
    BY <1>2, <2>21, <2>3 DEF LibWith
  <2> QED BY <2>7, <2>8, <2>9, OneThread
<1> QED BY <1>6, <1>7, <1>70

LEMMA SigwaitReturnsStep ==
  ASSUME SigInv, NEW t \in SigThreads, SigwaitReturns(t)
  PROVE  SigInv'
<1> DEFINE S == lib.ss[t]
           p == lib.pc[t]
           r == lib.raise[t]
           fs == lib.frames[t]
           m == ref[t]
           w == lib.sigwaiters
           p1 == "run"
<1>1. /\ fs = <<>> /\ p # "run" /\ ref' = ref
      /\ \/ lib' = [lib EXCEPT !.ss[t].set = {}, !.pc[t] = "run", !.stopped = S.info = NoSignal]
         \/ lib' = [lib EXCEPT !.pc[t] = "run"]
  BY DEF SigwaitReturns, InHandler, Becomes
<1>2. /\ lib \in SigLib /\ Typed(lib.calls, lib.stopped, w, S, p, r, fs, m)
      /\ ThreadOK(t, S, p, r, fs, m)
      /\ lib.frames = [lib.frames EXCEPT ![t] = fs]
      /\ lib.raise = [lib.raise EXCEPT ![t] = r] /\ ref = [ref EXCEPT ![t] = m]
  BY SigFacts
<1>4. S \in SigStates /\ r \in SigRaises
  BY <1>2 DEF Typed
<1> DEFINE Cleared == [S EXCEPT !.set = {}]
           Is(x, y) == LibIs(lib', lib.calls, y, w, [lib.ss EXCEPT ![t] = x],
                             [lib.pc EXCEPT ![t] = p1], lib.raise, lib.frames)
<1>40. lib.ss = [lib.ss EXCEPT ![t] = S] /\ lib.stopped \in BOOLEAN
  BY <1>2 DEF SigLib
<1>3. Is(Cleared, S.info = NoSignal) \/ Is(S, lib.stopped)
  <2>1. CASE lib' = [lib EXCEPT !.ss[t].set = {}, !.pc[t] = "run", !.stopped = S.info = NoSignal]
    BY <1>2, <2>1 DEF LibIs, SigLib
  <2>2. CASE lib' = [lib EXCEPT !.pc[t] = "run"]
    BY <1>2, <1>40, <2>2 DEF LibIs, SigLib
  <2> QED BY <1>1, <2>1, <2>2
<1>31. PICK new \in {S, Cleared}, stop \in BOOLEAN : Is(new, stop)
  <2>1. (S.info = NoSignal) \in BOOLEAN
    OBVIOUS
  <2> HIDE DEF Is
  <2> QED BY <1>3, <1>40, <2>1
<1>5. /\ new \in SigStates /\ new.blocked = S.blocked /\ new.pending = S.pending
      /\ new.actions = S.actions /\ new.lock = S.lock /\ new.sent = S.sent
  BY <1>4, <1>31 DEF SigStates
<1>6. FramesOK(t, new, fs, m)
  BY <1>2, <1>5 DEF ThreadOK, FramesOK
<1>7. RaiseOK(p1, r, fs)
  BY <1>2, <1>5 DEF ThreadOK, RaiseOK
<1>8. PendingOK(new, r, fs)
  BY <1>2, <1>5 DEF ThreadOK, PendingOK, IgnoredBy
<1>9. Typed(lib.calls, stop, w, new, p1, r, fs, m)
  BY <1>2, <1>31, <1>5 DEF Typed, SigPlaces
<1>10. ThreadOK(t, new, p1, r, fs, m) /\ ref' = [ref EXCEPT ![t] = m]
  BY <1>1, <1>2, <1>6, <1>7, <1>8 DEF ThreadOK
<1> HIDE DEF p1, r, fs, w, m
<1>11. LibWith(lib', lib.calls, stop, w, t, new, p1, r, fs)
  BY <1>2, <1>31 DEF LibWith
<1> QED BY <1>9, <1>10, <1>11, OneThread

LEMMA SigInitInv == SigInit => SigInv
<1> SUFFICES ASSUME SigInit PROVE SigInv
  OBVIOUS
<1> DEFINE S == [lock |-> Nobody, pending |-> {}, blocked |-> {}, actions |-> [s \in Sigs |-> "handler"],
                 set |-> {}, info |-> NoSignal, sent |-> NoRaise]
           W == [head |-> Nobody, next |-> [t \in SigThreads |-> Nobody],
                 prev |-> [t \in SigThreads |-> Nobody]]
<1>1. S \in SigStates /\ NoRaise \in SigRaises /\ W \in SigLists
  BY DEF SigStates, Actions, NoSignal, NoRaise, RaiseAt, SigRaises, SigLists, SigLinks
<1>2. /\ S.lock = Nobody /\ S.pending = {} /\ S.blocked = {}
  OBVIOUS
<1>3. lib = [kind |-> SigKind, calls |-> 0, stopped |-> FALSE, sigwaiters |-> W,
             ss |-> [t \in SigThreads |-> S], pc |-> [t \in SigThreads |-> "run"],
             raise |-> [t \in SigThreads |-> NoRaise], frames |-> [t \in SigThreads |-> <<>>]]
      /\ ref = [t \in SigThreads |-> {}]
  BY DEF SigInit
<1> HIDE DEF S, W
<1>31. <<>> \in Seq(SigFrames) /\ Len(<<>>) = 0
  OBVIOUS
<1>4. SigTypeOK
  BY <1>1, <1>3, <1>31 DEF SigTypeOK, SigLib, SigPlaces
<1>5. ASSUME NEW t \in SigThreads
      PROVE ThreadOK(t, lib.ss[t], lib.pc[t], lib.raise[t], lib.frames[t], ref[t])
  <2>1. lib.ss[t] = S /\ lib.pc[t] = "run" /\ lib.raise[t] = NoRaise /\ lib.frames[t] = <<>>
          /\ ref[t] = {}
    BY <1>3
  <2>2. ThreadOK(t, S, "run", NoRaise, <<>>, {})
    BY <1>2, <1>31, SigsAssumption DEF ThreadOK, FramesOK, RaiseOK, PendingOK
  <2> QED BY <2>1, <2>2
<1> QED BY <1>4, <1>5 DEF SigInv

LEMMA SigStepInv == SigInv /\ [SigNext]_vars => SigInv'
<1>1. ASSUME SigInv, SigNext PROVE SigInv'
  <2>1. PICK t \in SigThreads :
          \/ \E u \in SigThreads, s \in Sigs : PthreadKill(t, u, s)
          \/ \E u \in SigThreads : Deliver(t, u)
          \/ \E s \in Sigs : Kill(t, s)
          \/ Dispatch(t) \/ HandlerReturns(t)
          \/ \E set \in SUBSET Sigs : Sigmask(t, set)
          \/ Raise(t)
          \/ \E s \in Sigs, a \in Actions : Sigaction(t, s, a)
          \/ \E set \in SUBSET Sigs : Sigwait(t, set)
          \/ SigwaitReturns(t)
    BY <1>1 DEF SigNext
  <2> QED BY <1>1, <2>1, PthreadKillStep, DeliverStep, KillProcessStep, DispatchStep, HandlerReturnsStep, SigmaskStep,
             RaiseStep, SigactionStep, SigwaitStep, SigwaitReturnsStep
<1>2. ASSUME SigInv, UNCHANGED vars PROVE SigInv'
  BY <1>2 DEF SigInv, SigTypeOK, vars
<1> QED BY <1>1, <1>2

LEMMA SigInvHonours == SigInv => SignalsHonoured
<1> SUFFICES ASSUME SigInv, NEW t \in SigThreads
             PROVE  /\ InHandler(t) /\ Head(lib.frames[t]).at = "dispatch" =>
                          lib.ss[t].lock = t /\ Head(lib.frames[t]).signo \notin lib.ss[t].blocked
                    /\ ~InHandler(t) =>
                          /\ lib.ss[t].blocked = ref[t]
                          /\ lib.ss[t].pending \subseteq lib.ss[t].blocked \/ lib.raise[t] # NoRaise
  BY DEF SignalsHonoured
<1>1. lib.frames[t] \in Seq(SigFrames) /\ ThreadOK(t, lib.ss[t], lib.pc[t], lib.raise[t],
        lib.frames[t], ref[t])
  BY SigFacts DEF Typed
<1>2. lib.frames[t] # <<>> => Head(lib.frames[t]) = lib.frames[t][1]
  BY <1>1
<1> QED BY <1>1, <1>2 DEF InHandler, ThreadOK, FramesOK, PendingOK

\* pthread_kill, raise, sigaction, pthread_sigmask, sigwaitinfo and
\* signal_dispatch, by any number of threads, for any signals and however
\* deeply handlers are nested: a blocked signal is not delivered, the handlers
\* leave a thread with the mask that it set, and what stays pending is blocked
\* or about to be raised.
THEOREM SignalsAreHonoured == SigSpec => []SignalsHonoured
BY SigInitInv, SigStepInv, SigInvHonours, PTL DEF SigSpec

(***************************************************************************)
(* Activations.                                                            *)
(***************************************************************************)
Labels == {"body", "push", "release", "pop"}
ActPlaces == [id : Nat, label : Labels \cup EntryLabels]
ActFrames == [at : ActPlaces, regs : Nat, utcb : Nat]
ActPages == [activated : BOOLEAN, transition : BOOLEAN, saved : ActPlaces, stackfault : BOOLEAN]
ActLib ==
    [kind : {ActKind}, cpu : ActFrames, page : ActPages, area : Nat, frames : Seq(ActFrames),
     mine : [1..MaxContexts -> Nat], pushed : [1..MaxContexts -> ActFrames], hung : BOOLEAN]

\* The handlers that have not released their frames, and what is to be
\* restored when handler i returns.
Kept(r, i) == {j \in 1..i : r[j + 1] # "pop"}
Saved(r, i) == [at |-> Context(i - 1, r[i]), regs |-> i - 1, utcb |-> UtcbOf(r, i - 1)]

\* The stack of frames F belongs to the handlers on r.
StackOK(r, F, mine, pushed) ==
    /\ Len(F) = Cardinality(Kept(r, Len(r) - 1))
    /\ \A i \in 1..(Len(r) - 1) :
          /\ r[i + 1] # "pop" => mine[i] = Cardinality(Kept(r, i)) /\ F[mine[i]] = Saved(r, i)
          /\ r[i + 1] \in {"release", "pop"} => pushed[i] = Saved(r, i)

LEMMA KeptFinite ==
  ASSUME NEW r, NEW i \in Nat
  PROVE  IsFiniteSet(Kept(r, i)) /\ Cardinality(Kept(r, i)) \in Nat
<1>1. IsFiniteSet(1..i)
  BY FS_Interval
<1>2. Kept(r, i) \subseteq 1..i
  BY DEF Kept
<1> QED BY <1>1, <1>2, FS_Subset, FS_CardinalityType

LEMMA KeptNext ==
  ASSUME NEW r, NEW i \in Nat, i > 0
  PROVE  /\ r[i + 1] = "pop" => Kept(r, i) = Kept(r, i - 1)
         /\ r[i + 1] # "pop" => Cardinality(Kept(r, i)) = Cardinality(Kept(r, i - 1)) + 1
<1>1. r[i + 1] = "pop" => Kept(r, i) = Kept(r, i - 1)
  BY DEF Kept
<1>2. ASSUME r[i + 1] # "pop" PROVE Cardinality(Kept(r, i)) = Cardinality(Kept(r, i - 1)) + 1
  <2>1. Kept(r, i) = Kept(r, i - 1) \cup {i} /\ i \notin Kept(r, i - 1)
    BY <1>2 DEF Kept
  <2>2. IsFiniteSet(Kept(r, i - 1))
    BY KeptFinite
  <2> QED BY <2>1, <2>2, FS_AddElement
<1> QED BY <1>1, <1>2

LEMMA KeptSame ==
  ASSUME NEW r, NEW q, NEW i \in Nat, \A j \in 1..i : r[j + 1] = "pop" <=> q[j + 1] = "pop"
  PROVE  Kept(r, i) = Kept(q, i)
BY DEF Kept

LEMMA KeptGrows ==
  ASSUME NEW r, NEW i \in Nat, NEW k \in Nat, i <= k
  PROVE  Cardinality(Kept(r, i)) <= Cardinality(Kept(r, k))
<1>1. Kept(r, i) \subseteq Kept(r, k)
  BY DEF Kept
<1>2. IsFiniteSet(Kept(r, k))
  BY KeptFinite
<1> QED BY <1>1, <1>2, FS_Subset

LEMMA UtcbOwn ==
  ASSUME NEW r, NEW i \in Nat, r[i + 1] = "body"
  PROVE  UtcbOf(r, i) = i
<1> DEFINE B == {j \in 0..i : r[j + 1] = "body"}
<1>1. i \in B /\ \A y \in B : i >= y
  OBVIOUS
<1>2. \A x \in B : (\A y \in B : x >= y) => x = i
  BY <1>1
<1> HIDE DEF B
<1>3. Max(B) = i
  BY <1>1, <1>2 DEF Max
<1> QED BY <1>3 DEF UtcbOf, B

LEMMA UtcbSame ==
  ASSUME NEW r, NEW q, NEW i \in Nat, \A j \in 1..(i + 1) : r[j] = q[j]
  PROVE  UtcbOf(r, i) = UtcbOf(q, i)
<1>1. {j \in 0..i : r[j + 1] = "body"} = {j \in 0..i : q[j + 1] = "body"}
  OBVIOUS
<1> QED BY <1>1 DEF UtcbOf

LEMMA UtcbBelow ==
  ASSUME NEW r, NEW i \in Nat, i > 0, r[i + 1] # "body"
  PROVE  UtcbOf(r, i) = UtcbOf(r, i - 1)
<1>1. {j \in 0..i : r[j + 1] = "body"} = {j \in 0..(i - 1) : r[j + 1] = "body"}
  OBVIOUS
<1> QED BY <1>1 DEF UtcbOf

LEMMA SavedSame ==
  ASSUME NEW r, NEW q, NEW i \in Nat, i > 0, \A j \in 1..i : r[j] = q[j]
  PROVE  Saved(r, i) = Saved(q, i)
<1>1. UtcbOf(r, i - 1) = UtcbOf(q, i - 1)
  <2>1. i - 1 \in Nat /\ (i - 1) + 1 = i
    OBVIOUS
  <2> QED BY <2>1, UtcbSame
<1>2. r[i] = q[i]
  OBVIOUS
<1> QED BY <1>1, <1>2 DEF Saved

\* The place of a handler's frame is one of the stack.
LEMMA StackRange ==
  ASSUME NEW r \in Seq(Labels), NEW F, NEW mine, NEW pushed, Len(r) > 0, StackOK(r, F, mine, pushed),
         NEW i \in 1..(Len(r) - 1), r[i + 1] # "pop"
  PROVE  /\ mine[i] \in Nat /\ 1 <= mine[i] /\ mine[i] <= Len(F) /\ Len(F) \in Nat
         /\ mine[i] = Cardinality(Kept(r, i - 1)) + 1
<1>1. i \in Nat /\ i > 0 /\ i - 1 \in Nat /\ Len(r) - 1 \in Nat /\ i <= Len(r) - 1
  OBVIOUS
<1>2. mine[i] = Cardinality(Kept(r, i)) /\ Len(F) = Cardinality(Kept(r, Len(r) - 1))
  BY DEF StackOK
<1>3. mine[i] = Cardinality(Kept(r, i - 1)) + 1
  BY <1>1, <1>2, KeptNext
<1>4. Cardinality(Kept(r, i - 1)) \in Nat /\ Len(F) \in Nat
  BY <1>1, <1>2, KeptFinite
<1>5. mine[i] <= Len(F)
  BY <1>1, <1>2, KeptGrows
<1> QED BY <1>3, <1>4, <1>5

\* exception_frame_run: a handler with its frame.
LEMMA StackPush ==
  ASSUME NEW r \in Seq(Labels), NEW F \in Seq(ActFrames), NEW mine \in [1..MaxContexts -> Nat],
         NEW pushed,
         Len(r) > 0, Len(r) <= MaxContexts, StackOK(r, F, mine, pushed),
         NEW f \in ActFrames, f = Saved(r, Len(r))
  PROVE  StackOK(Append(r, "body"), Append(F, f), [mine EXCEPT ![Len(r)] = Len(F) + 1], pushed)
<1> DEFINE q == Append(r, "body")
           G == Append(F, f)
           own == [mine EXCEPT ![Len(r)] = Len(F) + 1]
           n == Len(r)
<1>1. /\ n \in Nat /\ n > 0 /\ n - 1 \in Nat /\ Len(q) = n + 1 /\ q[n + 1] = "body"
      /\ \A j \in 1..n : q[j] = r[j]
  OBVIOUS
<1>2. Len(G) = Len(F) + 1 /\ G[Len(F) + 1] = f /\ Len(F) \in Nat /\ \A j \in 1..Len(F) : G[j] = F[j]
  OBVIOUS
<1>3. own[n] = Len(F) + 1 /\ \A j \in 1..(n - 1) : own[j] = mine[j]
  BY <1>1, ContextsAssumption
<1> HIDE DEF q, G, own, n
<1>4. \A i \in 0..(n - 1) : Kept(q, i) = Kept(r, i)
  <2> SUFFICES ASSUME NEW i \in 0..(n - 1) PROVE Kept(q, i) = Kept(r, i)
    OBVIOUS
  <2>1. i \in Nat /\ \A j \in 1..i : j + 1 \in 1..n
    BY <1>1
  <2>2. \A j \in 1..i : q[j + 1] = r[j + 1]
    BY <1>1, <2>1
  <2> QED BY <2>1, <2>2, KeptSame
<1>5. Cardinality(Kept(q, n)) = Len(F) + 1
  <2>1. Cardinality(Kept(q, n)) = Cardinality(Kept(q, n - 1)) + 1
    BY <1>1, KeptNext
  <2>2. Kept(q, n - 1) = Kept(r, n - 1)
    BY <1>1, <1>4
  <2>3. Len(F) = Cardinality(Kept(r, n - 1))
    BY DEF StackOK, n
  <2> QED BY <2>1, <2>2, <2>3
<1>6. ASSUME NEW i \in 1..n
      PROVE /\ q[i + 1] # "pop" => own[i] = Cardinality(Kept(q, i)) /\ G[own[i]] = Saved(q, i)
            /\ q[i + 1] \in {"release", "pop"} => pushed[i] = Saved(q, i)
  <2>1. Saved(q, i) = Saved(r, i)
    <3>1. i \in Nat /\ i > 0 /\ \A j \in 1..i : q[j] = r[j]
      BY <1>1
    <3> QED BY <3>1, SavedSame
  <2>2. CASE i = n
    <3>1. q[i + 1] = "body"
      BY <1>1, <2>2
    <3>2. own[i] = Len(F) + 1 /\ f = Saved(r, i)
      BY <1>3, <2>2 DEF n
    <3> QED BY <1>2, <1>5, <2>1, <2>2, <3>1, <3>2
  <2>3. CASE i # n
    <3>1. i \in 1..(n - 1) /\ i \in 0..(n - 1) /\ i + 1 \in 1..n
      BY <1>1, <2>3
    <3>2. q[i + 1] = r[i + 1] /\ own[i] = mine[i] /\ Kept(q, i) = Kept(r, i)
      BY <1>1, <1>3, <1>4, <3>1
    <3>3. i \in 1..(Len(r) - 1)
      BY <3>1 DEF n
    <3>4. ASSUME r[i + 1] # "pop" PROVE mine[i] \in 1..Len(F)
      <4>1. mine[i] \in Nat /\ 1 <= mine[i] /\ mine[i] <= Len(F)
        BY <3>3, <3>4, <1>1, StackRange DEF n
      <4> QED BY <1>2, <4>1
    <3>5. r[i + 1] # "pop" => G[mine[i]] = F[mine[i]]
      BY <1>2, <3>4
    <3> QED BY <2>1, <3>2, <3>3, <3>5 DEF StackOK
  <2> QED BY <2>2, <2>3
<1>7. Len(q) - 1 = n
  BY <1>1
<1> QED BY <1>2, <1>5, <1>6, <1>7 DEF StackOK, q, G, own, n

\* A handler goes on, and has pushed what its frame holds.
LEMMA StackMove ==
  ASSUME NEW r \in Seq(Labels), NEW q \in Seq(Labels), NEW F, NEW mine, NEW pushed, NEW pushed1,
         Len(r) > 1, StackOK(r, F, mine, pushed), Len(q) = Len(r),
         \A j \in 1..(Len(r) - 1) : q[j] = r[j],
         r[Len(r)] # "pop", q[Len(r)] # "pop",
         \A j \in 1..(Len(r) - 2) : pushed1[j] = pushed[j],
         q[Len(r)] = "release" => pushed1[Len(r) - 1] = F[mine[Len(r) - 1]]
  PROVE  StackOK(q, F, mine, pushed1)
<1> DEFINE n == Len(r) - 1
<1>1. n \in Nat /\ n > 0 /\ Len(r) = n + 1
  OBVIOUS
<1>2. \A j \in 1..n : (q[j + 1] = "pop" <=> r[j + 1] = "pop") /\ (j # n => q[j + 1] = r[j + 1])
  OBVIOUS
<1>20. (\A j \in 1..n : q[j] = r[j]) /\ (\A j \in 1..(n - 1) : pushed1[j] = pushed[j])
  OBVIOUS
<1>21. q[n + 1] = "release" => pushed1[n] = F[mine[n]]
  BY <1>1
<1>22. q[n + 1] # "pop" /\ r[n + 1] # "pop"
  BY <1>1
<1>23. Len(q) - 1 = n
  OBVIOUS
<1>24. \A i \in 1..n :
          /\ r[i + 1] # "pop" => mine[i] = Cardinality(Kept(r, i)) /\ F[mine[i]] = Saved(r, i)
          /\ r[i + 1] \in {"release", "pop"} => pushed[i] = Saved(r, i)
  BY DEF StackOK
<1>25. Len(F) = Cardinality(Kept(r, n))
  BY DEF StackOK
<1> HIDE DEF n
<1>3. \A i \in 0..n : Kept(q, i) = Kept(r, i)
  <2> SUFFICES ASSUME NEW i \in 0..n PROVE Kept(q, i) = Kept(r, i)
    OBVIOUS
  <2>1. i \in Nat /\ \A j \in 1..i : q[j + 1] = "pop" <=> r[j + 1] = "pop"
    BY <1>1, <1>2
  <2> QED BY <2>1, KeptSame
<1>4. ASSUME NEW i \in 1..n
      PROVE /\ q[i + 1] # "pop" => mine[i] = Cardinality(Kept(q, i)) /\ F[mine[i]] = Saved(q, i)
            /\ q[i + 1] \in {"release", "pop"} => pushed1[i] = Saved(q, i)
  <2>1. Saved(q, i) = Saved(r, i)
    <3>1. i \in Nat /\ i > 0 /\ \A j \in 1..i : q[j] = r[j]
      BY <1>1, <1>20
    <3> QED BY <3>1, SavedSame
  <2>2. Kept(q, i) = Kept(r, i)
    BY <1>1, <1>3
  <2>3. q[i + 1] # "pop" => mine[i] = Cardinality(Kept(q, i)) /\ F[mine[i]] = Saved(q, i)
    BY <1>2, <1>24, <2>1, <2>2
  <2>4. CASE i = n
    BY <1>21, <1>22, <2>3, <2>4
  <2>5. CASE i # n
    <3>1. q[i + 1] = r[i + 1] /\ pushed1[i] = pushed[i]
      BY <1>1, <1>2, <1>20, <2>5
    <3> QED BY <1>24, <2>1, <2>3, <3>1
  <2> QED BY <2>4, <2>5
<1>5. Len(F) = Cardinality(Kept(q, n))
  BY <1>1, <1>25, <1>3
<1> QED BY <1>23, <1>4, <1>5 DEF StackOK

\* exception_frame_release: the frames from the handler's own on are free.
LEMMA StackRelease ==
  ASSUME NEW r \in Seq(Labels), NEW q \in Seq(Labels), NEW F \in Seq(ActFrames), NEW mine, NEW pushed,
         Len(r) > 1, StackOK(r, F, mine, pushed), Len(q) = Len(r),
         \A j \in 1..(Len(r) - 1) : q[j] = r[j],
         r[Len(r)] = "release", q[Len(r)] = "pop"
  PROVE  StackOK(q, SubSeq(F, 1, mine[Len(r) - 1] - 1), mine, pushed)
<1> DEFINE n == Len(r) - 1
           k == mine[n] - 1
           G == SubSeq(F, 1, k)
<1>1. n \in Nat /\ n > 0 /\ Len(r) = n + 1 /\ n - 1 \in Nat
  OBVIOUS
<1>2. \A j \in 1..n : j # n => q[j + 1] = r[j + 1]
  OBVIOUS
<1>20. \A j \in 1..n : q[j] = r[j]
  OBVIOUS
<1>22. q[n + 1] = "pop" /\ r[n + 1] = "release"
  BY <1>1
<1>23. Len(q) - 1 = n
  OBVIOUS
<1>24. \A i \in 1..n :
          /\ r[i + 1] # "pop" => mine[i] = Cardinality(Kept(r, i)) /\ F[mine[i]] = Saved(r, i)
          /\ r[i + 1] \in {"release", "pop"} => pushed[i] = Saved(r, i)
  BY DEF StackOK
<1>25. k \in Nat /\ k <= Len(F) /\ k = Cardinality(Kept(r, n - 1))
  <2>1. n \in 1..(Len(r) - 1)
    BY <1>1
  <2>2. /\ mine[n] \in Nat /\ 1 <= mine[n] /\ mine[n] <= Len(F) /\ Len(F) \in Nat
        /\ mine[n] = Cardinality(Kept(r, n - 1)) + 1
    BY <1>1, <1>22, <2>1, StackRange
  <2>3. Cardinality(Kept(r, n - 1)) \in Nat
    BY <1>1, KeptFinite
  <2> QED BY <2>2, <2>3
<1> HIDE DEF n, k
<1>26. Len(G) = k /\ \A j \in 1..k : G[j] = F[j]
  BY <1>25
<1> HIDE DEF G
<1>3. \A i \in 0..(n - 1) : Kept(q, i) = Kept(r, i)
  <2> SUFFICES ASSUME NEW i \in 0..(n - 1) PROVE Kept(q, i) = Kept(r, i)
    OBVIOUS
  <2>1. i \in Nat /\ \A j \in 1..i : q[j + 1] = r[j + 1]
    BY <1>1, <1>2
  <2> QED BY <2>1, KeptSame
<1>4. ASSUME NEW i \in 1..n
      PROVE /\ q[i + 1] # "pop" => mine[i] = Cardinality(Kept(q, i)) /\ G[mine[i]] = Saved(q, i)
            /\ q[i + 1] \in {"release", "pop"} => pushed[i] = Saved(q, i)
  <2>1. Saved(q, i) = Saved(r, i)
    <3>1. i \in Nat /\ i > 0 /\ \A j \in 1..i : q[j] = r[j]
      BY <1>1, <1>20
    <3> QED BY <3>1, SavedSame
  <2>4. CASE i = n
    BY <1>22, <1>24, <2>1, <2>4
  <2>5. CASE i # n
    <3>1. q[i + 1] = r[i + 1] /\ i \in 0..(n - 1) /\ i <= n - 1 /\ i \in Nat
      BY <1>1, <1>2, <2>5
    <3>2. Kept(q, i) = Kept(r, i)
      BY <1>3, <3>1
    <3>3. ASSUME r[i + 1] # "pop" PROVE mine[i] \in 1..k
      <4>1. i \in 1..(Len(r) - 1)
        BY <1>1
      <4>2. mine[i] \in Nat /\ 1 <= mine[i]
        BY <3>3, <4>1, StackRange
      <4>3. mine[i] = Cardinality(Kept(r, i))
        BY <1>24, <3>3
      <4>4. Cardinality(Kept(r, i)) <= Cardinality(Kept(r, n - 1))
        BY <1>1, <3>1, KeptGrows
      <4> QED BY <1>25, <4>2, <4>3, <4>4
    <3> QED BY <1>24, <1>26, <2>1, <3>1, <3>2, <3>3
  <2> QED BY <2>4, <2>5
<1>5. Kept(q, n) = Kept(q, n - 1)
  BY <1>1, <1>22, KeptNext
<1>6. Len(G) = Cardinality(Kept(q, n))
  BY <1>1, <1>25, <1>26, <1>3, <1>5
<1> QED BY <1>23, <1>4, <1>6 DEF StackOK, G, k, n

\* The handler has returned.
LEMMA StackPop ==
  ASSUME NEW r \in Seq(Labels), NEW q \in Seq(Labels), NEW F, NEW mine, NEW mine1, NEW pushed,
         NEW pushed1,
         Len(r) > 1, StackOK(r, F, mine, pushed), Len(q) = Len(r) - 1, r[Len(r)] = "pop",
         \A j \in 1..(Len(r) - 1) : q[j] = r[j],
         \A j \in 1..(Len(r) - 2) : pushed1[j] = pushed[j] /\ mine1[j] = mine[j]
  PROVE  StackOK(q, F, mine1, pushed1)
<1> DEFINE n == Len(q) - 1
<1>1. n \in Nat /\ Len(r) = n + 2 /\ n + 1 \in Nat /\ n + 1 > 0 /\ (n + 1) - 1 = n /\ Len(r) - 1 = n + 1
  OBVIOUS
<1>2. \A j \in 1..n : q[j + 1] = r[j + 1] /\ pushed1[j] = pushed[j] /\ mine1[j] = mine[j]
  OBVIOUS
<1>20. \A j \in 1..n : q[j] = r[j]
  OBVIOUS
<1>21. r[(n + 1) + 1] = "pop"
  BY <1>1
<1>24. \A i \in 1..n :
          /\ r[i + 1] # "pop" => mine[i] = Cardinality(Kept(r, i)) /\ F[mine[i]] = Saved(r, i)
          /\ r[i + 1] \in {"release", "pop"} => pushed[i] = Saved(r, i)
  BY <1>1 DEF StackOK
<1>25. Len(F) = Cardinality(Kept(r, n + 1))
  BY <1>1 DEF StackOK
<1> HIDE DEF n
<1>3. \A i \in 0..n : Kept(q, i) = Kept(r, i)
  <2> SUFFICES ASSUME NEW i \in 0..n PROVE Kept(q, i) = Kept(r, i)
    OBVIOUS
  <2>1. i \in Nat /\ \A j \in 1..i : q[j + 1] = r[j + 1]
    BY <1>1, <1>2
  <2> QED BY <2>1, KeptSame
<1>4. ASSUME NEW i \in 1..n
      PROVE /\ q[i + 1] # "pop" => mine1[i] = Cardinality(Kept(q, i)) /\ F[mine1[i]] = Saved(q, i)
            /\ q[i + 1] \in {"release", "pop"} => pushed1[i] = Saved(q, i)
  <2>1. Saved(q, i) = Saved(r, i)
    <3>1. i \in Nat /\ i > 0 /\ \A j \in 1..i : q[j] = r[j]
      BY <1>1, <1>20
    <3> QED BY <3>1, SavedSame
  <2>2. Kept(q, i) = Kept(r, i)
    BY <1>1, <1>3
  <2> QED BY <1>2, <1>24, <2>1, <2>2
<1>5. Kept(r, n + 1) = Kept(r, n)
  BY <1>1, <1>21, KeptNext
<1>6. Len(F) = Cardinality(Kept(q, n))
  BY <1>1, <1>25, <1>3, <1>5
<1> QED BY <1>4, <1>6 DEF StackOK, n

-----------------------------------------------------------------------------
\* Where the innermost context has been interrupted, or runs.
Here(r) == Context(Len(r) - 1, r[Len(r)])

\* The processor, the exception page and the saved registers on the way from
\* a fault to its handler and back.
ModeOK(cpu, page, area, r) ==
    LET label == cpu.at.label
        n == Len(r) - 1
    IN  /\ cpu.at.id = n
        /\ label \in Labels =>
              cpu.at = Here(r) /\ cpu.regs = n /\ cpu.utcb = UtcbOf(r, n) /\ ~page.activated
        /\ label \in EntryLabels => page.saved = Here(r) /\ Len(r) <= MaxContexts
        /\ label \in {"entry", "alloc", "handle", "run"} => page.activated
        /\ label = "entry" /\ page.transition => area = n
        /\ label = "entry" /\ ~page.transition => cpu.regs = n
        /\ label \in EntryLabels \ {"entry"} => area = n
        /\ label \in {"entry", "alloc", "return", "restore"} => cpu.utcb = UtcbOf(r, n)
        /\ label = "restore" => cpu.regs = n /\ ~page.activated

\* In activated mode there is a frame that is not a handler's yet.
FramesFit(label, F, mine, pushed, r) ==
    /\ label \in {"handle", "run"} =>
          F # <<>> /\ F[Len(F)].utcb = UtcbOf(r, Len(r) - 1) /\ StackOK(r, Front(F), mine, pushed)
    /\ label \notin {"handle", "run"} => StackOK(r, F, mine, pushed)

ActTyped(cpu, page, area, F, mine, pushed, hung, r) ==
    /\ cpu \in ActFrames /\ page \in ActPages /\ area \in Nat /\ F \in Seq(ActFrames)
    /\ mine \in [1..MaxContexts -> Nat] /\ pushed \in [1..MaxContexts -> ActFrames] /\ hung \in BOOLEAN
    /\ r \in Seq(Labels) /\ 1 <= Len(r) /\ Len(r) <= MaxContexts + 1 /\ r[1] = "body"

ActOK(cpu, page, area, F, mine, pushed, hung, r) ==
    /\ ActTyped(cpu, page, area, F, mine, pushed, hung, r)
    /\ ModeOK(cpu, page, area, r)
    /\ FramesFit(cpu.at.label, F, mine, pushed, r)

ActInv ==
    /\ lib \in ActLib
    /\ ActOK(lib.cpu, lib.page, lib.area, lib.frames, lib.mine, lib.pushed, lib.hung, ref)

ActIs(L, cpu, page, area, F, mine, pushed, hung) ==
    L \in [kind : {ActKind}, cpu : {cpu}, page : {page}, area : {area}, frames : {F}, mine : {mine},
           pushed : {pushed}, hung : {hung}]

LEMMA ActPack ==
  ASSUME NEW cpu, NEW page, NEW area, NEW F, NEW mine, NEW pushed, NEW hung, NEW r,
         ActIs(lib', cpu, page, area, F, mine, pushed, hung), ref' = r,
         ActOK(cpu, page, area, F, mine, pushed, hung, r)
  PROVE  ActInv'
<1>1. /\ lib'.cpu = cpu /\ lib'.page = page /\ lib'.area = area /\ lib'.frames = F /\ lib'.mine = mine
      /\ lib'.pushed = pushed /\ lib'.hung = hung
  BY DEF ActIs
<1>2. lib' \in ActLib
  BY DEF ActIs, ActLib, ActOK, ActTyped
<1> QED BY <1>1, <1>2 DEF ActInv

LEMMA Relabelled ==
  ASSUME NEW c \in ActFrames, NEW x \in Labels \cup EntryLabels
  PROVE  /\ [c EXCEPT !.at.label = x] \in ActFrames
         /\ [c EXCEPT !.at.label = x].at.label = x
         /\ [c EXCEPT !.at.label = x].at.id = c.at.id
         /\ [c EXCEPT !.at.label = x].regs = c.regs
         /\ [c EXCEPT !.at.label = x].utcb = c.utcb
         /\ [c EXCEPT !.at.label = x].at = [id |-> c.at.id, label |-> x]
BY DEF ActFrames, ActPlaces

LEMMA ActFacts ==
  ASSUME ActInv
  PROVE  /\ ActIs(lib, lib.cpu, lib.page, lib.area, lib.frames, lib.mine, lib.pushed, lib.hung)
         /\ ActTyped(lib.cpu, lib.page, lib.area, lib.frames, lib.mine, lib.pushed, lib.hung, ref)
         /\ ModeOK(lib.cpu, lib.page, lib.area, ref)
         /\ FramesFit(lib.cpu.at.label, lib.frames, lib.mine, lib.pushed, ref)
         /\ lib.cpu.at.label \in Labels \cup EntryLabels
         /\ Here(ref) \in ActPlaces /\ Len(ref) \in Nat /\ Len(ref) - 1 \in Nat
              /\ ref[Len(ref)] \in Labels
<1>1. lib \in ActLib
  BY DEF ActInv
<1>2. ActIs(lib, lib.cpu, lib.page, lib.area, lib.frames, lib.mine, lib.pushed, lib.hung)
  BY <1>1 DEF ActIs, ActLib
<1>3. ref \in Seq(Labels) /\ 1 <= Len(ref)
  BY DEF ActInv, ActOK, ActTyped
<1>4. Len(ref) \in Nat /\ Len(ref) - 1 \in Nat /\ ref[Len(ref)] \in Labels
  BY <1>3
<1>5. Here(ref) \in ActPlaces
  BY <1>4 DEF Here, Context, ActPlaces
<1>6. lib.cpu.at.label \in Labels \cup EntryLabels
  BY <1>1 DEF ActLib, ActFrames, ActPlaces
<1> QED BY <1>2, <1>4, <1>5, <1>6 DEF ActInv, ActOK

\* A delivered exception.
LEMMA RaiseExceptionStep ==
  ASSUME ActInv, NEW stackfault \in BOOLEAN, RaiseException(stackfault),
         lib.page.activated
            \/ (Len(ref) <= MaxContexts /\ lib.cpu.at.label \in Labels \cup {"return", "restore"})
  PROVE  ActInv'
<1> DEFINE label == lib.cpu.at.label
           saved == IF InTransition(label) THEN lib.page.saved ELSE lib.cpu.at
           page1 == [activated |-> TRUE, transition |-> InTransition(label), saved |-> saved,
                     stackfault |-> stackfault]
           cpu1 == [lib.cpu EXCEPT !.at.label = "entry"]
<1>1. /\ ref' = ref
      /\ lib' = IF lib.page.activated THEN [lib EXCEPT !.hung = TRUE]
                ELSE Enters([lib EXCEPT !.page = page1], "entry")
  BY DEF RaiseException, Becomes
<1>2. /\ ActIs(lib, lib.cpu, lib.page, lib.area, lib.frames, lib.mine, lib.pushed, lib.hung)
      /\ ActTyped(lib.cpu, lib.page, lib.area, lib.frames, lib.mine, lib.pushed, lib.hung, ref)
      /\ ModeOK(lib.cpu, lib.page, lib.area, ref)
      /\ FramesFit(lib.cpu.at.label, lib.frames, lib.mine, lib.pushed, ref)
      /\ Here(ref) \in ActPlaces
  BY ActFacts
<1>3. CASE lib.page.activated
  <2>1. ActIs(lib', lib.cpu, lib.page, lib.area, lib.frames, lib.mine, lib.pushed, TRUE)
    BY <1>1, <1>2, <1>3 DEF ActIs
  <2>2. ActOK(lib.cpu, lib.page, lib.area, lib.frames, lib.mine, lib.pushed, TRUE, ref)
    BY <1>2 DEF ActOK, ActTyped
  <2> QED BY <1>1, <2>1, <2>2, ActPack
<1>4. CASE ~lib.page.activated
  <2>0. lib' = Enters([lib EXCEPT !.page = page1], "entry")
    BY <1>1, <1>4
  <2>1. ActIs(lib', cpu1, page1, lib.area, lib.frames, lib.mine, lib.pushed, lib.hung)
    <3> HIDE DEF page1
    <3> QED BY <1>2, <2>0 DEF ActIs, Enters
  <2>2. lib.cpu \in ActFrames /\ label \in Labels \cup {"return", "restore"} /\ Len(ref) <= MaxContexts
    BY <1>2, <1>4 DEF ActTyped
  <2>21. "entry" \in Labels \cup EntryLabels
    BY DEF EntryLabels
  <2>3. /\ cpu1 \in ActFrames /\ cpu1.at.label = "entry" /\ cpu1.at.id = lib.cpu.at.id
        /\ cpu1.regs = lib.cpu.regs /\ cpu1.utcb = lib.cpu.utcb
    BY <2>2, <2>21, Relabelled
  <2>4. saved = Here(ref)
    BY <1>2, <2>2 DEF ModeOK, InTransition, Labels, EntryLabels
  <2>5. /\ page1 \in ActPages /\ page1.activated /\ page1.saved = Here(ref)
        /\ page1.transition <=> label \in EntryLabels
    <3>1. InTransition(label) \in BOOLEAN /\ (InTransition(label) <=> label \in EntryLabels)
      BY DEF InTransition
    <3> HIDE DEF saved, label
    <3>2. page1 \in ActPages
      BY <1>2, <2>4, <3>1 DEF ActPages
    <3>3. page1.activated /\ page1.saved = Here(ref) /\ page1.transition = InTransition(label)
      BY <2>4
    <3> QED BY <3>1, <3>2, <3>3
  <2>6. ModeOK(cpu1, page1, lib.area, ref)
    <3> HIDE DEF cpu1, page1
    <3>1. label \in Labels => lib.cpu.regs = Len(ref) - 1 /\ lib.cpu.utcb = UtcbOf(ref, Len(ref) - 1)
      BY <1>2 DEF ModeOK
    <3>2. label \in {"return", "restore"} =>
             lib.area = Len(ref) - 1 /\ lib.cpu.utcb = UtcbOf(ref, Len(ref) - 1)
      BY <1>2 DEF ModeOK, EntryLabels
    <3>3. lib.cpu.at.id = Len(ref) - 1
      BY <1>2 DEF ModeOK
    <3> QED BY <2>2, <2>3, <2>5, <3>1, <3>2, <3>3 DEF ModeOK, Labels, EntryLabels
  <2>7. FramesFit(cpu1.at.label, lib.frames, lib.mine, lib.pushed, ref)
    BY <1>2, <2>2, <2>3 DEF FramesFit, Labels
  <2>8. ActOK(cpu1, page1, lib.area, lib.frames, lib.mine, lib.pushed, lib.hung, ref)
    BY <1>2, <2>3, <2>5, <2>6, <2>7 DEF ActOK, ActTyped
  <2> HIDE DEF cpu1, page1
  <2> QED BY <1>1, <2>1, <2>8, ActPack
<1> QED BY <1>3, <1>4

LEMMA FaultStep ==
  ASSUME ActInv, (\E stackfault \in BOOLEAN : Fault(stackfault)) \/ FaultActivated
  PROVE  ActInv'
<1>1. ASSUME NEW stackfault \in BOOLEAN, Fault(stackfault) PROVE ActInv'
  <2>1. lib.cpu.at.label \in Labels \cup EntryLabels
    BY ActFacts
  <2>2. Len(ref) <= MaxContexts /\ lib.cpu.at.label \in Labels \cup {"return", "restore"}
    BY <1>1, <2>1 DEF Fault, Running, At
  <2> QED BY <1>1, <2>2, RaiseExceptionStep DEF Fault
<1>2. ASSUME FaultActivated PROVE ActInv'
  BY <1>2, RaiseExceptionStep DEF FaultActivated
<1> QED BY <1>1, <1>2

\* exception_handler_entry.
LEMMA EntryStep ==
  ASSUME ActInv, Entry
  PROVE  ActInv'
<1> DEFINE c == [lib.cpu EXCEPT !.regs = Junk]
           cpu1 == [c EXCEPT !.at.label = "alloc"]
           area1 == IF lib.page.transition THEN lib.area ELSE lib.cpu.regs
<1>1. /\ lib.cpu.at.label = "entry" /\ ref' = ref
      /\ lib' = Enters([lib EXCEPT !.area = IF lib.page.transition THEN @ ELSE lib.cpu.regs,
                                   !.cpu.regs = Junk], "alloc")
  BY DEF Entry, At, Becomes
<1>2. /\ ActIs(lib, lib.cpu, lib.page, lib.area, lib.frames, lib.mine, lib.pushed, lib.hung)
      /\ ActTyped(lib.cpu, lib.page, lib.area, lib.frames, lib.mine, lib.pushed, lib.hung, ref)
      /\ ModeOK(lib.cpu, lib.page, lib.area, ref)
      /\ FramesFit(lib.cpu.at.label, lib.frames, lib.mine, lib.pushed, ref)
  BY ActFacts
<1>3. lib.cpu \in ActFrames /\ lib.page \in ActPages /\ lib.frames \in Seq(ActFrames)
  BY <1>2 DEF ActTyped
<1>4. ActIs(lib', cpu1, lib.page, area1, lib.frames, lib.mine, lib.pushed, lib.hung)
  BY <1>1, <1>2 DEF ActIs, Enters
<1>5. c \in ActFrames /\ c.at = lib.cpu.at /\ c.utcb = lib.cpu.utcb
  <2>1. Junk \in Nat
    BY ContextsAssumption DEF Junk
  <2> QED BY <1>3, <2>1 DEF ActFrames
<1>50. "alloc" \in Labels \cup EntryLabels
  BY DEF EntryLabels
<1> HIDE DEF c
<1>6. /\ cpu1 \in ActFrames /\ cpu1.at.label = "alloc" /\ cpu1.at.id = lib.cpu.at.id
      /\ cpu1.utcb = lib.cpu.utcb
  <2>1. /\ cpu1 \in ActFrames /\ cpu1.at.label = "alloc" /\ cpu1.at.id = c.at.id
        /\ cpu1.regs = c.regs /\ cpu1.utcb = c.utcb
    BY <1>5, <1>50, Relabelled
  <2> QED BY <1>5, <2>1
<1>7. area1 = Len(ref) - 1 /\ area1 \in Nat
  BY <1>1, <1>2, <1>3, ActFacts DEF ModeOK
<1> HIDE DEF cpu1, area1
<1>8. ModeOK(cpu1, lib.page, area1, ref)
  BY <1>1, <1>2, <1>6, <1>7 DEF ModeOK, Labels, EntryLabels
<1>9. FramesFit(cpu1.at.label, lib.frames, lib.mine, lib.pushed, ref)
  BY <1>1, <1>2, <1>6 DEF FramesFit
<1>10. ActOK(cpu1, lib.page, area1, lib.frames, lib.mine, lib.pushed, lib.hung, ref)
  BY <1>2, <1>6, <1>7, <1>8, <1>9 DEF ActOK, ActTyped
<1> QED BY <1>1, <1>4, <1>10, ActPack

\* The frame that exception_frame_alloc puts on the stack.
LEMMA AllocFrameStep ==
  ASSUME ActInv, AllocFrame
  PROVE  ActInv'
<1> DEFINE f == [NoFrame EXCEPT !.utcb = lib.cpu.utcb]
           F == Append(lib.frames, f)
           c == [lib.cpu EXCEPT !.utcb = Junk]
           cpu1 == [c EXCEPT !.at.label = "handle"]
<1>1. /\ lib.cpu.at.label = "alloc" /\ ref' = ref
      /\ lib' = Enters([lib EXCEPT !.frames = Append(@, f), !.cpu.utcb = Junk], "handle")
  BY DEF AllocFrame, At, Becomes
<1>2. /\ ActIs(lib, lib.cpu, lib.page, lib.area, lib.frames, lib.mine, lib.pushed, lib.hung)
      /\ ActTyped(lib.cpu, lib.page, lib.area, lib.frames, lib.mine, lib.pushed, lib.hung, ref)
      /\ ModeOK(lib.cpu, lib.page, lib.area, ref)
      /\ FramesFit(lib.cpu.at.label, lib.frames, lib.mine, lib.pushed, ref)
  BY ActFacts
<1>3. lib.cpu \in ActFrames /\ lib.page \in ActPages /\ lib.frames \in Seq(ActFrames)
  BY <1>2 DEF ActTyped
<1>40. f \in ActFrames /\ f.utcb = lib.cpu.utcb
  BY <1>3, ContextsAssumption DEF ActFrames, ActPlaces, NoFrame, Context, Junk, Labels
<1> HIDE DEF f
<1>4. ActIs(lib', cpu1, lib.page, lib.area, F, lib.mine, lib.pushed, lib.hung)
  BY <1>1, <1>2 DEF ActIs, Enters
<1>5. c \in ActFrames /\ c.at = lib.cpu.at
  <2>1. Junk \in Nat
    BY ContextsAssumption DEF Junk
  <2> QED BY <1>3, <2>1 DEF ActFrames
<1>50. "handle" \in Labels \cup EntryLabels
  BY DEF EntryLabels
<1> HIDE DEF c
<1>6. cpu1 \in ActFrames /\ cpu1.at.label = "handle" /\ cpu1.at.id = lib.cpu.at.id
  <2>1. /\ cpu1 \in ActFrames /\ cpu1.at.label = "handle" /\ cpu1.at.id = c.at.id
        /\ cpu1.regs = c.regs /\ cpu1.utcb = c.utcb
    BY <1>5, <1>50, Relabelled
  <2> QED BY <1>5, <2>1
<1> HIDE DEF cpu1
<1>7. F \in Seq(ActFrames) /\ F # <<>> /\ F[Len(F)] = f /\ Front(F) = lib.frames
  BY <1>3, <1>40 DEF Front
<1> HIDE DEF F
<1>71. lib.cpu.utcb = UtcbOf(ref, Len(ref) - 1)
  BY <1>1, <1>2 DEF ModeOK
<1>8. ModeOK(cpu1, lib.page, lib.area, ref)
  BY <1>1, <1>2, <1>6 DEF ModeOK, Labels, EntryLabels
<1>9. FramesFit(cpu1.at.label, F, lib.mine, lib.pushed, ref)
  BY <1>1, <1>2, <1>40, <1>6, <1>7, <1>71 DEF FramesFit
<1>10. ActOK(cpu1, lib.page, lib.area, F, lib.mine, lib.pushed, lib.hung, ref)
  BY <1>2, <1>6, <1>7, <1>8, <1>9 DEF ActOK, ActTyped
<1> QED BY <1>1, <1>4, <1>10, ActPack

\* exception_handler_activated.
LEMMA HandleActivatedStep ==
  ASSUME ActInv, HandleActivated
  PROVE  ActInv'
<1> DEFINE top == Last(lib.frames)
<1>1. /\ lib.cpu.at.label = "handle" /\ ref' = ref
      /\ lib' = IF lib.page.stackfault
                THEN Enters([lib EXCEPT !.cpu.utcb = top.utcb, !.frames = Front(@)], "return")
                ELSE Enters(lib, "run")
  BY DEF HandleActivated, At, Becomes
<1>2. /\ ActIs(lib, lib.cpu, lib.page, lib.area, lib.frames, lib.mine, lib.pushed, lib.hung)
      /\ ActTyped(lib.cpu, lib.page, lib.area, lib.frames, lib.mine, lib.pushed, lib.hung, ref)
      /\ ModeOK(lib.cpu, lib.page, lib.area, ref)
      /\ FramesFit(lib.cpu.at.label, lib.frames, lib.mine, lib.pushed, ref)
  BY ActFacts
<1>3. lib.cpu \in ActFrames /\ lib.page \in ActPages /\ lib.frames \in Seq(ActFrames)
  BY <1>2 DEF ActTyped
<1>31. /\ lib.frames # <<>> /\ lib.frames[Len(lib.frames)].utcb = UtcbOf(ref, Len(ref) - 1)
       /\ StackOK(ref, Front(lib.frames), lib.mine, lib.pushed)
  BY <1>1, <1>2 DEF FramesFit
<1>4. CASE lib.page.stackfault
  <2> DEFINE c == [lib.cpu EXCEPT !.utcb = top.utcb]
             cpu1 == [c EXCEPT !.at.label = "return"]
             F == Front(lib.frames)
  <2>1. lib' = Enters([lib EXCEPT !.cpu.utcb = top.utcb, !.frames = Front(@)], "return")
    BY <1>1, <1>4
  <2>2. ActIs(lib', cpu1, lib.page, lib.area, F, lib.mine, lib.pushed, lib.hung)
    <3> HIDE DEF top
    <3> QED BY <1>2, <2>1 DEF ActIs, Enters
  <2>3. F \in Seq(ActFrames) /\ top \in ActFrames
    BY <1>3, <1>31 DEF Front, Last
  <2>4. top.utcb \in Nat /\ top.utcb = UtcbOf(ref, Len(ref) - 1)
    BY <1>31, <2>3 DEF ActFrames, Last
  <2> HIDE DEF F, top
  <2>5. c \in ActFrames /\ c.at = lib.cpu.at /\ c.utcb = top.utcb
    BY <1>3, <2>4 DEF ActFrames
  <2>50. "return" \in Labels \cup EntryLabels
    BY DEF EntryLabels
  <2> HIDE DEF c
  <2>6. /\ cpu1 \in ActFrames /\ cpu1.at.label = "return" /\ cpu1.at.id = lib.cpu.at.id
        /\ cpu1.utcb = top.utcb
    <3>1. /\ cpu1 \in ActFrames /\ cpu1.at.label = "return" /\ cpu1.at.id = c.at.id
          /\ cpu1.regs = c.regs /\ cpu1.utcb = c.utcb
      BY <2>5, <2>50, Relabelled
    <3> QED BY <2>5, <3>1
  <2> HIDE DEF cpu1
  <2>7. ModeOK(cpu1, lib.page, lib.area, ref)
    BY <1>1, <1>2, <2>4, <2>6 DEF ModeOK, Labels, EntryLabels
  <2>8. FramesFit(cpu1.at.label, F, lib.mine, lib.pushed, ref)
    BY <1>31, <2>6 DEF FramesFit, F
  <2>9. ActOK(cpu1, lib.page, lib.area, F, lib.mine, lib.pushed, lib.hung, ref)
    BY <1>2, <2>3, <2>6, <2>7, <2>8 DEF ActOK, ActTyped
  <2> QED BY <1>1, <2>2, <2>9, ActPack
<1>5. CASE ~lib.page.stackfault
  <2> DEFINE cpu1 == [lib.cpu EXCEPT !.at.label = "run"]
  <2>1. lib' = Enters(lib, "run")
    BY <1>1, <1>5
  <2>2. ActIs(lib', cpu1, lib.page, lib.area, lib.frames, lib.mine, lib.pushed, lib.hung)
    BY <1>2, <2>1 DEF ActIs, Enters
  <2>50. "run" \in Labels \cup EntryLabels
    BY DEF EntryLabels
  <2>6. /\ cpu1 \in ActFrames /\ cpu1.at.label = "run" /\ cpu1.at.id = lib.cpu.at.id
    BY <1>3, <2>50, Relabelled
  <2> HIDE DEF cpu1
  <2>7. ModeOK(cpu1, lib.page, lib.area, ref)
    BY <1>1, <1>2, <2>6 DEF ModeOK, Labels, EntryLabels
  <2>8. FramesFit(cpu1.at.label, lib.frames, lib.mine, lib.pushed, ref)
    BY <1>31, <2>6 DEF FramesFit
  <2>9. ActOK(cpu1, lib.page, lib.area, lib.frames, lib.mine, lib.pushed, lib.hung, ref)
    BY <1>2, <2>6, <2>7, <2>8 DEF ActOK, ActTyped
  <2> QED BY <1>1, <2>2, <2>9, ActPack
<1> QED BY <1>4, <1>5

\* The way back without a handler.
LEMMA LeaveActivatedStep ==
  ASSUME ActInv, LeaveActivated
  PROVE  ActInv'
<1> DEFINE page1 == [lib.page EXCEPT !.activated = FALSE]
<1>1. /\ lib.cpu.at.label = "return" /\ ref' = ref /\ lib' = [lib EXCEPT !.page.activated = FALSE]
  BY DEF LeaveActivated, At, Becomes
<1>2. /\ ActIs(lib, lib.cpu, lib.page, lib.area, lib.frames, lib.mine, lib.pushed, lib.hung)
      /\ ActTyped(lib.cpu, lib.page, lib.area, lib.frames, lib.mine, lib.pushed, lib.hung, ref)
      /\ ModeOK(lib.cpu, lib.page, lib.area, ref)
      /\ FramesFit(lib.cpu.at.label, lib.frames, lib.mine, lib.pushed, ref)
  BY ActFacts
<1>3. lib.cpu \in ActFrames /\ lib.page \in ActPages /\ lib.frames \in Seq(ActFrames)
  BY <1>2 DEF ActTyped
<1>4. ActIs(lib', lib.cpu, page1, lib.area, lib.frames, lib.mine, lib.pushed, lib.hung)
  BY <1>1, <1>2 DEF ActIs
<1>5. page1 \in ActPages /\ page1.saved = lib.page.saved /\ ~page1.activated
  BY <1>3 DEF ActPages
<1> HIDE DEF page1
<1>8. ModeOK(lib.cpu, page1, lib.area, ref)
  BY <1>1, <1>2, <1>5 DEF ModeOK, Labels, EntryLabels
<1>10. ActOK(lib.cpu, page1, lib.area, lib.frames, lib.mine, lib.pushed, lib.hung, ref)
  BY <1>2, <1>5, <1>8 DEF ActOK, ActTyped
<1> QED BY <1>1, <1>4, <1>10, ActPack

LEMMA RestoreRegistersStep ==
  ASSUME ActInv, RestoreRegisters
  PROVE  ActInv'
<1> DEFINE c == [lib.cpu EXCEPT !.regs = lib.area]
           cpu1 == [c EXCEPT !.at.label = "restore"]
<1>1. /\ lib.cpu.at.label = "return" /\ ref' = ref /\ ~lib.page.activated
      /\ lib' = Enters([lib EXCEPT !.cpu.regs = lib.area], "restore")
  BY DEF RestoreRegisters, At, Becomes
<1>2. /\ ActIs(lib, lib.cpu, lib.page, lib.area, lib.frames, lib.mine, lib.pushed, lib.hung)
      /\ ActTyped(lib.cpu, lib.page, lib.area, lib.frames, lib.mine, lib.pushed, lib.hung, ref)
      /\ ModeOK(lib.cpu, lib.page, lib.area, ref)
      /\ FramesFit(lib.cpu.at.label, lib.frames, lib.mine, lib.pushed, ref)
  BY ActFacts
<1>3. lib.cpu \in ActFrames /\ lib.page \in ActPages /\ lib.frames \in Seq(ActFrames)
  BY <1>2 DEF ActTyped
<1>4. ActIs(lib', cpu1, lib.page, lib.area, lib.frames, lib.mine, lib.pushed, lib.hung)
  BY <1>1, <1>2 DEF ActIs, Enters
<1>5. c \in ActFrames /\ c.at = lib.cpu.at /\ c.utcb = lib.cpu.utcb /\ c.regs = lib.area
  BY <1>2, <1>3 DEF ActFrames, ActTyped
<1>50. "restore" \in Labels \cup EntryLabels
  BY DEF EntryLabels
<1> HIDE DEF c
<1>6. /\ cpu1 \in ActFrames /\ cpu1.at.label = "restore" /\ cpu1.at.id = lib.cpu.at.id
      /\ cpu1.utcb = lib.cpu.utcb /\ cpu1.regs = lib.area
  <2>1. /\ cpu1 \in ActFrames /\ cpu1.at.label = "restore" /\ cpu1.at.id = c.at.id
        /\ cpu1.regs = c.regs /\ cpu1.utcb = c.utcb
    BY <1>5, <1>50, Relabelled
  <2> QED BY <1>5, <2>1
<1> HIDE DEF cpu1
<1>8. ModeOK(cpu1, lib.page, lib.area, ref)
  BY <1>1, <1>2, <1>6 DEF ModeOK, Labels, EntryLabels
<1>9. FramesFit(cpu1.at.label, lib.frames, lib.mine, lib.pushed, ref)
  BY <1>1, <1>2, <1>6 DEF FramesFit
<1>10. ActOK(cpu1, lib.page, lib.area, lib.frames, lib.mine, lib.pushed, lib.hung, ref)
  BY <1>2, <1>6, <1>8, <1>9 DEF ActOK, ActTyped
<1> QED BY <1>1, <1>4, <1>10, ActPack

LEMMA ReturnToSavedStep ==
  ASSUME ActInv, ReturnToSaved
  PROVE  ActInv'
<1> DEFINE cpu1 == [lib.cpu EXCEPT !.at = lib.page.saved]
<1>1. /\ lib.cpu.at.label = "restore" /\ ref' = ref /\ lib' = [lib EXCEPT !.cpu.at = lib.page.saved]
  BY DEF ReturnToSaved, At, Becomes
<1>2. /\ ActIs(lib, lib.cpu, lib.page, lib.area, lib.frames, lib.mine, lib.pushed, lib.hung)
      /\ ActTyped(lib.cpu, lib.page, lib.area, lib.frames, lib.mine, lib.pushed, lib.hung, ref)
      /\ ModeOK(lib.cpu, lib.page, lib.area, ref)
      /\ FramesFit(lib.cpu.at.label, lib.frames, lib.mine, lib.pushed, ref)
  BY ActFacts
<1>3. lib.cpu \in ActFrames /\ lib.page \in ActPages /\ lib.frames \in Seq(ActFrames)
  BY <1>2 DEF ActTyped
<1>31. Here(ref) \in ActPlaces /\ ref[Len(ref)] \in Labels
  BY ActFacts
<1>32. lib.page.saved = Here(ref)
  BY <1>1, <1>2 DEF ModeOK, EntryLabels
<1>4. ActIs(lib', cpu1, lib.page, lib.area, lib.frames, lib.mine, lib.pushed, lib.hung)
  BY <1>1, <1>2 DEF ActIs
<1>6. /\ cpu1 \in ActFrames /\ cpu1.at = Here(ref) /\ cpu1.utcb = lib.cpu.utcb /\ cpu1.regs = lib.cpu.regs
  BY <1>3, <1>31, <1>32 DEF ActFrames
<1>61. Here(ref).label \in Labels /\ Here(ref).id = Len(ref) - 1
  BY <1>31 DEF Here, Context
<1> HIDE DEF cpu1
<1>8. ModeOK(cpu1, lib.page, lib.area, ref)
  BY <1>1, <1>2, <1>6, <1>61 DEF ModeOK, Labels, EntryLabels
<1>9. FramesFit(cpu1.at.label, lib.frames, lib.mine, lib.pushed, ref)
  BY <1>1, <1>2, <1>6, <1>61 DEF FramesFit, Labels
<1>10. ActOK(cpu1, lib.page, lib.area, lib.frames, lib.mine, lib.pushed, lib.hung, ref)
  BY <1>2, <1>6, <1>8, <1>9 DEF ActOK, ActTyped
<1> QED BY <1>1, <1>4, <1>10, ActPack

\* exception_frame_run.
LEMMA FrameRunStep ==
  ASSUME ActInv, FrameRun
  PROVE  ActInv'
<1> DEFINE k == Len(lib.frames)
           f == [at |-> lib.page.saved, regs |-> lib.area, utcb |-> lib.frames[k].utcb]
           F == [lib.frames EXCEPT ![k] = f]
           B == Front(lib.frames)
           n == Len(ref)
           q == Append(ref, "body")
           page1 == [lib.page EXCEPT !.activated = FALSE]
           mine1 == [lib.mine EXCEPT ![n] = k]
           cpu1 == [at |-> Context(n, "body"), regs |-> n, utcb |-> n]
<1>1. /\ lib.cpu.at.label = "run" /\ ref' = q
      /\ lib' = [lib EXCEPT !.frames[k] = f, !.page.activated = FALSE, !.mine[n] = k, !.cpu = cpu1]
  BY DEF FrameRun, At, Becomes
<1>2. /\ ActIs(lib, lib.cpu, lib.page, lib.area, lib.frames, lib.mine, lib.pushed, lib.hung)
      /\ ActTyped(lib.cpu, lib.page, lib.area, lib.frames, lib.mine, lib.pushed, lib.hung, ref)
      /\ ModeOK(lib.cpu, lib.page, lib.area, ref)
      /\ FramesFit(lib.cpu.at.label, lib.frames, lib.mine, lib.pushed, ref)
  BY ActFacts
<1>3. lib.cpu \in ActFrames /\ lib.page \in ActPages /\ lib.frames \in Seq(ActFrames)
  BY <1>2 DEF ActTyped
<1>31. /\ lib.frames # <<>> /\ lib.frames[k].utcb = UtcbOf(ref, n - 1)
       /\ StackOK(ref, B, lib.mine, lib.pushed)
  BY <1>1, <1>2 DEF FramesFit
<1>32. n <= MaxContexts /\ lib.page.saved = Here(ref) /\ lib.area = n - 1
  BY <1>1, <1>2 DEF ModeOK, EntryLabels
<1>33. Here(ref) \in ActPlaces /\ n \in Nat /\ n - 1 \in Nat /\ n >= 1 /\ ref \in Seq(Labels)
         /\ ref[1] = "body"
  BY <1>2, ActFacts DEF ActTyped
<1>4. ActIs(lib', cpu1, page1, lib.area, F, mine1, lib.pushed, lib.hung)
  <2> HIDE DEF f, cpu1
  <2> QED BY <1>1, <1>2 DEF ActIs
<1>5. k \in 1..k /\ k \in Nat /\ lib.frames[k] \in ActFrames
  BY <1>3, <1>31
<1>6. f \in ActFrames /\ f = Saved(ref, n)
  <2>1. lib.frames[k].utcb \in Nat
    BY <1>5 DEF ActFrames
  <2> QED BY <1>31, <1>32, <1>33, <2>1 DEF ActFrames, Saved, Here
<1> HIDE DEF f
<1>7. B \in Seq(ActFrames) /\ Len(B) + 1 = k /\ F = Append(B, f) /\ F \in Seq(ActFrames)
  <2>1. B \in Seq(ActFrames) /\ Len(B) = k - 1 /\ \A j \in 1..(k - 1) : B[j] = lib.frames[j]
    BY <1>3, <1>5 DEF Front
  <2>2. F \in Seq(ActFrames) /\ Len(F) = k /\ F[k] = f /\ \A j \in 1..(k - 1) : F[j] = lib.frames[j]
    BY <1>3, <1>5, <1>6
  <2> HIDE DEF B, F, k
  <2>3. /\ Append(B, f) \in Seq(ActFrames) /\ Len(Append(B, f)) = k /\ Append(B, f)[k] = f
        /\ \A j \in 1..(k - 1) : Append(B, f)[j] = lib.frames[j]
    BY <1>5, <1>6, <2>1
  <2>4. \A j \in 1..k : j = k \/ j \in 1..(k - 1)
    BY <1>5
  <2>5. \A j \in 1..k : F[j] = Append(B, f)[j]
    BY <2>2, <2>3, <2>4
  <2>6. F = Append(B, f)
    BY <2>2, <2>3, <2>5, SeqEqual
  <2> QED BY <1>5, <2>1, <2>2, <2>6
<1> HIDE DEF B, F
<1>8. StackOK(q, F, mine1, lib.pushed)
  <2>1. lib.mine \in [1..MaxContexts -> Nat]
    BY <1>2 DEF ActTyped
  <2>2. StackOK(Append(ref, "body"), Append(B, f), [lib.mine EXCEPT ![Len(ref)] = Len(B) + 1], lib.pushed)
    <3>1. Len(ref) > 0 /\ Len(ref) <= MaxContexts /\ f = Saved(ref, Len(ref))
      BY <1>32, <1>33, <1>6
    <3>2. ref \in Seq(Labels) /\ B \in Seq(ActFrames) /\ f \in ActFrames
      BY <1>33, <1>6, <1>7
    <3>3. StackOK(ref, B, lib.mine, lib.pushed)
      BY <1>31
    <3> QED BY <2>1, <3>1, <3>2, <3>3, StackPush
  <2> QED BY <1>7, <2>2
<1>9. q \in Seq(Labels) /\ Len(q) = n + 1 /\ q[n + 1] = "body" /\ q[1] = "body"
  BY <1>33 DEF Labels
<1>10. mine1 \in [1..MaxContexts -> Nat]
  BY <1>2, <1>5 DEF ActTyped
<1>11. page1 \in ActPages /\ ~page1.activated
  BY <1>3 DEF ActPages
<1>12. /\ cpu1 \in ActFrames /\ cpu1.at = Context(n, "body") /\ cpu1.at.label = "body" /\ cpu1.at.id = n
       /\ cpu1.regs = n /\ cpu1.utcb = n
  BY <1>33 DEF ActFrames, ActPlaces, Context, Labels
<1>13. UtcbOf(q, n) = n
  BY <1>33, <1>9, UtcbOwn
<1>14. Len(q) - 1 = n /\ Here(q) = Context(n, "body")
  <2>1. Len(q) - 1 = n
    BY <1>33, <1>9
  <2>2. q[Len(q)] = "body"
    BY <1>9
  <2> QED BY <2>1, <2>2 DEF Here
<1> HIDE DEF q, cpu1, page1, mine1
<1>15. ModeOK(cpu1, page1, lib.area, q)
  BY <1>11, <1>12, <1>13, <1>14 DEF ModeOK, Labels, EntryLabels
<1>16. FramesFit(cpu1.at.label, F, mine1, lib.pushed, q)
  BY <1>12, <1>8 DEF FramesFit
<1>17. ActOK(cpu1, page1, lib.area, F, mine1, lib.pushed, lib.hung, q)
  BY <1>2, <1>32, <1>33, <1>7, <1>9, <1>10, <1>11, <1>12, <1>15, <1>16, ContextsAssumption
    DEF ActOK, ActTyped
<1> QED BY <1>1, <1>4, <1>17, ActPack

-----------------------------------------------------------------------------
LEMMA TopLabel ==
  ASSUME NEW r \in Seq(Labels), Len(r) > 1, NEW x \in Labels
  PROVE  LET q == [r EXCEPT ![Len(r)] = x] IN
         /\ q \in Seq(Labels) /\ Len(q) = Len(r) /\ q[Len(r)] = x /\ q[1] = r[1]
         /\ \A j \in 1..(Len(r) - 1) : q[j] = r[j]
OBVIOUS

LEMMA UtcbTop ==
  ASSUME NEW r \in Seq(Labels), NEW q \in Seq(Labels), Len(r) > 1, Len(q) = Len(r),
         \A j \in 1..(Len(r) - 1) : q[j] = r[j], q[Len(r)] # "body"
  PROVE  /\ UtcbOf(q, Len(r) - 1) = UtcbOf(r, Len(r) - 2)
         /\ r[Len(r)] # "body" => UtcbOf(r, Len(r) - 1) = UtcbOf(r, Len(r) - 2)
<1> DEFINE n == Len(r) - 1
<1>1. n \in Nat /\ n > 0 /\ n + 1 = Len(r) /\ n - 1 = Len(r) - 2 /\ n - 1 \in Nat /\ (n - 1) + 1 = n
  OBVIOUS
<1>2. q[n + 1] # "body" /\ (r[Len(r)] # "body" => r[n + 1] # "body")
  BY <1>1
<1>3. \A j \in 1..n : q[j] = r[j]
  OBVIOUS
<1> HIDE DEF n
<1>4. UtcbOf(q, n) = UtcbOf(q, n - 1)
  BY <1>1, <1>2, UtcbBelow
<1>5. UtcbOf(q, n - 1) = UtcbOf(r, n - 1)
  BY <1>1, <1>3, UtcbSame
<1>6. r[Len(r)] # "body" => UtcbOf(r, n) = UtcbOf(r, n - 1)
  BY <1>1, <1>2, UtcbBelow
<1>7. Len(r) - 1 = n /\ Len(r) - 2 = n - 1
  BY <1>1
<1> QED BY <1>4, <1>5, <1>6, <1>7

\* What a handler finds that goes on.
LEMMA HandlerFacts ==
  ASSUME ActInv, lib.cpu.at.label \in Labels, lib.cpu.at.label # "body" \/ lib.cpu.at.id > 0
  PROVE  /\ lib.cpu.at.label = ref[Len(ref)] /\ lib.cpu.at.id = Len(ref) - 1
        /\ lib.cpu.regs = Len(ref) - 1
         /\ lib.cpu.utcb = UtcbOf(ref, Len(ref) - 1) /\ ~lib.page.activated
         /\ ref \in Seq(Labels) /\ Len(ref) > 1 /\ Len(ref) - 1 \in 1..MaxContexts /\ ref[1] = "body"
         /\ Len(ref) \in Nat
         /\ StackOK(ref, lib.frames, lib.mine, lib.pushed)
<1>1. /\ ActTyped(lib.cpu, lib.page, lib.area, lib.frames, lib.mine, lib.pushed, lib.hung, ref)
      /\ ModeOK(lib.cpu, lib.page, lib.area, ref)
      /\ FramesFit(lib.cpu.at.label, lib.frames, lib.mine, lib.pushed, ref)
      /\ Len(ref) \in Nat
  BY ActFacts
<1>2. /\ lib.cpu.at = Here(ref) /\ lib.cpu.regs = Len(ref) - 1 /\ lib.cpu.at.id = Len(ref) - 1
      /\ lib.cpu.utcb = UtcbOf(ref, Len(ref) - 1) /\ ~lib.page.activated
  BY <1>1 DEF ModeOK
<1>3. lib.cpu.at.label = ref[Len(ref)]
  BY <1>2 DEF Here, Context
<1>4. ref \in Seq(Labels) /\ 1 <= Len(ref) /\ Len(ref) <= MaxContexts + 1 /\ ref[1] = "body"
  BY <1>1 DEF ActTyped
<1>5. Len(ref) # 1
  BY <1>2, <1>3, <1>4
<1>6. Len(ref) > 1 /\ Len(ref) - 1 \in 1..MaxContexts
  <2> DEFINE l == Len(ref)
  <2>1. l \in Nat /\ 1 <= l /\ l <= MaxContexts + 1 /\ l # 1 /\ MaxContexts \in Nat
    BY <1>1, <1>4, <1>5, ContextsAssumption
  <2> HIDE DEF l
  <2>2. l > 1 /\ l - 1 \in 1..MaxContexts
    BY <2>1
  <2> QED BY <2>2 DEF l
<1>7. StackOK(ref, lib.frames, lib.mine, lib.pushed)
  BY <1>1 DEF FramesFit, Labels
<1> QED BY <1>1, <1>2, <1>3, <1>4, <1>6, <1>7

\* A handler goes on: the label changes, and what the stack keeps.
LEMMA HandlerMoves ==
  ASSUME ActInv, lib.cpu.at.label \in Labels, lib.cpu.at.label # "body" \/ lib.cpu.at.id > 0,
         NEW x \in Labels \ {"body"}, NEW c \in ActFrames, NEW F, NEW pushed,
         c.at = lib.cpu.at, c.regs = lib.cpu.regs, c.utcb = UtcbOf(ref, Len(ref) - 2),
         F \in Seq(ActFrames), pushed \in [1..MaxContexts -> ActFrames],
         StackOK([ref EXCEPT ![Len(ref)] = x], F, lib.mine, pushed),
         ref' = [ref EXCEPT ![Len(ref)] = x],
         ActIs(lib', [c EXCEPT !.at.label = x], lib.page, lib.area, F, lib.mine, pushed, lib.hung)
  PROVE  ActInv'
<1> DEFINE q == [ref EXCEPT ![Len(ref)] = x]
           cpu1 == [c EXCEPT !.at.label = x]
           n == Len(ref) - 1
<1>1. /\ lib.cpu.at.id = n /\ lib.cpu.regs = n /\ ~lib.page.activated
      /\ ref \in Seq(Labels) /\ Len(ref) > 1 /\ ref[1] = "body" /\ Len(ref) \in Nat
  BY HandlerFacts
<1>2. /\ q \in Seq(Labels) /\ Len(q) = Len(ref) /\ q[Len(ref)] = x /\ q[1] = "body"
      /\ \A j \in 1..(Len(ref) - 1) : q[j] = ref[j]
  BY <1>1, TopLabel
<1>3. x \in Labels \cup EntryLabels /\ x \in Labels /\ x \notin EntryLabels /\ x \notin {"handle", "run"}
  BY DEF Labels, EntryLabels
<1> HIDE DEF q
<1>4. /\ cpu1 \in ActFrames /\ cpu1.at.label = x /\ cpu1.at.id = c.at.id
      /\ cpu1.regs = c.regs /\ cpu1.utcb = c.utcb /\ cpu1.at = [id |-> c.at.id, label |-> x]
  BY <1>3, Relabelled
<1> HIDE DEF cpu1
<1>5. cpu1.at = Here(q)
  BY <1>1, <1>2, <1>4 DEF Here, Context
<1>6. UtcbOf(q, n) = UtcbOf(ref, Len(ref) - 2)
  BY <1>1, <1>2, UtcbTop
<1>7. ModeOK(cpu1, lib.page, lib.area, q)
  BY <1>1, <1>2, <1>3, <1>4, <1>5, <1>6 DEF ModeOK, EntryLabels
<1>8. FramesFit(cpu1.at.label, F, lib.mine, pushed, q)
  BY <1>3, <1>4 DEF FramesFit, q
<1>9. ActTyped(lib.cpu, lib.page, lib.area, lib.frames, lib.mine, lib.pushed, lib.hung, ref)
  BY ActFacts
<1>10. ActOK(cpu1, lib.page, lib.area, F, lib.mine, pushed, lib.hung, q)
  BY <1>2, <1>4, <1>7, <1>8, <1>9 DEF ActOK, ActTyped
<1>11. ActIs(lib', cpu1, lib.page, lib.area, F, lib.mine, pushed, lib.hung) /\ ref' = q
  BY DEF cpu1, q
<1> QED BY <1>10, <1>11, ActPack

LEMMA HandlerDoneStep ==
  ASSUME ActInv, HandlerDone
  PROVE  ActInv'
<1> DEFINE n == Len(ref) - 1
           u == lib.frames[lib.mine[n]].utcb
           c == [lib.cpu EXCEPT !.utcb = u]
           q == [ref EXCEPT ![Len(ref)] = "push"]
<1>0. lib.cpu.at.label = "body" /\ lib.cpu.at.label \in Labels /\ lib.cpu.at.id > 0
  BY DEF HandlerDone, At, Labels
<1>1. /\ lib.cpu.at.label = ref[Len(ref)] /\ lib.cpu.at.id = n
      /\ ref \in Seq(Labels) /\ Len(ref) > 1 /\ n \in 1..MaxContexts /\ Len(ref) \in Nat
      /\ StackOK(ref, lib.frames, lib.mine, lib.pushed)
  BY <1>0, HandlerFacts
<1>2. /\ ref' = q /\ lib' = [[lib EXCEPT !.cpu.utcb = u] EXCEPT !.cpu.at.label = "push"]
  BY <1>1 DEF HandlerDone, Moves, Mine, Becomes
<1>3. /\ ActIs(lib, lib.cpu, lib.page, lib.area, lib.frames, lib.mine, lib.pushed, lib.hung)
      /\ ActTyped(lib.cpu, lib.page, lib.area, lib.frames, lib.mine, lib.pushed, lib.hung, ref)
  BY ActFacts
<1>4. ActIs(lib', [c EXCEPT !.at.label = "push"], lib.page, lib.area, lib.frames, lib.mine, lib.pushed,
        lib.hung)
  <2> HIDE DEF u
  <2> QED BY <1>2, <1>3 DEF ActIs
<1>5. lib.cpu \in ActFrames /\ lib.frames \in Seq(ActFrames)
        /\ lib.pushed \in [1..MaxContexts -> ActFrames]
  BY <1>3 DEF ActTyped
<1>6. n \in 1..(Len(ref) - 1) /\ n + 1 = Len(ref) /\ n - 1 = Len(ref) - 2
  BY <1>1
<1>7. ref[n + 1] = "body"
  BY <1>0, <1>1, <1>6
<1>8. lib.mine[n] \in 1..Len(lib.frames) /\ lib.frames[lib.mine[n]] = Saved(ref, n)
  <2>1. lib.mine[n] \in Nat /\ 1 <= lib.mine[n] /\ lib.mine[n] <= Len(lib.frames)
    BY <1>1, <1>6, <1>7, StackRange
  <2>2. lib.frames[lib.mine[n]] = Saved(ref, n)
    BY <1>1, <1>6, <1>7 DEF StackOK
  <2> QED BY <1>5, <2>1, <2>2
<1>9. u = UtcbOf(ref, Len(ref) - 2) /\ u \in Nat
  <2>1. lib.frames[lib.mine[n]] \in ActFrames
    BY <1>5, <1>8
  <2> QED BY <1>6, <1>8, <2>1 DEF Saved, ActFrames
<1> HIDE DEF u
<1>10. c \in ActFrames /\ c.at = lib.cpu.at /\ c.regs = lib.cpu.regs /\ c.utcb = u
  BY <1>5, <1>9 DEF ActFrames
<1>11. /\ q \in Seq(Labels) /\ Len(q) = Len(ref) /\ q[Len(ref)] = "push"
       /\ \A j \in 1..(Len(ref) - 1) : q[j] = ref[j]
  BY <1>1, TopLabel DEF Labels
<1>12. StackOK(q, lib.frames, lib.mine, lib.pushed)
  <2>1. ref[Len(ref)] # "pop"
    BY <1>0, <1>1
  <2> HIDE DEF q
  <2> QED BY <1>1, <1>11, <2>1, StackMove
<1>13. "push" \in Labels \ {"body"}
  BY DEF Labels
<1> HIDE DEF c, n
<1> QED BY <1>0, <1>2, <1>4, <1>5, <1>9, <1>10, <1>12, <1>13, HandlerMoves

LEMMA PushSavedStep ==
  ASSUME ActInv, PushSaved
  PROVE  ActInv'
<1> DEFINE n == Len(ref) - 1
           f == lib.frames[lib.mine[n]]
           pushed1 == [lib.pushed EXCEPT ![n] = f]
           q == [ref EXCEPT ![Len(ref)] = "release"]
<1>0. lib.cpu.at.label = "push" /\ lib.cpu.at.label \in Labels
  BY DEF PushSaved, At, Labels
<1>1. /\ lib.cpu.at.label = ref[Len(ref)] /\ lib.cpu.at.id = n /\ lib.cpu.utcb = UtcbOf(ref, n)
      /\ ref \in Seq(Labels) /\ Len(ref) > 1 /\ n \in 1..MaxContexts /\ Len(ref) \in Nat
      /\ StackOK(ref, lib.frames, lib.mine, lib.pushed)
  BY <1>0, HandlerFacts
<1>2. /\ ref' = q /\ lib' = [[lib EXCEPT !.pushed[n] = f] EXCEPT !.cpu.at.label = "release"]
  BY <1>1 DEF PushSaved, Moves, Mine, Becomes
<1>3. /\ ActIs(lib, lib.cpu, lib.page, lib.area, lib.frames, lib.mine, lib.pushed, lib.hung)
      /\ ActTyped(lib.cpu, lib.page, lib.area, lib.frames, lib.mine, lib.pushed, lib.hung, ref)
  BY ActFacts
<1>4. ActIs(lib', [lib.cpu EXCEPT !.at.label = "release"], lib.page, lib.area, lib.frames, lib.mine,
        pushed1,
            lib.hung)
  <2> HIDE DEF f
  <2> QED BY <1>2, <1>3 DEF ActIs
<1>5. lib.cpu \in ActFrames /\ lib.frames \in Seq(ActFrames)
        /\ lib.pushed \in [1..MaxContexts -> ActFrames]
  BY <1>3 DEF ActTyped
<1>6. n \in 1..(Len(ref) - 1) /\ n + 1 = Len(ref) /\ n - 1 = Len(ref) - 2
  BY <1>1
<1>7. ref[n + 1] = "push"
  BY <1>0, <1>1, <1>6
<1>8. f \in ActFrames
  <2>1. lib.mine[n] \in Nat /\ 1 <= lib.mine[n] /\ lib.mine[n] <= Len(lib.frames)
    BY <1>1, <1>6, <1>7, StackRange
  <2>2. lib.mine[n] \in 1..Len(lib.frames)
    BY <1>5, <2>1
  <2> QED BY <1>5, <2>2
<1>11. /\ q \in Seq(Labels) /\ Len(q) = Len(ref) /\ q[Len(ref)] = "release"
       /\ \A j \in 1..(Len(ref) - 1) : q[j] = ref[j]
  BY <1>1, TopLabel DEF Labels
<1>9. lib.cpu.utcb = UtcbOf(ref, Len(ref) - 2)
  BY <1>0, <1>1, <1>11, UtcbTop
<1>10. /\ pushed1 \in [1..MaxContexts -> ActFrames] /\ pushed1[n] = f
       /\ \A j \in 1..(Len(ref) - 2) : pushed1[j] = lib.pushed[j]
  <2>1. n \in 1..MaxContexts /\ n \in Int /\ MaxContexts \in Int /\ n - 1 = Len(ref) - 2
    BY <1>1, <1>6, ContextsAssumption
  <2>2. \A j \in 1..(n - 1) : j \in 1..MaxContexts /\ j # n
    <3> HIDE DEF n
    <3> QED BY <2>1
  <2> HIDE DEF f, n
  <2>3. pushed1 \in [1..MaxContexts -> ActFrames]
    BY <1>5, <1>8
  <2>4. pushed1[n] = f
    BY <1>5, <2>1
  <2>5. \A j \in 1..(n - 1) : pushed1[j] = lib.pushed[j]
    BY <1>5, <2>2
  <2> QED BY <2>1, <2>3, <2>4, <2>5
<1>12. StackOK(q, lib.frames, lib.mine, pushed1)
  <2>1. ref[Len(ref)] # "pop" /\ pushed1[Len(ref) - 1] = lib.frames[lib.mine[Len(ref) - 1]]
    BY <1>0, <1>1, <1>10
  <2> HIDE DEF q, pushed1
  <2> QED BY <1>1, <1>10, <1>11, <2>1, StackMove
<1>13. "release" \in Labels \ {"body"}
  BY DEF Labels
<1> HIDE DEF n, pushed1
<1> QED BY <1>0, <1>2, <1>4, <1>5, <1>9, <1>10, <1>12, <1>13, HandlerMoves

LEMMA ReleaseFrameStep ==
  ASSUME ActInv, ReleaseFrame
  PROVE  ActInv'
<1> DEFINE n == Len(ref) - 1
           F == SubSeq(lib.frames, 1, lib.mine[n] - 1)
           q == [ref EXCEPT ![Len(ref)] = "pop"]
<1>0. lib.cpu.at.label = "release" /\ lib.cpu.at.label \in Labels
  BY DEF ReleaseFrame, At, Labels
<1>1. /\ lib.cpu.at.label = ref[Len(ref)] /\ lib.cpu.at.id = n /\ lib.cpu.utcb = UtcbOf(ref, n)
      /\ ref \in Seq(Labels) /\ Len(ref) > 1 /\ n \in 1..MaxContexts /\ Len(ref) \in Nat
      /\ StackOK(ref, lib.frames, lib.mine, lib.pushed)
  BY <1>0, HandlerFacts
<1>2. /\ ref' = q /\ lib' = [[lib EXCEPT !.frames = SubSeq(@, 1,
           lib.mine[n] - 1)] EXCEPT !.cpu.at.label = "pop"]
  BY <1>1 DEF ReleaseFrame, Moves, Mine, Becomes
<1>3. /\ ActIs(lib, lib.cpu, lib.page, lib.area, lib.frames, lib.mine, lib.pushed, lib.hung)
      /\ ActTyped(lib.cpu, lib.page, lib.area, lib.frames, lib.mine, lib.pushed, lib.hung, ref)
  BY ActFacts
<1>4. ActIs(lib', [lib.cpu EXCEPT !.at.label = "pop"], lib.page, lib.area, F, lib.mine, lib.pushed,
        lib.hung)
  <2> HIDE DEF n
  <2> QED BY <1>2, <1>3 DEF ActIs
<1>5. lib.cpu \in ActFrames /\ lib.frames \in Seq(ActFrames)
        /\ lib.pushed \in [1..MaxContexts -> ActFrames]
  BY <1>3 DEF ActTyped
<1>6. n \in 1..(Len(ref) - 1) /\ n + 1 = Len(ref) /\ n - 1 = Len(ref) - 2
  BY <1>1
<1>7. ref[n + 1] = "release"
  BY <1>0, <1>1, <1>6
<1>8. F \in Seq(ActFrames)
  <2>1. /\ lib.mine[n] \in Nat /\ 1 <= lib.mine[n] /\ lib.mine[n] <= Len(lib.frames)
        /\ Len(lib.frames) \in Nat
    BY <1>1, <1>6, <1>7, StackRange
  <2> DEFINE k == lib.mine[n] - 1
  <2>2. k \in Nat /\ k <= Len(lib.frames)
    BY <2>1
  <2> HIDE DEF k
  <2>3. SubSeq(lib.frames, 1, k) \in Seq(ActFrames)
    BY <1>5, <2>2
  <2> QED BY <2>3 DEF k
<1>11. /\ q \in Seq(Labels) /\ Len(q) = Len(ref) /\ q[Len(ref)] = "pop"
       /\ \A j \in 1..(Len(ref) - 1) : q[j] = ref[j]
  BY <1>1, TopLabel DEF Labels
<1>9. lib.cpu.utcb = UtcbOf(ref, Len(ref) - 2)
  BY <1>0, <1>1, <1>11, UtcbTop
<1>12. StackOK(q, F, lib.mine, lib.pushed)
  <2>1. ref[Len(ref)] = "release"
    BY <1>0, <1>1
  <2> HIDE DEF q
  <2> QED BY <1>1, <1>5, <1>11, <2>1, StackRelease
<1>13. "pop" \in Labels \ {"body"}
  BY DEF Labels
<1> HIDE DEF n, F
<1> QED BY <1>0, <1>2, <1>4, <1>5, <1>8, <1>9, <1>12, <1>13, HandlerMoves

LEMMA PopSavedStep ==
  ASSUME ActInv, PopSaved
  PROVE  ActInv'
<1> DEFINE n == Len(ref) - 1
           p == lib.pushed[n]
           cpu1 == [lib.cpu EXCEPT !.at = p.at, !.regs = p.regs]
           mine1 == [lib.mine EXCEPT ![n] = 0]
           pushed1 == [lib.pushed EXCEPT ![n] = NoFrame]
           q == Front(ref)
<1>0. lib.cpu.at.label = "pop" /\ lib.cpu.at.label \in Labels
  BY DEF PopSaved, At, Labels
<1>1. /\ lib.cpu.at.label = ref[Len(ref)] /\ lib.cpu.at.id = n /\ lib.cpu.utcb = UtcbOf(ref, n)
      /\ ref \in Seq(Labels) /\ Len(ref) > 1 /\ n \in 1..MaxContexts /\ Len(ref) \in Nat
      /\ StackOK(ref, lib.frames, lib.mine, lib.pushed) /\ ~lib.page.activated /\ ref[1] = "body"
  BY <1>0, HandlerFacts
<1>2. /\ ref' = q
      /\ lib' = [lib EXCEPT !.cpu.at = p.at, !.cpu.regs = p.regs, !.mine[n] = 0, !.pushed[n] = NoFrame]
  BY <1>1 DEF PopSaved, Becomes
<1>3. /\ ActIs(lib, lib.cpu, lib.page, lib.area, lib.frames, lib.mine, lib.pushed, lib.hung)
      /\ ActTyped(lib.cpu, lib.page, lib.area, lib.frames, lib.mine, lib.pushed, lib.hung, ref)
  BY ActFacts
<1>4. ActIs(lib', cpu1, lib.page, lib.area, lib.frames, mine1, pushed1, lib.hung)
  <2> HIDE DEF p, n
  <2> QED BY <1>2, <1>3 DEF ActIs
<1>5. /\ lib.cpu \in ActFrames /\ lib.frames \in Seq(ActFrames)
           /\ lib.pushed \in [1..MaxContexts -> ActFrames]
      /\ lib.mine \in [1..MaxContexts -> Nat] /\ Len(ref) <= MaxContexts + 1
  BY <1>3 DEF ActTyped
<1>6. n \in 1..(Len(ref) - 1) /\ n + 1 = Len(ref) /\ n - 1 = Len(ref) - 2 /\ n \in Nat /\ n > 0
        /\ n - 1 \in Nat
  BY <1>1
<1>7. ref[n + 1] = "pop"
  BY <1>0, <1>1, <1>6
<1>8. p \in ActFrames /\ p = Saved(ref, n)
  BY <1>1, <1>5, <1>6, <1>7 DEF StackOK
<1>9. p.at = Context(n - 1, ref[n]) /\ p.regs = n - 1
  BY <1>8 DEF Saved
<1>10. /\ q \in Seq(Labels) /\ Len(q) = n /\ q[n] = ref[n] /\ q[1] = "body"
       /\ \A j \in 1..n : q[j] = ref[j]
  <2>1. q = SubSeq(ref, 1, n)
    BY DEF Front
  <2> QED BY <1>1, <1>6, <2>1
<1> HIDE DEF q
<1>11. UtcbOf(ref, n) = UtcbOf(q, n - 1)
  <2>1. UtcbOf(ref, n) = UtcbOf(ref, n - 1)
    BY <1>6, <1>7, UtcbBelow
  <2>2. (n - 1) + 1 = n
    BY <1>6
  <2>3. UtcbOf(ref, n - 1) = UtcbOf(q, n - 1)
    BY <1>6, <1>10, <2>2, UtcbSame
  <2> QED BY <2>1, <2>3
<1>12. NoFrame \in ActFrames
  BY ContextsAssumption DEF ActFrames, ActPlaces, NoFrame, Context, Junk, Labels
<1>13. /\ mine1 \in [1..MaxContexts -> Nat] /\ pushed1 \in [1..MaxContexts -> ActFrames]
       /\ \A j \in 1..(Len(ref) - 2) : pushed1[j] = lib.pushed[j] /\ mine1[j] = lib.mine[j]
  BY <1>1, <1>5, <1>12
<1>14. /\ cpu1 \in ActFrames /\ cpu1.at = p.at /\ cpu1.regs = p.regs /\ cpu1.utcb = lib.cpu.utcb
  <2> HIDE DEF p
  <2> QED BY <1>5, <1>8 DEF ActFrames
<1>15. StackOK(q, lib.frames, mine1, pushed1)
  <2>1. Len(q) = Len(ref) - 1 /\ ref[Len(ref)] = "pop" /\ \A j \in 1..(Len(ref) - 1) : q[j] = ref[j]
    BY <1>0, <1>1, <1>10
  <2>2. q \in Seq(Labels)
    BY <1>10
  <2> HIDE DEF mine1, pushed1, n
  <2> QED BY <1>1, <1>13, <2>1, <2>2, StackPop
<1>16. cpu1.at = Here(q) /\ cpu1.at.id = n - 1 /\ cpu1.at.label \in Labels
  <2>1. ref[n] \in Labels
    BY <1>1, <1>6
  <2> HIDE DEF cpu1, p, n
  <2> QED BY <1>9, <1>10, <1>14, <2>1 DEF Here, Context
<1> HIDE DEF cpu1, p, mine1, pushed1, n
<1>17. ModeOK(cpu1, lib.page, lib.area, q)
  BY <1>1, <1>9, <1>10, <1>11, <1>14, <1>16 DEF ModeOK, Labels, EntryLabels
<1>18. FramesFit(cpu1.at.label, lib.frames, mine1, pushed1, q)
  BY <1>15, <1>16 DEF FramesFit, Labels
<1>19. 1 <= Len(q) /\ Len(q) <= MaxContexts + 1
  BY <1>1, <1>10, ContextsAssumption
<1>20. ActOK(cpu1, lib.page, lib.area, lib.frames, mine1, pushed1, lib.hung, q)
  BY <1>3, <1>10, <1>13, <1>14, <1>17, <1>18, <1>19 DEF ActOK, ActTyped
<1> QED BY <1>2, <1>4, <1>20, ActPack

LEMMA ActInitInv == ActInit => ActInv
<1> SUFFICES ASSUME ActInit PROVE ActInv
  OBVIOUS
<1> DEFINE cpu == [at |-> Context(0, "body"), regs |-> 0, utcb |-> 0]
           page == [activated |-> FALSE, transition |-> FALSE, saved |-> Context(0, "body"),
                    stackfault |-> FALSE]
           mine == [i \in 1..MaxContexts |-> 0]
           pushed == [i \in 1..MaxContexts |-> NoFrame]
           r == <<"body">>
<1>1. /\ ref = r
      /\ lib = [kind |-> ActKind, cpu |-> cpu, page |-> page, area |-> 0, frames |-> <<>>,
                mine |-> mine, pushed |-> pushed, hung |-> FALSE]
  BY DEF ActInit
<1>2. NoFrame \in ActFrames /\ cpu \in ActFrames /\ page \in ActPages
  BY ContextsAssumption DEF ActFrames, ActPlaces, ActPages, NoFrame, Context, Junk, Labels
<1>3. mine \in [1..MaxContexts -> Nat] /\ pushed \in [1..MaxContexts -> ActFrames]
  BY <1>2
<1>4. r \in Seq(Labels) /\ Len(r) = 1 /\ r[1] = "body"
  BY DEF Labels
<1>5. cpu.at = Context(0, "body") /\ cpu.at.id = 0 /\ cpu.at.label = "body" /\ cpu.regs = 0
        /\ cpu.utcb = 0
  BY DEF Context
<1>6. ~page.activated
  OBVIOUS
<1> HIDE DEF cpu, page, mine, pushed, r
<1>7. lib \in ActLib
  <2>1. <<>> \in Seq(ActFrames)
    OBVIOUS
  <2> QED BY <1>1, <1>2, <1>3, <2>1 DEF ActLib
<1>8. UtcbOf(r, 0) = 0
  BY <1>4, UtcbOwn
<1>9. Here(r) = Context(0, "body")
  BY <1>4 DEF Here
<1>10. ModeOK(cpu, page, 0, r)
  BY <1>4, <1>5, <1>6, <1>8, <1>9 DEF ModeOK, Labels, EntryLabels
<1>11. StackOK(r, <<>>, mine, pushed)
  <2>1. Len(r) - 1 = 0 /\ Kept(r, 0) = {} /\ Len(<<>>) = 0
    BY <1>4 DEF Kept
  <2>2. Cardinality({}) = 0
    BY FS_EmptySet
  <2>3. Len(<<>>) = Cardinality(Kept(r, Len(r) - 1))
    BY <2>1, <2>2
  <2>4. \A i \in 1..(Len(r) - 1) : FALSE
    <3>1. \A i \in 1..0 : FALSE
      OBVIOUS
    <3> QED BY <2>1, <3>1
  <2> QED BY <2>3, <2>4 DEF StackOK
<1>12. FramesFit(cpu.at.label, <<>>, mine, pushed, r)
  BY <1>5, <1>11 DEF FramesFit
<1>13. ActTyped(cpu, page, 0, <<>>, mine, pushed, FALSE, r)
  BY <1>2, <1>3, <1>4, ContextsAssumption DEF ActTyped
<1>14. ActOK(cpu, page, 0, <<>>, mine, pushed, FALSE, r)
  BY <1>10, <1>12, <1>13 DEF ActOK
<1> QED BY <1>1, <1>7, <1>14 DEF ActInv

LEMMA ActStepInv == ActInv /\ [ActNext]_vars => ActInv'
<1>1. ASSUME ActInv, ActNext PROVE ActInv'
  BY <1>1, FaultStep, EntryStep, AllocFrameStep, HandleActivatedStep, LeaveActivatedStep,
     RestoreRegistersStep, ReturnToSavedStep, FrameRunStep, HandlerDoneStep, PushSavedStep,
     ReleaseFrameStep, PopSavedStep DEF ActNext
<1>2. ASSUME ActInv, UNCHANGED vars PROVE ActInv'
  BY <1>2 DEF ActInv, vars
<1> QED BY <1>1, <1>2

LEMMA ActInvResumes == ActInv => ResumesExactly
<1> SUFFICES ASSUME ActInv, Running
             PROVE  /\ lib.cpu.at = Context(Len(ref) - 1, ref[(Len(ref) - 1) + 1])
                    /\ lib.cpu.regs = Len(ref) - 1
                    /\ lib.cpu.utcb = UtcbOf(ref, Len(ref) - 1)
                    /\ ~lib.page.activated
                    /\ Len(lib.frames) = Cardinality({i \in 1..(Len(ref) - 1) : ref[i + 1] # "pop"})
  BY DEF ResumesExactly
<1>1. /\ ModeOK(lib.cpu, lib.page, lib.area, ref) /\ Len(ref) \in Nat
      /\ FramesFit(lib.cpu.at.label, lib.frames, lib.mine, lib.pushed, ref)
      /\ lib.cpu.at.label \in Labels \cup EntryLabels
  BY ActFacts
<1>2. lib.cpu.at.label \in Labels /\ lib.cpu.at.label \notin {"handle", "run"}
  BY <1>1 DEF Running, EntryLabels
<1>3. /\ lib.cpu.at = Here(ref) /\ lib.cpu.regs = Len(ref) - 1
      /\ lib.cpu.utcb = UtcbOf(ref, Len(ref) - 1) /\ ~lib.page.activated
  BY <1>1, <1>2 DEF ModeOK
<1>4. Len(lib.frames) = Cardinality(Kept(ref, Len(ref) - 1))
  BY <1>1, <1>2 DEF FramesFit, StackOK
<1>5. (Len(ref) - 1) + 1 = Len(ref)
  BY <1>1
<1> QED BY <1>3, <1>4, <1>5 DEF Here, Kept

\* Faults of a program that handles its own faults, nested to any depth and
\* also on the way back from a handler: whatever context runs has its own
\* registers, message buffers and place, and the exception frames are those of
\* the handlers that have not released theirs.
THEOREM ActivationResumes == ActSpec => []ResumesExactly
BY ActInitInv, ActStepInv, ActInvResumes, PTL DEF ActSpec

-----------------------------------------------------------------------------
(***************************************************************************)
(* Storage.                                                                *)
(***************************************************************************)
Folios == 1..MaxFolios
StorageLocks == StorageThreads \cup {NoThread}
Modes == {"allocing", "short", "stable", "freeing"}
Descs == [alloced : SUBSET Objects, free : Nat, mode : Modes, lock : StorageLocks,
          shadow : Folios \X Objects]
StoragePlaces == {"idle", "check", "folio", "pluck", "take", "free", "clear"}

StorageLib ==
    [kind : {StorageKind}, desc : UNION {[F -> Descs] : F \in SUBSET Folios},
     list : [Lists -> Seq(Folios)], lock : StorageLocks, low : StorageLocks,
     do_serialize : BOOLEAN, free_count : Int, calls : Nat,
     pc : [StorageThreads -> StoragePlaces], force : [StorageThreads -> BOOLEAN],
     expect : [StorageThreads -> Expectancies], object : [StorageThreads -> Nat \X Nat]]

StorageTypeOK == lib \in StorageLib /\ ref \in SUBSET (Folios \X Objects)

\* The invariant is stated of the parts of the state that matter: descriptors
\* D, lists L, the lists' lock K, places P and objects O of the threads, and
\* the objects R of the clients.

\* An object in use is that of a client, a shadow or being freed, and only one
\* of these.
InUse(D, o) == o[1] \in DOMAIN D /\ o[2] \in D[o[1]].alloced
Frees(P, t) == P[t] \in {"free", "clear"}

HasOwner(D, P, O, R, o) ==
    \/ o \in R
    \/ \E g \in DOMAIN D : D[g].shadow = o
    \/ \E t \in StorageThreads : Frees(P, t) /\ O[t] = o

OwnersOK(D, P, O, R) ==
    /\ \A o \in R : InUse(D, o)
    /\ \A f \in DOMAIN D : InUse(D, D[f].shadow) /\ D[f].shadow \notin R
    /\ \A f, g \in DOMAIN D : D[f].shadow = D[g].shadow => f = g
    /\ \A t \in StorageThreads : Frees(P, t) =>
          /\ O[t] \in Folios \X Objects /\ InUse(D, O[t]) /\ O[t] \notin R
          /\ \A f \in DOMAIN D : D[f].shadow # O[t]
          /\ \A u \in StorageThreads : Frees(P, u) /\ O[u] = O[t] => u = t
    /\ \A f \in DOMAIN D : \A i \in D[f].alloced : HasOwner(D, P, O, R, <<f, i>>)

\* Who holds which lock.
LocksOK(D, K, P, O) ==
    /\ \A t \in StorageThreads : P[t] \in {"take", "clear"} =>
          O[t][1] \in DOMAIN D /\ D[O[t][1]].lock = t
    /\ \A f \in DOMAIN D : D[f].lock # NoThread =>
          P[D[f].lock] \in {"take", "clear"} /\ O[D[f].lock][1] = f
    /\ K # NoThread => P[K] = "take" /\ D[O[K][1]].free = 1
    /\ \A t \in StorageThreads : P[t] = "take" =>
          D[O[t][1]].free > 0 /\ (D[O[t][1]].free = 1 => K = t)

\* The number of free objects is one ahead while an object is being cleared.
CountOK(D, P, f) ==
    LET n == Cardinality(Objects \ D[f].alloced)
    IN  /\ (D[f].lock # NoThread /\ P[D[f].lock] = "clear") => D[f].free = n + 1
        /\ ~(D[f].lock # NoThread /\ P[D[f].lock] = "clear") => D[f].free = n

\* Whether folio f is on list l.
On(L, l, f) == \E i \in DOMAIN L[l] : L[l][i] = f

\* The lists have no element twice.
Simple(L) ==
    /\ \A l \in Lists : \A i, j \in DOMAIN L[l] : L[l][i] = L[l][j] => i = j
    /\ \A l, m \in Lists, f \in Folios : On(L, l, f) /\ On(L, m, f) => l = m

StorageListsOK(D, L) ==
    /\ Simple(L)
    /\ \A f \in Folios :
          (\E l \in Lists : On(L, l, f)) <=> (f \in DOMAIN D /\ D[f].free > 0)

StorageOK(D, L, K, P, O, R) ==
    /\ OwnersOK(D, P, O, R) /\ LocksOK(D, K, P, O)
    /\ \A f \in DOMAIN D : CountOK(D, P, f)
    /\ StorageListsOK(D, L)

StorageInv ==
    /\ StorageTypeOK
    /\ StorageOK(lib.desc, lib.list, lib.lock, lib.pc, lib.object, ref)

DescMaps == UNION {[F -> Descs] : F \in SUBSET Folios}
ListMaps == [Lists -> Seq(Folios)]

LEMMA FolioFacts ==
  /\ FolioObjects \in Nat /\ FolioObjects > 2 /\ MaxFolios \in Nat /\ MaxFolios > 1
  /\ NoThread \notin StorageThreads /\ CountModulus \in Nat /\ CountModulus > 0
  /\ 1 \in Folios /\ 2 \in Folios /\ Folios \subseteq Nat
  /\ Objects \subseteq Nat /\ 0 \in Objects /\ 1 \in Objects
  BY FolioAssumption DEF Folios, Objects

LEMMA DescMapsTyped ==
  ASSUME NEW D \in DescMaps
  PROVE  DOMAIN D \in SUBSET Folios /\ (\A f \in DOMAIN D : D[f] \in Descs)
  BY DEF DescMaps

LEMMA ObjectsFinite ==
  ASSUME NEW S \in SUBSET Objects
  PROVE  IsFiniteSet(S) /\ Cardinality(S) \in Nat /\ (Cardinality(S) = 0 <=> S = {})
<1>1. IsFiniteSet(Objects)
  BY FolioFacts, FS_Interval DEF Objects
<1>2. IsFiniteSet(S)
  BY <1>1, FS_Subset
<1> QED BY <1>2, FS_EmptySet, FS_CardinalityType

LEMMA UnlinkedOne ==
  ASSUME NEW s \in Seq(Folios), NEW k \in DOMAIN s,
         \A i, j \in DOMAIN s : s[i] = s[j] => i = j
  PROVE  LET r == RemoveAt(s, k)
         IN  /\ r \in Seq(Folios)
             /\ \A i, j \in DOMAIN r : r[i] = r[j] => i = j
             /\ \A g \in Folios : (\E i \in DOMAIN r : r[i] = g)
                                  <=> (g # s[k] /\ \E i \in DOMAIN s : s[i] = g)
<1> DEFINE n == Len(s)
           r == RemoveAt(s, k)
<1>1. n \in Nat /\ k \in 1..n /\ DOMAIN s = 1..n
  OBVIOUS
<1>2. /\ r \in Seq(Folios) /\ Len(r) = n - 1
      /\ \A i \in 1..(n - 1) : r[i] = IF i < k THEN s[i] ELSE s[i + 1]
  <2>1. SubSeq(s, 1, k - 1) \in Seq(Folios) /\ Len(SubSeq(s, 1, k - 1)) = k - 1
        /\ \A i \in 1..(k - 1) : SubSeq(s, 1, k - 1)[i] = s[i]
    BY <1>1
  <2>2. SubSeq(s, k + 1, n) \in Seq(Folios) /\ Len(SubSeq(s, k + 1, n)) = n - k
        /\ \A i \in 1..(n - k) : SubSeq(s, k + 1, n)[i] = s[k + i]
    <3>1. k + 1 \in Int /\ n \in Int /\ \A i \in (k + 1)..n : s[i] \in Folios
      BY <1>1
    <3>2. /\ SubSeq(s, k + 1, n) \in Seq(Folios)
          /\ Len(SubSeq(s, k + 1, n)) = IF k + 1 <= n THEN n - (k + 1) + 1 ELSE 0
          /\ \A i \in 1..(n - (k + 1) + 1) : SubSeq(s, k + 1, n)[i] = s[k + 1 + i - 1]
      BY <3>1, SubSeqProperties
    <3> HIDE DEF n
    <3>3. n - (k + 1) + 1 = n - k /\ \A i \in 1..(n - k) : k + 1 + i - 1 = k + i
      BY <1>1
    <3> QED BY <1>1, <3>2, <3>3
  <2> DEFINE a == SubSeq(s, 1, k - 1)
             b == SubSeq(s, k + 1, n)
  <2>3. r = a \o b
    BY DEF RemoveAt
  <2> HIDE DEF a, b, r
  <2>4. /\ r \in Seq(Folios) /\ Len(r) = n - 1
        /\ \A i \in 1..(n - 1) : r[i] = IF i <= k - 1 THEN a[i] ELSE b[i - (k - 1)]
    <3>1. a \in Seq(Folios) /\ b \in Seq(Folios) /\ Len(a) = k - 1 /\ Len(b) = n - k
      BY <2>1, <2>2 DEF a, b
    <3>2. /\ r \in Seq(Folios) /\ Len(r) = Len(a) + Len(b)
          /\ \A i \in 1..(Len(a) + Len(b)) : r[i] = IF i <= Len(a) THEN a[i] ELSE b[i - Len(a)]
      BY <2>3, <3>1, ConcatProperties
    <3> HIDE DEF n
    <3>3. (k - 1) + (n - k) = n - 1
      BY <1>1
    <3> QED BY <3>1, <3>2, <3>3
  <2>5. ASSUME NEW i \in 1..(n - 1) PROVE r[i] = IF i < k THEN s[i] ELSE s[i + 1]
    <3>1. CASE i < k
      <4>1. i \in 1..(k - 1) /\ i <= k - 1
        BY <1>1, <3>1
      <4> QED BY <2>1, <2>4, <4>1, <3>1 DEF a
    <3>2. CASE ~(i < k)
      <4>1. i - (k - 1) \in 1..(n - k) /\ ~(i <= k - 1) /\ k + (i - (k - 1)) = i + 1
        BY <1>1, <3>2
      <4>2. b[i - (k - 1)] = s[i + 1]
        BY <2>2, <4>1 DEF b
      <4> QED BY <2>4, <4>1, <4>2, <3>2
    <3> QED BY <3>1, <3>2
  <2> QED BY <2>4, <2>5
<1> HIDE DEF r, n
<1>3. DOMAIN r = 1..(n - 1)
  BY <1>1, <1>2
<1>4. ASSUME NEW i \in DOMAIN r, NEW j \in DOMAIN r, r[i] = r[j] PROVE i = j
  <2>1. i \in 1..(n - 1) /\ j \in 1..(n - 1)
    BY <1>3
  <2>2. /\ i \in DOMAIN s /\ i + 1 \in DOMAIN s /\ j \in DOMAIN s /\ j + 1 \in DOMAIN s
        /\ i \in Int /\ j \in Int /\ k \in Int
    BY <1>1, <2>1
  <2>3. r[i] = (IF i < k THEN s[i] ELSE s[i + 1]) /\ r[j] = (IF j < k THEN s[j] ELSE s[j + 1])
    BY <1>2, <2>1
  <2>4. CASE i < k /\ j < k
    BY <1>4, <2>2, <2>3, <2>4
  <2>5. CASE i < k /\ ~(j < k)
    <3>1. i = j + 1
      BY <1>4, <2>2, <2>3, <2>5
    <3> QED BY <2>2, <2>5, <3>1
  <2>6. CASE ~(i < k) /\ j < k
    <3>1. i + 1 = j
      BY <1>4, <2>2, <2>3, <2>6
    <3> QED BY <2>2, <2>6, <3>1
  <2>7. CASE ~(i < k) /\ ~(j < k)
    <3>1. i + 1 = j + 1
      BY <1>4, <2>2, <2>3, <2>7
    <3> QED BY <2>2, <3>1
  <2> QED BY <2>4, <2>5, <2>6, <2>7
<1>5. ASSUME NEW g \in Folios
      PROVE  (\E i \in DOMAIN r : r[i] = g) <=> (g # s[k] /\ \E i \in DOMAIN s : s[i] = g)
  <2>1. ASSUME NEW i \in DOMAIN r, r[i] = g
        PROVE  g # s[k] /\ \E j \in DOMAIN s : s[j] = g
    <3>1. i \in 1..(n - 1)
      BY <1>3
    <3>2. CASE i < k
      BY <1>1, <1>2, <2>1, <3>1, <3>2
    <3>3. CASE ~(i < k)
      <4>1. i + 1 \in DOMAIN s /\ i + 1 # k
        BY <1>1, <3>1, <3>3
      <4> QED BY <1>1, <1>2, <2>1, <3>1, <3>3, <4>1
    <3> QED BY <3>2, <3>3
  <2>2. ASSUME NEW j \in DOMAIN s, s[j] = g, g # s[k]
        PROVE  \E i \in DOMAIN r : r[i] = g
    <3>1. j \in 1..n /\ j # k
      BY <1>1, <2>2
    <3>2. CASE j < k
      <4>1. j \in 1..(n - 1)
        BY <1>1, <3>1, <3>2
      <4> QED BY <1>2, <1>3, <2>2, <3>2, <4>1
    <3>3. CASE ~(j < k)
      <4>1. j - 1 \in 1..(n - 1) /\ ~(j - 1 < k) /\ (j - 1) + 1 = j
        BY <1>1, <3>1, <3>3
      <4> QED BY <1>2, <1>3, <2>2, <4>1
    <3> QED BY <3>2, <3>3
  <2> QED BY <2>1, <2>2
<1> QED BY <1>2, <1>4, <1>5 DEF r

LEMMA UnlinkedIs ==
  ASSUME NEW L \in ListMaps, Simple(L), NEW f \in Folios
  PROVE  /\ Unlinked(L, f) \in ListMaps /\ Simple(Unlinked(L, f))
         /\ \A l \in Lists, g \in Folios : On(Unlinked(L, f), l, g) <=> (g # f /\ On(L, l, g))
<1> DEFINE U == Unlinked(L, f)
<1>1. ASSUME NEW l \in Lists
      PROVE  /\ U[l] \in Seq(Folios)
             /\ \A i, j \in DOMAIN U[l] : U[l][i] = U[l][j] => i = j
             /\ \A g \in Folios : On(U, l, g) <=> (g # f /\ On(L, l, g))
  <2>1. L[l] \in Seq(Folios) /\ \A i, j \in DOMAIN L[l] : L[l][i] = L[l][j] => i = j
    BY DEF ListMaps, Simple
  <2>2. CASE f \notin Range(L[l])
    <3>1. U[l] = L[l] /\ ~On(L, l, f)
      BY <2>2 DEF Unlinked, Range, On
    <3> QED BY <2>1, <3>1 DEF On
  <2>3. CASE f \in Range(L[l])
    <3>1. PICK k \in DOMAIN L[l] : U[l] = RemoveAt(L[l], k) /\ L[l][k] = f
      BY <2>3 DEF Unlinked, Range
    <3> DEFINE v == RemoveAt(L[l], k)
    <3>2. /\ v \in Seq(Folios)
          /\ \A i, j \in DOMAIN v : v[i] = v[j] => i = j
          /\ \A g \in Folios : (\E i \in DOMAIN v : v[i] = g)
                               <=> (g # L[l][k] /\ \E i \in DOMAIN L[l] : L[l][i] = g)
      BY <2>1, UnlinkedOne
    <3> HIDE DEF v
    <3>3. U[l] = v /\ L[l][k] = f
      BY <3>1 DEF v
    <3> HIDE DEF U
    <3> QED BY <3>2, <3>3 DEF On
  <2> QED BY <2>2, <2>3
<1>2. U \in ListMaps
  <2>1. U = [l \in Lists |-> U[l]]
    BY DEF Unlinked
  <2> HIDE DEF U
  <2> QED BY <1>1, <2>1 DEF ListMaps
<1> HIDE DEF U
<1>3. Simple(U)
  BY <1>1 DEF Simple
<1> QED BY <1>1, <1>2, <1>3 DEF U

LEMMA LinkedToIs ==
  ASSUME NEW L \in ListMaps, Simple(L), NEW f \in Folios, NEW m \in Lists,
         \A l \in Lists : ~On(L, l, f)
  PROVE  /\ LinkedTo(L, m, f) \in ListMaps /\ Simple(LinkedTo(L, m, f))
         /\ \A l \in Lists, g \in Folios :
               On(LinkedTo(L, m, f), l, g) <=> (On(L, l, g) \/ (l = m /\ g = f))
<1> DEFINE s == L[m]
           r == <<f>> \o s
           U == LinkedTo(L, m, f)
<1>1. s \in Seq(Folios) /\ Len(s) \in Nat /\ DOMAIN s = 1..Len(s)
  BY DEF ListMaps
<1>2. r \in Seq(Folios) /\ DOMAIN r = 1..(Len(s) + 1)
      /\ \A i \in 1..(Len(s) + 1) : r[i] = IF i = 1 THEN f ELSE s[i - 1]
  BY <1>1
<1>3. U = [L EXCEPT ![m] = r]
  BY DEF LinkedTo
<1> HIDE DEF r, U
<1>4. U \in ListMaps /\ U[m] = r /\ \A l \in Lists : l # m => U[l] = L[l]
  BY <1>2, <1>3 DEF ListMaps
<1>5. \A g \in Folios : On(U, m, g) <=> (On(L, m, g) \/ g = f)
  <2> SUFFICES ASSUME NEW g \in Folios PROVE On(U, m, g) <=> (On(L, m, g) \/ g = f)
    OBVIOUS
  <2>1. ASSUME On(U, m, g), g # f PROVE On(L, m, g)
    <3>1. PICK i \in 1..(Len(s) + 1) : r[i] = g
      BY <1>2, <1>4, <2>1 DEF On
    <3>2. i - 1 \in DOMAIN s /\ s[i - 1] = g
      BY <1>1, <1>2, <2>1, <3>1
    <3> QED BY <3>2 DEF On
  <2>2. ASSUME On(L, m, g) PROVE On(U, m, g)
    <3>1. PICK i \in DOMAIN s : s[i] = g
      BY <2>2 DEF On
    <3>2. i + 1 \in 1..(Len(s) + 1) /\ i + 1 # 1 /\ (i + 1) - 1 = i
      BY <1>1
    <3>3. r[i + 1] = g
      BY <1>2, <3>1, <3>2
    <3> QED BY <1>2, <1>4, <3>2, <3>3 DEF On
  <2>3. On(U, m, f)
    <3>1. 1 \in DOMAIN r /\ r[1] = f
      BY <1>1, <1>2
    <3> QED BY <1>4, <3>1 DEF On
  <2> QED BY <2>1, <2>2, <2>3
<1>6. \A l \in Lists, g \in Folios : l # m => (On(U, l, g) <=> On(L, l, g))
  BY <1>4 DEF On
<1>7. Simple(U)
  <2>1. ASSUME NEW i \in DOMAIN r, NEW j \in DOMAIN r, r[i] = r[j] PROVE i = j
    <3>1. \A k \in DOMAIN s : s[k] # f
      BY DEF On
    <3>2. \A k \in 1..(Len(s) + 1) : k # 1 => k - 1 \in DOMAIN s
      BY <1>1
    <3>3. \A a, b \in DOMAIN s : s[a] = s[b] => a = b
      BY DEF Simple
    <3>4. CASE i = 1
      BY <1>1, <1>2, <2>1, <3>1, <3>2, <3>4
    <3>5. CASE j = 1
      BY <1>1, <1>2, <2>1, <3>1, <3>2, <3>5
    <3>6. CASE i # 1 /\ j # 1
      <4>1. i - 1 \in DOMAIN s /\ j - 1 \in DOMAIN s /\ s[i - 1] = s[j - 1]
        BY <1>2, <2>1, <3>2, <3>6
      <4>2. i - 1 = j - 1
        BY <3>3, <4>1
      <4> QED BY <1>1, <1>2, <4>2
    <3> QED BY <3>4, <3>5, <3>6
  <2>2. \A l \in Lists : \A i, j \in DOMAIN U[l] : U[l][i] = U[l][j] => i = j
    BY <1>4, <2>1 DEF Simple
  <2>3. \A l, k \in Lists, g \in Folios : On(U, l, g) /\ On(U, k, g) => l = k
    BY <1>5, <1>6 DEF Simple
  <2> QED BY <2>2, <2>3 DEF Simple
<1> QED BY <1>4, <1>5, <1>6, <1>7 DEF U

Parts(D, L, K, P, O, R) ==
    /\ D \in DescMaps /\ L \in ListMaps /\ K \in StorageLocks
    /\ P \in [StorageThreads -> StoragePlaces] /\ O \in [StorageThreads -> Nat \X Nat]
    /\ R \in SUBSET (Folios \X Objects)

\* Two functions that differ at most for one argument.
SameBut(F, G, x) == DOMAIN G = DOMAIN F /\ \A y \in DOMAIN F : y # x => G[y] = F[y]

\* Who owns what depends on the objects in use, the shadows and those that free.
LEMMA OwnersSame ==
  ASSUME NEW D, NEW D1, NEW P, NEW P1, NEW O, NEW O1, NEW R, OwnersOK(D, P, O, R),
         DOMAIN D1 = DOMAIN D,
         \A f \in DOMAIN D : D1[f].alloced = D[f].alloced /\ D1[f].shadow = D[f].shadow,
         \A t \in StorageThreads : Frees(P1, t) <=> Frees(P, t),
         \A t \in StorageThreads : Frees(P, t) => O1[t] = O[t]
  PROVE  OwnersOK(D1, P1, O1, R)
<1>1. \A o : InUse(D1, o) <=> InUse(D, o)
  BY DEF InUse
<1>2. (\A o \in R : InUse(D1, o))
      /\ (\A f \in DOMAIN D1 : InUse(D1, D1[f].shadow) /\ D1[f].shadow \notin R)
      /\ (\A f, g \in DOMAIN D1 : D1[f].shadow = D1[g].shadow => f = g)
  BY <1>1 DEF OwnersOK
<1>3. ASSUME NEW t \in StorageThreads, Frees(P1, t)
      PROVE  /\ O1[t] \in Folios \X Objects /\ InUse(D1, O1[t]) /\ O1[t] \notin R
             /\ \A f \in DOMAIN D1 : D1[f].shadow # O1[t]
             /\ \A u \in StorageThreads : Frees(P1, u) /\ O1[u] = O1[t] => u = t
  BY <1>1, <1>3 DEF OwnersOK
<1>4. ASSUME NEW f \in DOMAIN D1, NEW i \in D1[f].alloced
      PROVE  HasOwner(D1, P1, O1, R, <<f, i>>)
  <2>1. f \in DOMAIN D /\ i \in D[f].alloced
    OBVIOUS
  <2>2. HasOwner(D, P, O, R, <<f, i>>)
    BY <2>1 DEF OwnersOK
  <2> QED BY <2>2 DEF HasOwner
<1> QED BY <1>2, <1>3, <1>4 DEF OwnersOK

\* A thread goes on without locks or objects.
Early == {"idle", "check", "folio", "pluck"}

LEMMA MovesOn ==
  ASSUME NEW D, NEW L, NEW K, NEW P, NEW O, NEW R, NEW P1, NEW t \in StorageThreads,
         Parts(D, L, K, P, O, R), StorageOK(D, L, K, P, O, R),
         P1 \in [StorageThreads -> StoragePlaces], SameBut(P, P1, t), P[t] \in Early, P1[t] \in Early
  PROVE  StorageOK(D, L, K, P1, O, R)
<1>1. \A u \in StorageThreads : u # t => P1[u] = P[u]
  BY DEF Parts, SameBut
<1>2. \A u \in StorageThreads : Frees(P1, u) <=> Frees(P, u)
  BY <1>1 DEF Frees, Early
<1>3. OwnersOK(D, P1, O, R)
  BY <1>2, OwnersSame DEF StorageOK
<1>4. \A u \in StorageThreads : /\ P1[u] = "take" <=> P[u] = "take"
                                /\ P1[u] = "clear" <=> P[u] = "clear"
  BY <1>1 DEF Early
<1>5. \A f \in DOMAIN D : D[f].lock \in StorageLocks
  BY DescMapsTyped DEF Parts, Descs
<1>6. LocksOK(D, K, P1, O)
  BY <1>4, <1>5 DEF StorageOK, LocksOK, StorageLocks, Parts
<1>7. \A f \in DOMAIN D : CountOK(D, P1, f)
  BY <1>4, <1>5 DEF StorageOK, CountOK, StorageLocks
<1> QED BY <1>3, <1>6, <1>7 DEF StorageOK

LEMMA PluckKeeps ==
  ASSUME NEW D, NEW L, NEW K, NEW P, NEW O, NEW R,
         NEW D1, NEW L1, NEW K1, NEW P1, NEW O1, NEW t \in StorageThreads, NEW f \in DOMAIN D,
         Parts(D, L, K, P, O, R), StorageOK(D, L, K, P, O, R), Parts(D1, L1, K1, P1, O1, R),
         SameBut(D, D1, f), SameBut(P, P1, t), SameBut(O, O1, t),
         P[t] = "pluck", K = NoThread, D[f].lock = NoThread, D[f].free > 0,
         D1[f].alloced = D[f].alloced, D1[f].shadow = D[f].shadow, D1[f].free = D[f].free,
         D1[f].lock = t, P1[t] = "take", O1[t][1] = f,
         K1 = IF D[f].free = 1 THEN t ELSE NoThread,
         Simple(L1),
         \A g \in Folios : (\E l \in Lists : On(L1, l, g)) <=> (\E l \in Lists : On(L, l, g))
  PROVE  StorageOK(D1, L1, K1, P1, O1, R)
<1>0. /\ \A u \in StorageThreads : u # t => P1[u] = P[u] /\ O1[u] = O[u]
      /\ DOMAIN D1 = DOMAIN D /\ \A g \in DOMAIN D : g # f => D1[g] = D[g]
  BY DEF Parts, SameBut
<1>1. \A u \in StorageThreads : /\ Frees(P1, u) <=> Frees(P, u)
                                /\ Frees(P, u) => O1[u] = O[u]
  BY <1>0 DEF Frees
<1>2. \A g \in DOMAIN D : /\ D1[g].alloced = D[g].alloced /\ D1[g].shadow = D[g].shadow
                          /\ D1[g].free = D[g].free
  BY <1>0
<1>3. OwnersOK(D1, P1, O1, R)
  BY <1>0, <1>1, <1>2, OwnersSame DEF StorageOK
<1>4. \A g \in DOMAIN D : D[g].lock \in StorageLocks /\ D[g].lock # t
  <2>1. \A g \in DOMAIN D : D[g].lock \in StorageLocks
    BY DescMapsTyped DEF Parts, Descs
  <2>2. t # NoThread
    BY FolioFacts
  <2> QED BY <2>1, <2>2 DEF StorageOK, LocksOK
<1>5. LocksOK(D1, K1, P1, O1)
  <2>1. ASSUME NEW u \in StorageThreads, P1[u] \in {"take", "clear"}
        PROVE  O1[u][1] \in DOMAIN D1 /\ D1[O1[u][1]].lock = u
    <3>1. CASE u = t
      BY <1>0, <3>1
    <3>2. CASE u # t
      <4>1. O[u][1] \in DOMAIN D /\ D[O[u][1]].lock = u /\ u # NoThread
        BY <1>0, <2>1, <3>2, FolioFacts DEF StorageOK, LocksOK
      <4> QED BY <1>0, <3>2, <4>1
    <3> QED BY <3>1, <3>2
  <2>2. ASSUME NEW g \in DOMAIN D1, D1[g].lock # NoThread
        PROVE  P1[D1[g].lock] \in {"take", "clear"} /\ O1[D1[g].lock][1] = g
    <3>1. CASE g = f
      BY <3>1
    <3>2. CASE g # f
      <4>1. D1[g] = D[g] /\ D[g].lock \in StorageThreads /\ D[g].lock # t
        BY <1>0, <1>4, <2>2, <3>2 DEF StorageLocks
      <4>2. P[D[g].lock] \in {"take", "clear"} /\ O[D[g].lock][1] = g
        BY <1>0, <2>2, <4>1 DEF StorageOK, LocksOK
      <4> QED BY <1>0, <4>1, <4>2
    <3> QED BY <3>1, <3>2
  <2>3. K1 # NoThread => P1[K1] = "take" /\ D1[O1[K1][1]].free = 1
    OBVIOUS
  <2>4. ASSUME NEW u \in StorageThreads, P1[u] = "take"
        PROVE  D1[O1[u][1]].free > 0 /\ (D1[O1[u][1]].free = 1 => K1 = u)
    <3>1. CASE u = t
      BY <3>1
    <3>2. CASE u # t
      <4>1. P[u] = "take" /\ O1[u] = O[u]
        BY <1>0, <2>4, <3>2
      <4>2. O[u][1] \in DOMAIN D /\ D[O[u][1]].free > 0 /\ (D[O[u][1]].free = 1 => K = u)
        BY <4>1 DEF StorageOK, LocksOK
      <4> QED BY <1>2, <4>1, <4>2, FolioFacts
    <3> QED BY <3>1, <3>2
  <2> QED BY <2>1, <2>2, <2>3, <2>4 DEF LocksOK
<1>6. ASSUME NEW g \in DOMAIN D1 PROVE CountOK(D1, P1, g)
  <2>1. CountOK(D, P, g) /\ g \in DOMAIN D
    BY <1>0 DEF StorageOK
  <2>2. CASE g = f
    BY <1>2, <2>1, <2>2, FolioFacts DEF CountOK
  <2>3. CASE g # f
    <3>1. D1[g] = D[g] /\ (D[g].lock # NoThread => P1[D[g].lock] = P[D[g].lock])
      BY <1>0, <1>4, <2>1, <2>3 DEF StorageLocks
    <3> QED BY <2>1, <3>1 DEF CountOK
  <2> QED BY <2>2, <2>3
<1>7. StorageListsOK(D1, L1)
  BY <1>0, <1>2 DEF StorageOK, StorageListsOK
<1> QED BY <1>3, <1>5, <1>6, <1>7 DEF StorageOK

\* The cardinality of what is free when one more object is used, or one less.
LEMMA FreeCounts ==
  ASSUME NEW A \in SUBSET Objects, NEW i \in Objects
  PROVE  /\ i \notin A => Cardinality(Objects \ (A \cup {i})) = Cardinality(Objects \ A) - 1
         /\ i \in A => Cardinality(Objects \ (A \ {i})) = Cardinality(Objects \ A) + 1
<1>1. ASSUME i \notin A PROVE Cardinality(Objects \ (A \cup {i})) = Cardinality(Objects \ A) - 1
  <2>1. Objects \ (A \cup {i}) = (Objects \ A) \ {i} /\ i \in Objects \ A
    BY <1>1
  <2>2. IsFiniteSet(Objects \ A)
    BY ObjectsFinite
  <2> QED BY <2>1, <2>2, FS_RemoveElement
<1>2. ASSUME i \in A PROVE Cardinality(Objects \ (A \ {i})) = Cardinality(Objects \ A) + 1
  <2>1. Objects \ (A \ {i}) = (Objects \ A) \cup {i} /\ i \notin Objects \ A
    BY <1>2
  <2>2. IsFiniteSet(Objects \ A)
    BY ObjectsFinite
  <2> QED BY <2>1, <2>2, FS_AddElement
<1> QED BY <1>1, <1>2

LEMMA AllFree ==
  ASSUME NEW A \in SUBSET Objects, Cardinality(Objects \ A) = FolioObjects
  PROVE  A = {}
<1>1. IsFiniteSet(Objects) /\ Cardinality(Objects) = FolioObjects
  BY FolioFacts, FS_Interval DEF Objects
<1>2. Objects \ A = Objects
  BY <1>1, FS_Subset
<1> QED BY <1>2

\* A thread holds the lock of at most one descriptor, the one it works on.
LEMMA LockFacts ==
  ASSUME NEW D, NEW L, NEW K, NEW P, NEW O, NEW R,
         Parts(D, L, K, P, O, R), StorageOK(D, L, K, P, O, R)
  PROVE  /\ \A g \in DOMAIN D : D[g].lock \in StorageLocks /\ D[g] \in Descs /\ g \in Folios
         /\ \A g \in DOMAIN D : D[g].lock \in StorageThreads =>
                P[D[g].lock] \in {"take", "clear"} /\ O[D[g].lock][1] = g
         /\ \A u \in StorageThreads : u # NoThread
         /\ \A u \in StorageThreads : P[u] \in {"take", "clear"} =>
                O[u][1] \in DOMAIN D /\ D[O[u][1]].lock = u
         /\ \A u \in StorageThreads : P[u] = "take" =>
                D[O[u][1]].free > 0 /\ (D[O[u][1]].free = 1 => K = u)
         /\ K # NoThread => K \in StorageThreads /\ P[K] = "take" /\ D[O[K][1]].free = 1
         /\ \A u \in StorageThreads : P[u] \in StoragePlaces
<1>1. \A g \in DOMAIN D : D[g].lock \in StorageLocks /\ D[g] \in Descs /\ g \in Folios
  BY DescMapsTyped DEF Parts, Descs
<1>2. \A u \in StorageThreads : u # NoThread
  BY FolioFacts
<1>3. LocksOK(D, K, P, O)
  BY DEF StorageOK
<1>4. \A g \in DOMAIN D : D[g].lock \in StorageThreads =>
                P[D[g].lock] \in {"take", "clear"} /\ O[D[g].lock][1] = g
  BY <1>2, <1>3 DEF LocksOK
<1>5. K # NoThread => K \in StorageThreads /\ P[K] = "take" /\ D[O[K][1]].free = 1
  BY <1>3 DEF LocksOK, Parts, StorageLocks
<1>6. \A u \in StorageThreads : P[u] \in StoragePlaces
  BY DEF Parts
<1> QED BY <1>1, <1>2, <1>3, <1>4, <1>5, <1>6 DEF LocksOK

\* A folio that nobody works on and that does not change keeps its count.
LEMMA CountSame ==
  ASSUME NEW D, NEW D1, NEW P, NEW P1, NEW g, CountOK(D, P, g), D1[g] = D[g],
         D[g].lock # NoThread => P1[D[g].lock] = P[D[g].lock]
  PROVE  CountOK(D1, P1, g)
  BY DEF CountOK

\* The locks, when t works on f before or after and nobody else is concerned.
LEMMA LocksLeft ==
  ASSUME NEW D, NEW L, NEW K, NEW P, NEW O, NEW R,
         NEW D1, NEW K1, NEW P1, NEW O1, NEW t \in StorageThreads, NEW f,
         Parts(D, L, K, P, O, R), StorageOK(D, L, K, P, O, R),
         SameBut(P, P1, t), SameBut(O, O1, t),
         \A g \in DOMAIN D : g # f => g \in DOMAIN D1 /\ D1[g] = D[g],
         \A g \in DOMAIN D1 : g # f => g \in DOMAIN D,
         f \in DOMAIN D => D[f].lock \in {t, NoThread},
         P[t] \in {"take", "clear"} => O[t][1] = f,
         P1[t] # "take" /\ (P1[t] = "clear" <=> (f \in DOMAIN D1 /\ D1[f].lock = t)),
         f \in DOMAIN D1 => D1[f].lock \in {t, NoThread},
         P1[t] = "clear" => O1[t][1] = f,
         K \in {t, NoThread}, K1 = NoThread
  PROVE  LocksOK(D1, K1, P1, O1)
<1> USE LockFacts
<1>0. \A u \in StorageThreads : u # t => P1[u] = P[u] /\ O1[u] = O[u]
  BY DEF Parts, SameBut
<1>1. ASSUME NEW u \in StorageThreads, u # t, P[u] \in {"take", "clear"}
      PROVE  O[u][1] \in DOMAIN D /\ O[u][1] # f /\ D1[O[u][1]] = D[O[u][1]] /\ O[u][1] \in DOMAIN D1
  BY <1>1
<1>2. ASSUME NEW u \in StorageThreads, P1[u] \in {"take", "clear"}
      PROVE  O1[u][1] \in DOMAIN D1 /\ D1[O1[u][1]].lock = u
  <2>1. CASE u = t
    BY <1>2, <2>1
  <2>2. CASE u # t
    BY <1>0, <1>1, <1>2, <2>2
  <2> QED BY <2>1, <2>2
<1>3. ASSUME NEW g \in DOMAIN D1, D1[g].lock # NoThread
      PROVE  P1[D1[g].lock] \in {"take", "clear"} /\ O1[D1[g].lock][1] = g
  <2>1. CASE g = f
    BY <1>3, <2>1
  <2>2. CASE g # f
    <3>1. g \in DOMAIN D /\ D1[g] = D[g] /\ D[g].lock \in StorageThreads
      BY <1>3, <2>2 DEF StorageLocks
    <3>2. P[D[g].lock] \in {"take", "clear"} /\ O[D[g].lock][1] = g
      BY <3>1
    <3>3. D[g].lock # t
      BY <2>2, <3>2
    <3> QED BY <1>0, <3>1, <3>2, <3>3
  <2> QED BY <2>1, <2>2
<1>4. ASSUME NEW u \in StorageThreads, P1[u] = "take"
      PROVE  D1[O1[u][1]].free > 0 /\ (D1[O1[u][1]].free = 1 => K1 = u)
  <2>1. u # t /\ P[u] = "take" /\ O1[u] = O[u]
    BY <1>0, <1>4
  <2>2. D[O[u][1]].free > 0 /\ (D[O[u][1]].free = 1 => K = u)
    BY <2>1
  <2> QED BY <1>1, <2>1, <2>2
<1> HIDE LockFacts
<1> QED BY <1>2, <1>3, <1>4 DEF LocksOK

\* The counts, likewise.
LEMMA CountsLeft ==
  ASSUME NEW D, NEW L, NEW K, NEW P, NEW O, NEW R,
         NEW D1, NEW P1, NEW t \in StorageThreads, NEW f, NEW g \in DOMAIN D1, g # f,
         Parts(D, L, K, P, O, R), StorageOK(D, L, K, P, O, R),
         SameBut(P, P1, t), g \in DOMAIN D, D1[g] = D[g],
         P[t] \in {"take", "clear"} => O[t][1] = f
  PROVE  CountOK(D1, P1, g)
<1>0. \A u \in StorageThreads : u # t => P1[u] = P[u]
  BY DEF Parts, SameBut
<1>1. CountOK(D, P, g)
  BY DEF StorageOK
<1>2. D[g].lock # NoThread => P1[D[g].lock] = P[D[g].lock]
  BY <1>0, LockFacts DEF StorageLocks
<1> QED BY <1>1, <1>2, CountSame

LEMMA TakeKeeps ==
  ASSUME NEW D, NEW L, NEW K, NEW P, NEW O, NEW R, NEW D1, NEW L1, NEW K1, NEW P1, NEW O1, NEW R1,
         NEW t \in StorageThreads, NEW f \in DOMAIN D, NEW i \in Objects,
         Parts(D, L, K, P, O, R), StorageOK(D, L, K, P, O, R), Parts(D1, L1, K1, P1, O1, R1),
         SameBut(D, D1, f), SameBut(P, P1, t), SameBut(O, O1, t),
         P[t] = "take", O[t][1] = f, i \notin D[f].alloced,
         D1[f].alloced = D[f].alloced \cup {i}, D1[f].shadow = D[f].shadow,
         D1[f].free = D[f].free - 1, D1[f].lock = NoThread, P1[t] = "idle",
         R1 = R \cup {<<f, i>>}, K1 = IF D[f].free = 1 THEN NoThread ELSE K,
         Simple(L1),
         \A g \in Folios : (\E l \in Lists : On(L1, l, g)) <=>
             ((\E l \in Lists : On(L, l, g)) /\ (D[f].free = 1 => g # f))
  PROVE  StorageOK(D1, L1, K1, P1, O1, R1)
<1>0. /\ \A u \in StorageThreads : u # t => P1[u] = P[u] /\ O1[u] = O[u]
      /\ DOMAIN D1 = DOMAIN D /\ \A g \in DOMAIN D : g # f => D1[g] = D[g]
  BY DEF Parts, SameBut
<1>1. D[f] \in Descs /\ D[f].lock = t /\ D[f].free > 0 /\ (D[f].free = 1 => K = t) /\ f \in Folios
      /\ D[f].free \in Nat /\ (K # NoThread => K \in StorageThreads /\ P[K] = "take")
      /\ (K = t => D[f].free = 1) /\ t # NoThread
  <2>1. D[f] \in Descs /\ D[f].lock = t /\ D[f].free > 0 /\ (D[f].free = 1 => K = t) /\ f \in Folios
        /\ (K # NoThread => K \in StorageThreads /\ P[K] = "take") /\ t # NoThread
        /\ (K = t => D[f].free = 1)
    BY LockFacts
  <2> QED BY <2>1 DEF Descs
<1>2. OwnersOK(D1, P1, O1, R1)
  <2> DEFINE o == <<f, i>>
  <2>0. OwnersOK(D, P, O, R) /\ ~InUse(D, o) /\ InUse(D1, o)
    BY <1>0 DEF StorageOK, InUse
  <2>1. \A p : InUse(D, p) => InUse(D1, p) /\ p # o
    BY <1>0, <2>0 DEF InUse
  <2>2. \A u \in StorageThreads : Frees(P1, u) => u # t /\ Frees(P, u) /\ O1[u] = O[u]
    BY <1>0 DEF Frees
  <2>3. \A u \in StorageThreads : Frees(P, u) => Frees(P1, u) /\ O1[u] = O[u]
    BY <1>0 DEF Frees
  <2>4. \A g \in DOMAIN D : D1[g].shadow = D[g].shadow
    BY <1>0
  <2>5. (\A p \in R1 : InUse(D1, p))
    <3> HIDE DEF o
    <3>1. R1 = R \cup {o}
      BY DEF o
    <3> QED BY <2>0, <2>1, <3>1 DEF OwnersOK
  <2>6. \A g \in DOMAIN D1 : InUse(D1, D1[g].shadow) /\ D1[g].shadow \notin R1
    <3> HIDE DEF o
    <3>1. R1 = R \cup {o}
      BY DEF o
    <3> QED BY <1>0, <2>0, <2>1, <2>4, <3>1 DEF OwnersOK
  <2>7. \A g, h \in DOMAIN D1 : D1[g].shadow = D1[h].shadow => g = h
    BY <1>0, <2>0, <2>4 DEF OwnersOK
  <2>8. ASSUME NEW u \in StorageThreads, Frees(P1, u)
        PROVE  /\ O1[u] \in Folios \X Objects /\ InUse(D1, O1[u]) /\ O1[u] \notin R1
               /\ \A g \in DOMAIN D1 : D1[g].shadow # O1[u]
               /\ \A v \in StorageThreads : Frees(P1, v) /\ O1[v] = O1[u] => v = u
    <3> HIDE DEF o
    <3>1. R1 = R \cup {o}
      BY DEF o
    <3>2. O1[u] = O[u] /\ Frees(P, u) /\ InUse(D, O[u])
      BY <2>0, <2>2, <2>8 DEF OwnersOK
    <3>3. O1[u] # o /\ InUse(D1, O1[u])
      BY <2>1, <3>2
    <3> QED BY <1>0, <2>0, <2>2, <2>4, <3>1, <3>2, <3>3 DEF OwnersOK
  <2>9. ASSUME NEW g \in DOMAIN D1, NEW j \in D1[g].alloced
        PROVE  HasOwner(D1, P1, O1, R1, <<g, j>>)
    <3>1. CASE g = f /\ j = i
      BY <3>1 DEF HasOwner
    <3>2. CASE ~(g = f /\ j = i)
      <4>1. g \in DOMAIN D /\ j \in D[g].alloced
        BY <1>0, <3>2
      <4>2. HasOwner(D, P, O, R, <<g, j>>)
        BY <2>0, <4>1 DEF OwnersOK
      <4> QED BY <1>0, <2>3, <2>4, <4>2 DEF HasOwner
    <3> QED BY <3>1, <3>2
  <2> QED BY <2>5, <2>6, <2>7, <2>8, <2>9 DEF OwnersOK
<1>3. LocksOK(D1, K1, P1, O1)
  <2>1. CASE K \in {t, NoThread}
    <3>1. K1 = NoThread
      BY <1>1, <2>1
    <3>2. \A g \in DOMAIN D : g # f => g \in DOMAIN D1 /\ D1[g] = D[g]
      BY <1>0
    <3>3. P1[t] # "take" /\ (P1[t] = "clear" <=> (f \in DOMAIN D1 /\ D1[f].lock = t))
      BY <1>1
    <3> QED BY <1>0, <1>1, <2>1, <3>1, <3>2, <3>3, LocksLeft
  <2>2. CASE K \notin {t, NoThread}
    <3>1. K1 = K /\ D[f].free # 1
      BY <1>1, <2>2
    <3>2. \A u \in StorageThreads : u # t /\ P[u] \in {"take", "clear"} =>
             O[u][1] \in DOMAIN D /\ O[u][1] # f
      BY <1>1, LockFacts
    <3>3. ASSUME NEW u \in StorageThreads, P1[u] \in {"take", "clear"}
          PROVE  O1[u][1] \in DOMAIN D1 /\ D1[O1[u][1]].lock = u
      <4>1. u # t /\ P[u] \in {"take", "clear"} /\ O1[u] = O[u]
        BY <1>0, <3>3
      <4> QED BY <1>0, <3>2, <4>1, LockFacts
    <3>4. ASSUME NEW g \in DOMAIN D1, D1[g].lock # NoThread
          PROVE  P1[D1[g].lock] \in {"take", "clear"} /\ O1[D1[g].lock][1] = g
      <4>1. g # f /\ g \in DOMAIN D /\ D1[g] = D[g]
        BY <1>0, <3>4
      <4>2. D[g].lock \in StorageThreads /\ P[D[g].lock] \in {"take", "clear"} /\ O[D[g].lock][1] = g
        BY <3>4, <4>1, LockFacts DEF StorageLocks
      <4>3. D[g].lock # t
        BY <4>1, <4>2
      <4> QED BY <1>0, <4>1, <4>2, <4>3
    <3>5. P1[K1] = "take" /\ D1[O1[K1][1]].free = 1
      <4>1. K \in StorageThreads /\ K # t /\ P[K] = "take" /\ D[O[K][1]].free = 1
        BY <2>2, LockFacts
      <4> QED BY <1>0, <3>1, <3>2, <4>1
    <3>6. ASSUME NEW u \in StorageThreads, P1[u] = "take"
          PROVE  D1[O1[u][1]].free > 0 /\ (D1[O1[u][1]].free = 1 => K1 = u)
      <4>1. u # t /\ P[u] = "take" /\ O1[u] = O[u]
        BY <1>0, <3>6
      <4> QED BY <1>0, <3>1, <3>2, <4>1, LockFacts
    <3> QED BY <3>3, <3>4, <3>5, <3>6 DEF LocksOK
  <2> QED BY <2>1, <2>2
<1>4. ASSUME NEW g \in DOMAIN D1 PROVE CountOK(D1, P1, g)
  <2>1. CASE g # f
    BY <1>0, <2>1, CountsLeft
  <2>2. CASE g = f
    <3>1. D[f].alloced \in SUBSET Objects
      BY <1>1 DEF Descs
    <3>2. D[f].free = Cardinality(Objects \ D[f].alloced)
      <4>1. CountOK(D, P, f)
        BY DEF StorageOK
      <4> QED BY <1>1, <4>1 DEF CountOK
    <3>3. D1[f].free = Cardinality(Objects \ D1[f].alloced)
      BY <3>1, <3>2, FreeCounts
    <3> QED BY <2>2, <3>3 DEF CountOK
  <2> QED BY <2>1, <2>2
<1>5. StorageListsOK(D1, L1)
  <2>1. \A g \in Folios : (g \in DOMAIN D1 /\ D1[g].free > 0)
           <=> ((g \in DOMAIN D /\ D[g].free > 0) /\ (D[f].free = 1 => g # f))
    BY <1>0, <1>1
  <2> QED BY <2>1 DEF StorageOK, StorageListsOK
<1> QED BY <1>2, <1>3, <1>4, <1>5 DEF StorageOK

LEMMA GiveKeeps ==
  ASSUME NEW D, NEW L, NEW K, NEW P, NEW O, NEW R, NEW P1, NEW O1, NEW R1,
         NEW t \in StorageThreads, NEW o \in R,
         Parts(D, L, K, P, O, R), StorageOK(D, L, K, P, O, R), Parts(D, L, K, P1, O1, R1),
         SameBut(P, P1, t), SameBut(O, O1, t),
         P[t] = "idle", P1[t] = "free", O1[t] = o, R1 = R \ {o}
  PROVE  StorageOK(D, L, K, P1, O1, R1)
<1>0. \A u \in StorageThreads : u # t => P1[u] = P[u] /\ O1[u] = O[u]
  BY DEF Parts, SameBut
<1>1. OwnersOK(D, P, O, R) /\ o \in Folios \X Objects /\ InUse(D, o)
  BY DEF StorageOK, OwnersOK, Parts
<1>2. \A u \in StorageThreads : Frees(P1, u) <=> (u = t \/ Frees(P, u))
  BY <1>0 DEF Frees
<1>3. \A u \in StorageThreads : Frees(P, u) => u # t /\ O1[u] = O[u] /\ O[u] # o
  BY <1>0, <1>1 DEF Frees, OwnersOK
<1>4. OwnersOK(D, P1, O1, R1)
  <2>1. (\A p \in R1 : InUse(D, p))
        /\ (\A g \in DOMAIN D : InUse(D, D[g].shadow) /\ D[g].shadow \notin R1)
        /\ (\A g, h \in DOMAIN D : D[g].shadow = D[h].shadow => g = h)
    BY <1>1 DEF OwnersOK
  <2>2. ASSUME NEW u \in StorageThreads, Frees(P1, u)
        PROVE  /\ O1[u] \in Folios \X Objects /\ InUse(D, O1[u]) /\ O1[u] \notin R1
               /\ \A g \in DOMAIN D : D[g].shadow # O1[u]
               /\ \A v \in StorageThreads : Frees(P1, v) /\ O1[v] = O1[u] => v = u
    <3>1. CASE u = t
      BY <1>1, <1>2, <1>3, <3>1 DEF OwnersOK
    <3>2. CASE u # t
      <4>1. Frees(P, u) /\ O1[u] = O[u] /\ O[u] # o
        BY <1>2, <1>3, <2>2, <3>2
      <4> QED BY <1>1, <1>2, <1>3, <4>1 DEF OwnersOK
    <3> QED BY <3>1, <3>2
  <2>3. ASSUME NEW g \in DOMAIN D, NEW j \in D[g].alloced
        PROVE  HasOwner(D, P1, O1, R1, <<g, j>>)
    <3>1. HasOwner(D, P, O, R, <<g, j>>)
      BY <1>1 DEF OwnersOK
    <3> QED BY <1>2, <1>3, <3>1 DEF HasOwner
  <2> QED BY <2>1, <2>2, <2>3 DEF OwnersOK
<1>5. \A u \in StorageThreads : /\ P1[u] = "take" <=> P[u] = "take"
                                /\ P1[u] = "clear" <=> P[u] = "clear"
                                /\ P[u] \in {"take", "clear"} => O1[u] = O[u]
  BY <1>0
<1>6. LocksOK(D, K, P1, O1)
  BY <1>5, LockFacts DEF StorageOK, LocksOK, StorageLocks
<1>7. \A g \in DOMAIN D : CountOK(D, P1, g)
  BY <1>5, LockFacts DEF StorageOK, CountOK, StorageLocks
<1> QED BY <1>4, <1>6, <1>7 DEF StorageOK

LEMMA KeepKeeps ==
  ASSUME NEW D, NEW L, NEW K, NEW P, NEW O, NEW R, NEW D1, NEW L1, NEW P1,
         NEW t \in StorageThreads, NEW f \in DOMAIN D,
         Parts(D, L, K, P, O, R), StorageOK(D, L, K, P, O, R), Parts(D1, L1, K, P1, O, R),
         SameBut(D, D1, f), SameBut(P, P1, t),
         P[t] = "free", O[t][1] = f, D[f].lock = NoThread, K = NoThread,
         D1[f].alloced = D[f].alloced, D1[f].shadow = D[f].shadow,
         D1[f].free = D[f].free + 1, D1[f].lock = t, P1[t] = "clear", Simple(L1),
         \A g \in Folios : (\E l \in Lists : On(L1, l, g)) <=> (g = f \/ \E l \in Lists : On(L, l, g))
  PROVE  StorageOK(D1, L1, K, P1, O, R)
<1>0. /\ \A u \in StorageThreads : u # t => P1[u] = P[u]
      /\ DOMAIN D1 = DOMAIN D /\ \A g \in DOMAIN D : g # f => D1[g] = D[g]
  BY DEF Parts, SameBut
<1>1. D[f] \in Descs /\ f \in Folios /\ D[f].free \in Nat /\ t # NoThread
  <2>1. D[f] \in Descs /\ f \in Folios /\ t # NoThread
    BY LockFacts
  <2> QED BY <2>1 DEF Descs
<1>2. OwnersOK(D1, P1, O, R)
  <2>1. \A u \in StorageThreads : Frees(P1, u) <=> Frees(P, u)
    BY <1>0 DEF Frees
  <2>2. \A g \in DOMAIN D : D1[g].alloced = D[g].alloced /\ D1[g].shadow = D[g].shadow
    BY <1>0
  <2> QED BY <1>0, <2>1, <2>2, OwnersSame DEF StorageOK
<1>3. LocksOK(D1, K, P1, O)
  <2>1. \A g \in DOMAIN D : g # f => g \in DOMAIN D1 /\ D1[g] = D[g]
    BY <1>0
  <2>2. P1[t] # "take" /\ (P1[t] = "clear" <=> (f \in DOMAIN D1 /\ D1[f].lock = t))
    BY <1>0
  <2>3. SameBut(O, O, t)
    BY DEF SameBut
  <2> QED BY <1>0, <1>1, <2>1, <2>2, <2>3, LocksLeft
<1>4. ASSUME NEW g \in DOMAIN D1 PROVE CountOK(D1, P1, g)
  <2>1. CASE g # f
    BY <1>0, <2>1, CountsLeft
  <2>2. CASE g = f
    <3>1. D[f].free = Cardinality(Objects \ D[f].alloced)
      <4>1. CountOK(D, P, f)
        BY DEF StorageOK
      <4> QED BY <1>1, <4>1 DEF CountOK
    <3> QED BY <1>1, <2>2, <3>1 DEF CountOK
  <2> QED BY <2>1, <2>2
<1>5. StorageListsOK(D1, L1)
  <2>1. \A g \in Folios : (g \in DOMAIN D1 /\ D1[g].free > 0)
           <=> (g = f \/ (g \in DOMAIN D /\ D[g].free > 0))
    BY <1>0, <1>1
  <2> QED BY <2>1 DEF StorageOK, StorageListsOK
<1> QED BY <1>2, <1>3, <1>4, <1>5 DEF StorageOK

LEMMA ClearKeeps ==
  ASSUME NEW D, NEW L, NEW K, NEW P, NEW O, NEW R, NEW D1, NEW P1, NEW O1,
         NEW t \in StorageThreads, NEW f \in DOMAIN D, NEW i \in Objects,
         Parts(D, L, K, P, O, R), StorageOK(D, L, K, P, O, R), Parts(D1, L, K, P1, O1, R),
         SameBut(D, D1, f), SameBut(P, P1, t), SameBut(O, O1, t),
         P[t] = "clear", O[t] = <<f, i>>,
         D1[f].alloced = D[f].alloced \ {i}, D1[f].shadow = D[f].shadow,
         D1[f].free = D[f].free, D1[f].lock = NoThread, P1[t] = "idle"
  PROVE  StorageOK(D1, L, K, P1, O1, R)
<1>0. /\ \A u \in StorageThreads : u # t => P1[u] = P[u] /\ O1[u] = O[u]
      /\ DOMAIN D1 = DOMAIN D /\ \A g \in DOMAIN D : g # f => D1[g] = D[g]
  BY DEF Parts, SameBut
<1>1. D[f] \in Descs /\ f \in Folios /\ t # NoThread /\ D[f].lock = t /\ i \in D[f].alloced
      /\ D[f].alloced \in SUBSET Objects
  <2>1. D[f] \in Descs /\ f \in Folios /\ t # NoThread
    BY LockFacts
  <2>2. InUse(D, O[t])
    BY DEF StorageOK, OwnersOK, Frees
  <2>3. D[f].lock = t
    BY LockFacts
  <2> QED BY <2>1, <2>2, <2>3 DEF Descs, InUse
<1>2. OwnersOK(D1, P1, O1, R)
  <2> DEFINE o == <<f, i>>
  <2>0. OwnersOK(D, P, O, R) /\ Frees(P, t) /\ O[t] = o
    BY DEF StorageOK, Frees
  <2> HIDE DEF o
  <2>1. \A p \in Folios \X Objects : InUse(D, p) /\ p # o => InUse(D1, p)
    BY <1>0 DEF InUse, o
  <2>2. \A u \in StorageThreads : Frees(P1, u) <=> (u # t /\ Frees(P, u))
    BY <1>0 DEF Frees
  <2>3. \A u \in StorageThreads : Frees(P, u) /\ u # t => O[u] # o /\ O1[u] = O[u]
    BY <1>0, <2>0 DEF OwnersOK
  <2>4. \A g \in DOMAIN D : D1[g].shadow = D[g].shadow /\ D[g].shadow # o
                            /\ D[g].shadow \in Folios \X Objects
    <3>1. \A g \in DOMAIN D : D[g].shadow \in Folios \X Objects
      BY LockFacts DEF Descs
    <3> QED BY <1>0, <2>0, <3>1 DEF OwnersOK
  <2>5. \A p \in R : InUse(D1, p)
    <3>1. o \notin R /\ R \subseteq Folios \X Objects
      BY <2>0 DEF OwnersOK, Parts
    <3> QED BY <2>0, <2>1, <3>1 DEF OwnersOK
  <2>6. \A g \in DOMAIN D1 : InUse(D1, D1[g].shadow) /\ D1[g].shadow \notin R
    BY <1>0, <2>0, <2>1, <2>4 DEF OwnersOK
  <2>7. \A g, h \in DOMAIN D1 : D1[g].shadow = D1[h].shadow => g = h
    BY <1>0, <2>0, <2>4 DEF OwnersOK
  <2>8. ASSUME NEW u \in StorageThreads, Frees(P1, u)
        PROVE  /\ O1[u] \in Folios \X Objects /\ InUse(D1, O1[u]) /\ O1[u] \notin R
               /\ \A g \in DOMAIN D1 : D1[g].shadow # O1[u]
               /\ \A v \in StorageThreads : Frees(P1, v) /\ O1[v] = O1[u] => v = u
    <3>1. Frees(P, u) /\ O1[u] = O[u] /\ O[u] # o
      BY <2>2, <2>3, <2>8
    <3>2. O[u] \in Folios \X Objects /\ InUse(D, O[u]) /\ O[u] \notin R
      BY <2>0, <3>1 DEF OwnersOK
    <3>3. InUse(D1, O1[u])
      BY <2>1, <3>1, <3>2
    <3> QED BY <1>0, <2>0, <2>2, <2>3, <2>4, <3>1, <3>2, <3>3 DEF OwnersOK
  <2>9. ASSUME NEW g \in DOMAIN D1, NEW j \in D1[g].alloced
        PROVE  HasOwner(D1, P1, O1, R, <<g, j>>)
    <3>1. g \in DOMAIN D /\ j \in D[g].alloced /\ <<g, j>> # o
      BY <1>0 DEF o
    <3>2. HasOwner(D, P, O, R, <<g, j>>)
      BY <2>0, <3>1 DEF OwnersOK
    <3> DEFINE p == <<g, j>>
    <3> HIDE DEF p
    <3>3. HasOwner(D, P, O, R, p) /\ p # o
      BY <3>1, <3>2 DEF p
    <3>4. HasOwner(D1, P1, O1, R, p)
      BY <1>0, <2>0, <2>2, <2>3, <2>4, <3>3 DEF HasOwner
    <3> QED BY <3>4 DEF p
  <2> QED BY <2>5, <2>6, <2>7, <2>8, <2>9 DEF OwnersOK
<1>3. LocksOK(D1, K, P1, O1)
  <2>0. O[t][1] = f
    OBVIOUS
  <2>1. \A g \in DOMAIN D : g # f => g \in DOMAIN D1 /\ D1[g] = D[g]
    BY <1>0
  <2>2. P1[t] # "take" /\ (P1[t] = "clear" <=> (f \in DOMAIN D1 /\ D1[f].lock = t))
    BY <1>1
  <2>3. CASE K = NoThread
    BY <1>0, <1>1, <2>0, <2>1, <2>2, <2>3, LocksLeft
  <2>4. CASE K # NoThread
    <3>1. K \in StorageThreads /\ K # t /\ P[K] = "take" /\ D[O[K][1]].free = 1
      BY <2>4, LockFacts
    <3>2. \A u \in StorageThreads : u # t /\ P[u] \in {"take", "clear"} =>
             O[u][1] \in DOMAIN D /\ O[u][1] # f
      BY <1>1, LockFacts
    <3>3. ASSUME NEW u \in StorageThreads, P1[u] \in {"take", "clear"}
          PROVE  O1[u][1] \in DOMAIN D1 /\ D1[O1[u][1]].lock = u
      <4>1. u # t /\ P[u] \in {"take", "clear"} /\ O1[u] = O[u]
        BY <1>0, <3>3
      <4> QED BY <1>0, <3>2, <4>1, LockFacts
    <3>4. ASSUME NEW g \in DOMAIN D1, D1[g].lock # NoThread
          PROVE  P1[D1[g].lock] \in {"take", "clear"} /\ O1[D1[g].lock][1] = g
      <4>1. g # f /\ g \in DOMAIN D /\ D1[g] = D[g]
        BY <1>0, <3>4
      <4>2. D[g].lock \in StorageThreads /\ P[D[g].lock] \in {"take", "clear"} /\ O[D[g].lock][1] = g
        BY <3>4, <4>1, LockFacts DEF StorageLocks
      <4>3. D[g].lock # t
        BY <2>0, <4>1, <4>2
      <4> QED BY <1>0, <4>1, <4>2, <4>3
    <3>5. P1[K] = "take" /\ D1[O1[K][1]].free = 1
      BY <1>0, <3>1, <3>2
    <3>6. ASSUME NEW u \in StorageThreads, P1[u] = "take"
          PROVE  D1[O1[u][1]].free > 0 /\ (D1[O1[u][1]].free = 1 => K = u)
      <4>1. u # t /\ P[u] = "take" /\ O1[u] = O[u]
        BY <1>0, <3>6
      <4> QED BY <1>0, <3>2, <4>1, LockFacts
    <3> QED BY <3>3, <3>4, <3>5, <3>6 DEF LocksOK
  <2> QED BY <2>3, <2>4
<1>4. ASSUME NEW g \in DOMAIN D1 PROVE CountOK(D1, P1, g)
  <2>1. CASE g # f
    <3>1. P[t] \in {"take", "clear"} => O[t][1] = f
      OBVIOUS
    <3> QED BY <1>0, <2>1, <3>1, CountsLeft
  <2>2. CASE g = f
    <3>1. D[f].free = Cardinality(Objects \ D[f].alloced) + 1
      <4>1. CountOK(D, P, f)
        BY DEF StorageOK
      <4> QED BY <1>1, <4>1 DEF CountOK
    <3>2. Cardinality(Objects \ D1[f].alloced) = Cardinality(Objects \ D[f].alloced) + 1
      BY <1>1, FreeCounts
    <3> QED BY <2>2, <3>1, <3>2 DEF CountOK
  <2> QED BY <2>1, <2>2
<1>5. StorageListsOK(D1, L)
  <2>1. \A g \in Folios : (g \in DOMAIN D1 /\ D1[g].free > 0) <=> (g \in DOMAIN D /\ D[g].free > 0)
    BY <1>0, <1>1
  <2> QED BY <2>1 DEF StorageOK, StorageListsOK
<1> QED BY <1>2, <1>3, <1>4, <1>5 DEF StorageOK

Emptying(D, f) ==
    \/ D[f].free + 1 = FolioObjects
    \/ D[f].free + 1 = FolioObjects - 1 /\ D[f].shadow[1] = f

Deserted(D, O, t, f) == \A j \in D[f].alloced : <<f, j>> = O[t] \/ <<f, j>> = D[f].shadow

\* Nothing in an emptied folio but the object being freed and its own shadow.
LEMMA EmptiedIs ==
  ASSUME NEW D, NEW L, NEW K, NEW P, NEW O, NEW R, NEW t \in StorageThreads, NEW f \in DOMAIN D,
         Parts(D, L, K, P, O, R), StorageOK(D, L, K, P, O, R),
         P[t] = "free", O[t][1] = f, D[f].lock = NoThread,
         Emptying(D, f)
  PROVE  Deserted(D, O, t, f)
<1> DEFINE A == D[f].alloced
           i == O[t][2]
           s == D[f].shadow
<1>1. /\ A \in SUBSET Objects /\ D[f].free \in Nat /\ s \in Folios \X Objects
      /\ D[f].free = Cardinality(Objects \ A)
  <2>1. D[f] \in Descs /\ CountOK(D, P, f)
    BY LockFacts DEF StorageOK
  <2> QED BY <2>1 DEF Descs, CountOK
<1>2. i \in A /\ O[t] = <<f, i>> /\ InUse(D, s) /\ s # O[t]
  <2>1. OwnersOK(D, P, O, R) /\ Frees(P, t)
    BY DEF StorageOK, Frees
  <2>2. O[t] \in Folios \X Objects /\ InUse(D, O[t]) /\ InUse(D, s) /\ s # O[t]
    BY <2>1 DEF OwnersOK
  <2> QED BY <2>2 DEF InUse
<1> HIDE DEF A, i, s
<1>3. Cardinality(Objects \ (A \ {i})) = D[f].free + 1
  BY <1>1, <1>2, FreeCounts
<1>4. CASE D[f].free + 1 = FolioObjects
  <2>1. A \ {i} = {}
    BY <1>1, <1>3, <1>4, AllFree
  <2> QED BY <1>2, <2>1 DEF A, Deserted
<1>5. CASE D[f].free + 1 = FolioObjects - 1 /\ s[1] = f
  <2> DEFINE j == s[2]
  <2>1. j \in A /\ s = <<f, j>> /\ j # i /\ j \in Objects
    BY <1>1, <1>2, <1>5 DEF InUse, A
  <2>2. A \ {i} \in SUBSET Objects /\ j \in A \ {i}
    BY <1>1, <2>1
  <2> HIDE DEF j
  <2>3. Cardinality(Objects \ ((A \ {i}) \ {j})) = D[f].free + 2
    <3>1. Cardinality(Objects \ ((A \ {i}) \ {j})) = Cardinality(Objects \ (A \ {i})) + 1
      BY <2>1, <2>2, FreeCounts
    <3> QED BY <1>1, <1>3, <3>1
  <2>4. D[f].free + 2 = FolioObjects
    BY <1>1, <1>5, FolioFacts
  <2>5. (A \ {i}) \ {j} = {}
    <3>1. (A \ {i}) \ {j} \in SUBSET Objects
      BY <1>1
    <3> QED BY <2>3, <2>4, <3>1, AllFree
  <2> QED BY <1>2, <2>1, <2>5 DEF A, s, Deserted
<1> QED BY <1>4, <1>5 DEF s, Emptying

LEMMA FreeFolioKeeps ==
  ASSUME NEW D, NEW L, NEW K, NEW P, NEW O, NEW R, NEW D1, NEW L1, NEW P1, NEW O1,
         NEW t \in StorageThreads, NEW f \in DOMAIN D,
         Parts(D, L, K, P, O, R), StorageOK(D, L, K, P, O, R), Parts(D1, L1, K, P1, O1, R),
         SameBut(P, P1, t), SameBut(O, O1, t),
         DOMAIN D1 = DOMAIN D \ {f}, \A g \in DOMAIN D1 : D1[g] = D[g],
         P[t] = "free", O[t][1] = f, D[f].lock = NoThread, K = NoThread,
         Emptying(D, f),
         D[f].shadow[1] = f => P1[t] = "idle",
         D[f].shadow[1] # f => P1[t] = "free" /\ O1[t] = D[f].shadow,
         Simple(L1),
         \A g \in Folios : (\E l \in Lists : On(L1, l, g)) <=> (g # f /\ \E l \in Lists : On(L, l, g))
  PROVE  StorageOK(D1, L1, K, P1, O1, R)
<1> DEFINE s == D[f].shadow
           here == D[f].shadow[1] = f
<1>0. \A u \in StorageThreads : u # t => P1[u] = P[u] /\ O1[u] = O[u]
  BY DEF Parts, SameBut
<1>1. \A j \in D[f].alloced : <<f, j>> = O[t] \/ <<f, j>> = s
  <2>1. Deserted(D, O, t, f)
    BY EmptiedIs
  <2> QED BY <2>1 DEF Deserted
<1>2. OwnersOK(D, P, O, R) /\ Frees(P, t) /\ s \in Folios \X Objects
  BY LockFacts DEF StorageOK, Frees, Descs
<1> HIDE DEF s
<1>3. OwnersOK(D1, P1, O1, R)
  <2>1. ASSUME NEW p \in Folios \X Objects, InUse(D, p), p # O[t], p # s
        PROVE  InUse(D1, p) /\ p[1] # f
    <3>1. p = <<p[1], p[2]>> /\ p[1] \in DOMAIN D /\ p[2] \in D[p[1]].alloced
      BY <2>1 DEF InUse
    <3>2. p[1] # f
      BY <1>1, <2>1, <3>1
    <3> QED BY <3>1, <3>2 DEF InUse
  <2>2. s \notin R /\ O[t] \notin R /\ s # O[t] /\ InUse(D, s)
    BY <1>2 DEF OwnersOK, s
  <2>3. ~here => InUse(D1, s)
    BY <2>2 DEF InUse, s
  <2>4. \A p \in R : InUse(D1, p)
    <3>1. R \subseteq Folios \X Objects /\ \A p \in R : InUse(D, p)
      BY <1>2 DEF OwnersOK, Parts
    <3> QED BY <2>1, <2>2, <3>1
  <2>5. \A g \in DOMAIN D1 : /\ D1[g].shadow = D[g].shadow /\ D[g].shadow \in Folios \X Objects
                             /\ D[g].shadow # s /\ D[g].shadow # O[t]
    <3>1. \A g \in DOMAIN D : D[g].shadow \in Folios \X Objects
      BY LockFacts DEF Descs
    <3> QED BY <1>2, <3>1 DEF OwnersOK, s
  <2>6. \A g \in DOMAIN D1 : InUse(D1, D1[g].shadow) /\ D1[g].shadow \notin R
    <3>1. \A g \in DOMAIN D : InUse(D, D[g].shadow) /\ D[g].shadow \notin R
      BY <1>2 DEF OwnersOK
    <3> QED BY <2>1, <2>5, <3>1
  <2>7. \A g, h \in DOMAIN D1 : D1[g].shadow = D1[h].shadow => g = h
    BY <1>2, <2>5 DEF OwnersOK
  <2>8. \A u \in StorageThreads : u # t => (Frees(P1, u) <=> Frees(P, u))
    BY <1>0 DEF Frees
  <2>9. /\ here => ~Frees(P1, t)
        /\ ~here => Frees(P1, t) /\ O1[t] = s
    BY DEF Frees, s
  <2> HIDE DEF here
  <2>10. ASSUME NEW u \in StorageThreads, u # t, Frees(P, u)
         PROVE  /\ O1[u] = O[u] /\ O[u] \in Folios \X Objects /\ InUse(D1, O[u])
                /\ O[u] \notin R /\ O[u] # s /\ O[u] # O[t]
                /\ \A g \in DOMAIN D1 : D1[g].shadow # O[u]
    <3>1. /\ O1[u] = O[u] /\ O[u] \in Folios \X Objects /\ InUse(D, O[u])
          /\ O[u] \notin R /\ O[u] # s /\ O[u] # O[t]
      BY <1>0, <1>2, <2>10 DEF OwnersOK, s
    <3>2. \A g \in DOMAIN D : D[g].shadow # O[u]
      BY <1>2, <2>10 DEF OwnersOK
    <3> QED BY <2>1, <2>5, <3>1, <3>2
  <2>11. ASSUME NEW u \in StorageThreads, Frees(P1, u)
         PROVE  /\ O1[u] \in Folios \X Objects /\ InUse(D1, O1[u]) /\ O1[u] \notin R
                /\ \A g \in DOMAIN D1 : D1[g].shadow # O1[u]
                /\ \A v \in StorageThreads : Frees(P1, v) /\ O1[v] = O1[u] => v = u
    <3>1. CASE u = t
      <4>1. ~here /\ O1[u] = s
        BY <2>9, <2>11, <3>1
      <4>2. \A v \in StorageThreads : Frees(P1, v) /\ v # t => O1[v] # s
        BY <2>8, <2>10
      <4> QED BY <1>2, <2>2, <2>3, <2>5, <3>1, <4>1, <4>2
    <3>2. CASE u # t
      <4>1. Frees(P, u)
        BY <2>8, <2>11, <3>2
      <4>2. \A v \in StorageThreads : Frees(P1, v) /\ O1[v] = O1[u] => v = u
        <5>1. ASSUME NEW v \in StorageThreads, Frees(P1, v), O1[v] = O1[u] PROVE v = u
          <6>1. CASE v = t
            BY <2>9, <2>10, <3>2, <4>1, <5>1, <6>1
          <6>2. CASE v # t
            <7>1. Frees(P, v) /\ O[v] = O[u]
              BY <2>8, <2>10, <3>2, <4>1, <5>1, <6>2
            <7> QED BY <1>2, <4>1, <7>1 DEF OwnersOK
          <6> QED BY <6>1, <6>2
        <5> QED BY <5>1
      <4> QED BY <2>10, <3>2, <4>1, <4>2
    <3> QED BY <3>1, <3>2
  <2>12. ASSUME NEW g \in DOMAIN D1, NEW j \in D1[g].alloced
         PROVE  HasOwner(D1, P1, O1, R, <<g, j>>)
    <3> DEFINE p == <<g, j>>
    <3>1. HasOwner(D, P, O, R, p)
      BY <1>2 DEF OwnersOK
    <3>2. p # O[t] /\ (p = s => ~here)
      BY DEF here, s
    <3> HIDE DEF p
    <3>6. HasOwner(D1, P1, O1, R, p)
      <4>3. CASE p \in R
        BY <4>3 DEF HasOwner
      <4>4. CASE \E h \in DOMAIN D : D[h].shadow = p
        <5>1. PICK h \in DOMAIN D : D[h].shadow = p
          BY <4>4
        <5>2. CASE h = f
          BY <2>9, <3>2, <5>1, <5>2 DEF s, HasOwner
        <5>3. CASE h # f
          BY <5>1, <5>3 DEF HasOwner
        <5> QED BY <5>2, <5>3
      <4>5. CASE \E u \in StorageThreads : Frees(P, u) /\ O[u] = p
        <5>1. PICK u \in StorageThreads : Frees(P, u) /\ O[u] = p
          BY <4>5
        <5>2. u # t
          BY <3>2, <5>1
        <5> QED BY <2>8, <2>10, <5>1, <5>2 DEF HasOwner
      <4> QED BY <3>1, <4>3, <4>4, <4>5 DEF HasOwner
    <3> QED BY <3>6 DEF p
  <2> QED BY <2>4, <2>6, <2>7, <2>11, <2>12 DEF OwnersOK
<1>4. LocksOK(D1, K, P1, O1)
  <2>1. P1[t] \in {"idle", "free"}
    OBVIOUS
  <2>2. P1[t] # "take" /\ (P1[t] = "clear" <=> (f \in DOMAIN D1 /\ D1[f].lock = t))
        /\ (P1[t] = "clear" => O1[t][1] = f)
    BY <2>1
  <2>3. \A g \in DOMAIN D : g # f => g \in DOMAIN D1 /\ D1[g] = D[g]
    OBVIOUS
  <2>4. f \in DOMAIN D1 => D1[f].lock \in {t, NoThread}
    OBVIOUS
  <2> QED BY <2>2, <2>3, <2>4, LocksLeft
<1>5. ASSUME NEW g \in DOMAIN D1 PROVE CountOK(D1, P1, g)
  <2>1. g # f /\ g \in DOMAIN D /\ D1[g] = D[g]
    OBVIOUS
  <2> QED BY <2>1, CountsLeft
<1>6. StorageListsOK(D1, L1)
  <2>1. \A g \in Folios : (g \in DOMAIN D1 /\ D1[g].free > 0)
           <=> (g # f /\ g \in DOMAIN D /\ D[g].free > 0)
    OBVIOUS
  <2> QED BY <2>1 DEF StorageOK, StorageListsOK
<1> QED BY <1>3, <1>4, <1>5, <1>6 DEF StorageOK

LEMMA LinkKeeps ==
  ASSUME NEW D, NEW L, NEW K, NEW P, NEW O, NEW R, NEW D1, NEW L1, NEW P1,
         NEW t \in StorageThreads, NEW f \in Folios,
         Parts(D, L, K, P, O, R), StorageOK(D, L, K, P, O, R), Parts(D1, L1, K, P1, O, R),
         SameBut(P, P1, t), P[t] \in Early, P1[t] \in Early, f \notin DOMAIN D,
         DOMAIN D1 = DOMAIN D \cup {f}, \A g \in DOMAIN D : D1[g] = D[g],
         D1[f].alloced = {0}, D1[f].free = FolioObjects - 1, D1[f].lock = NoThread,
         D1[f].shadow = <<f, 0>>, Simple(L1),
         \A g \in Folios : (\E l \in Lists : On(L1, l, g)) <=> (g = f \/ \E l \in Lists : On(L, l, g))
  PROVE  StorageOK(D1, L1, K, P1, O, R)
<1>0. \A u \in StorageThreads : u # t => P1[u] = P[u]
  BY DEF Parts, SameBut
<1>1. \A u \in StorageThreads : Frees(P1, u) <=> Frees(P, u)
  BY <1>0 DEF Frees, Early
<1>2. OwnersOK(D1, P1, O, R)
  <2>0. OwnersOK(D, P, O, R)
    BY DEF StorageOK
  <2> DEFINE s == <<f, 0>>
  <2>1. ~InUse(D, s) /\ InUse(D1, s) /\ \A p : InUse(D, p) => InUse(D1, p) /\ p # s
    BY DEF InUse
  <2> HIDE DEF s
  <2>2. D1[f].shadow = s
    BY DEF s
  <2>3. \A p \in R : InUse(D1, p) /\ p # s
    BY <2>0, <2>1 DEF OwnersOK
  <2>4. \A g \in DOMAIN D : D1[g].shadow = D[g].shadow /\ InUse(D, D[g].shadow) /\ D[g].shadow \notin R
    BY <2>0 DEF OwnersOK
  <2>5. \A g \in DOMAIN D1 : InUse(D1, D1[g].shadow) /\ D1[g].shadow \notin R
    BY <2>1, <2>2, <2>3, <2>4
  <2>6. \A g, h \in DOMAIN D1 : D1[g].shadow = D1[h].shadow => g = h
    BY <2>0, <2>1, <2>2, <2>4 DEF OwnersOK
  <2>7. ASSUME NEW u \in StorageThreads, Frees(P1, u)
        PROVE  /\ O[u] \in Folios \X Objects /\ InUse(D1, O[u]) /\ O[u] \notin R
               /\ \A g \in DOMAIN D1 : D1[g].shadow # O[u]
               /\ \A v \in StorageThreads : Frees(P1, v) /\ O[v] = O[u] => v = u
    <3>1. Frees(P, u) /\ InUse(D, O[u])
      BY <1>1, <2>0, <2>7 DEF OwnersOK
    <3>2. InUse(D1, O[u]) /\ O[u] # s
      BY <2>1, <3>1
    <3> QED BY <1>1, <2>0, <2>2, <2>4, <3>1, <3>2 DEF OwnersOK
  <2>8. ASSUME NEW g \in DOMAIN D1, NEW j \in D1[g].alloced
        PROVE  HasOwner(D1, P1, O, R, <<g, j>>)
    <3>1. CASE g = f
      <4>1. <<g, j>> = s
        BY <3>1 DEF s
      <4> QED BY <2>2, <4>1 DEF HasOwner
    <3>2. CASE g # f
      <4>1. g \in DOMAIN D /\ j \in D[g].alloced
        BY <3>2
      <4>2. HasOwner(D, P, O, R, <<g, j>>)
        BY <2>0, <4>1 DEF OwnersOK
      <4> QED BY <1>1, <2>4, <4>2 DEF HasOwner
    <3> QED BY <3>1, <3>2
  <2> QED BY <2>3, <2>5, <2>6, <2>7, <2>8 DEF OwnersOK
<1>3. \A u \in StorageThreads : /\ P1[u] = "take" <=> P[u] = "take"
                                /\ P1[u] = "clear" <=> P[u] = "clear"
  BY <1>0 DEF Early
<1>4. LocksOK(D1, K, P1, O)
  <2>1. ASSUME NEW u \in StorageThreads, P1[u] \in {"take", "clear"}
        PROVE  O[u][1] \in DOMAIN D1 /\ D1[O[u][1]].lock = u
    BY <1>3, <2>1, LockFacts
  <2>2. ASSUME NEW g \in DOMAIN D1, D1[g].lock # NoThread
        PROVE  P1[D1[g].lock] \in {"take", "clear"} /\ O[D1[g].lock][1] = g
    <3>1. g \in DOMAIN D /\ D1[g] = D[g]
      BY <2>2
    <3>2. D[g].lock \in StorageThreads
      BY <2>2, <3>1, LockFacts DEF StorageLocks
    <3> QED BY <1>3, <3>1, <3>2, LockFacts
  <2>3. K # NoThread => P1[K] = "take" /\ D1[O[K][1]].free = 1
    BY <1>3, LockFacts
  <2>4. ASSUME NEW u \in StorageThreads, P1[u] = "take"
        PROVE  D1[O[u][1]].free > 0 /\ (D1[O[u][1]].free = 1 => K = u)
    BY <1>3, <2>4, LockFacts
  <2> QED BY <2>1, <2>2, <2>3, <2>4 DEF LocksOK
<1>5. ASSUME NEW g \in DOMAIN D1 PROVE CountOK(D1, P1, g)
  <2>1. CASE g = f
    <3>1. Cardinality(Objects) = FolioObjects /\ 0 \in Objects
      BY FolioFacts, FS_Interval DEF Objects
    <3>2. Cardinality(Objects \ ({} \cup {0})) = Cardinality(Objects \ {}) - 1
      BY <3>1, FreeCounts
    <3>3. {} \cup {0} = {0} /\ Objects \ {} = Objects
      OBVIOUS
    <3>4. Cardinality(Objects \ {0}) = FolioObjects - 1
      BY <3>1, <3>2, <3>3
    <3> QED BY <2>1, <3>4 DEF CountOK
  <2>2. CASE g # f
    <3>1. g \in DOMAIN D /\ CountOK(D, P, g)
      BY <2>2 DEF StorageOK
    <3>2. (D[g].lock # NoThread /\ P1[D[g].lock] = "clear")
          <=> (D[g].lock # NoThread /\ P[D[g].lock] = "clear")
      BY <1>3, <3>1, LockFacts DEF StorageLocks
    <3> QED BY <3>1, <3>2 DEF CountOK
  <2> QED BY <2>1, <2>2
<1>6. StorageListsOK(D1, L1)
  <2>1. \A g \in Folios : (g \in DOMAIN D1 /\ D1[g].free > 0)
           <=> (g = f \/ (g \in DOMAIN D /\ D[g].free > 0))
    BY FolioFacts
  <2> QED BY <2>1 DEF StorageOK, StorageListsOK
<1> QED BY <1>2, <1>4, <1>5, <1>6 DEF StorageOK

LEMMA StorageParts ==
  ASSUME NEW S \in StorageLib, NEW R \in SUBSET (Folios \X Objects)
  PROVE  Parts(S.desc, S.list, S.lock, S.pc, S.object, R)
  BY DEF StorageLib, Parts, DescMaps, ListMaps

LEMMA DescSet ==
  ASSUME NEW D \in DescMaps, NEW f \in DOMAIN D, NEW d \in Descs
  PROVE  [D EXCEPT ![f] = d] \in DescMaps
<1>1. PICK F \in SUBSET Folios : D \in [F -> Descs]
  BY DEF DescMaps
<1>2. [D EXCEPT ![f] = d] \in [F -> Descs]
  BY <1>1
<1> QED BY <1>1, <1>2 DEF DescMaps

LEMMA PlusInt ==
  ASSUME NEW n \in Int, NEW d \in Int
  PROVE  Plus(n, d) \in Int
<1>1. n + CountModulus + d \in Int /\ CountModulus \in Int /\ CountModulus > 0
  BY FolioFacts
<1> QED BY <1>1 DEF Plus

\* What a step does to the record of the state, when the new values are typed.
LEMMA StorageTyped ==
  ASSUME NEW S \in StorageLib, NEW D \in DescMaps, NEW L \in ListMaps, NEW K \in StorageLocks,
         NEW l \in StorageLocks, NEW b \in BOOLEAN, NEW n \in Int, NEW c \in Nat,
         NEW P \in [StorageThreads -> StoragePlaces], NEW F \in [StorageThreads -> BOOLEAN],
         NEW E \in [StorageThreads -> Expectancies], NEW O \in [StorageThreads -> Nat \X Nat]
  PROVE  [S EXCEPT !.desc = D, !.list = L, !.lock = K, !.low = l, !.do_serialize = b,
                   !.free_count = n, !.calls = c, !.pc = P, !.force = F, !.expect = E,
                   !.object = O] \in StorageLib
  BY DEF StorageLib, DescMaps, ListMaps

LEMMA EarlyStep ==
  ASSUME StorageInv, NEW t \in StorageThreads,
         \/ \E e \in Expectancies : StorageAlloc(t, e)
         \/ ReserveReturns(t)
         \/ ReserveFolio(t)
         \/ /\ lib.pc[t] = "pluck"
            /\ Becomes([Go(lib, t, "check") EXCEPT !.force[t] = TRUE], ref)
  PROVE  StorageInv'
<1>0. lib \in StorageLib /\ ref \in SUBSET (Folios \X Objects)
      /\ StorageOK(lib.desc, lib.list, lib.lock, lib.pc, lib.object, ref)
  BY DEF StorageInv, StorageTypeOK
<1>1. PICK x \in Early : /\ lib' \in StorageLib /\ ref' = ref /\ lib.pc[t] \in Early
                         /\ lib'.desc = lib.desc /\ lib'.list = lib.list /\ lib'.lock = lib.lock
                         /\ lib'.object = lib.object /\ lib'.pc = [lib.pc EXCEPT ![t] = x]
  <2>1. CASE \E e \in Expectancies : StorageAlloc(t, e)
    <3>1. PICK e \in Expectancies : StorageAlloc(t, e)
      BY <2>1
    <3>2. "check" \in Early /\ "check" \in StoragePlaces
      BY DEF Early, StoragePlaces
    <3>3. lib.calls + 1 \in Nat
      BY <1>0 DEF StorageLib
    <3>4. /\ lib' \in StorageLib /\ ref' = ref
          /\ lib'.desc = lib.desc /\ lib'.list = lib.list /\ lib'.lock = lib.lock
          /\ lib'.object = lib.object /\ lib'.pc = [lib.pc EXCEPT ![t] = "check"]
      BY <1>0, <3>1, <3>2, <3>3 DEF StorageAlloc, Becomes, Go, StorageLib
    <3> QED BY <3>1, <3>2, <3>4 DEF StorageAlloc, Early
  <2>2. CASE ReserveReturns(t)
    BY <1>0, <2>2 DEF ReserveReturns, Becomes, Go, StorageLib, Early, StoragePlaces
  <2>3. CASE ReserveFolio(t)
    <3>1. lib.free_count \in Int /\ FolioObjects \in Int
      BY <1>0, FolioFacts DEF StorageLib
    <3>2. Plus(lib.free_count, FolioObjects) \in Int
      BY <3>1, PlusInt
    <3>3. "folio" \in Early /\ "folio" \in StoragePlaces /\ t \in StorageLocks
      BY DEF Early, StoragePlaces, StorageLocks
    <3> DEFINE S == Go(Count(lib, FolioObjects), t, "folio")
    <3>4. /\ S \in StorageLib /\ S.desc = lib.desc /\ S.list = lib.list /\ S.lock = lib.lock
          /\ S.object = lib.object /\ S.pc = [lib.pc EXCEPT ![t] = "folio"]
      BY <1>0, <3>2, <3>3 DEF Go, Count, StorageLib
    <3>5. ref' = ref /\ lib.pc[t] = "check"
            /\ (lib' = S \/ lib' = [S EXCEPT !.low = t, !.do_serialize = TRUE])
      BY <2>3 DEF ReserveFolio, Becomes
    <3> HIDE DEF S
    <3>6. /\ lib' \in StorageLib /\ lib'.desc = S.desc /\ lib'.list = S.list /\ lib'.lock = S.lock
          /\ lib'.object = S.object /\ lib'.pc = S.pc
      BY <3>3, <3>4, <3>5 DEF StorageLib
    <3> QED BY <3>3, <3>4, <3>5, <3>6 DEF Early
  <2>4. CASE /\ lib.pc[t] = "pluck"
             /\ Becomes([Go(lib, t, "check") EXCEPT !.force[t] = TRUE], ref)
    BY <1>0, <2>4 DEF Becomes, Go, StorageLib, Early, StoragePlaces
  <2> QED BY <2>1, <2>2, <2>3, <2>4
<1>2. /\ Parts(lib.desc, lib.list, lib.lock, lib.pc, lib.object, ref)
      /\ lib'.pc \in [StorageThreads -> StoragePlaces] /\ SameBut(lib.pc, lib'.pc, t)
      /\ lib'.pc[t] \in Early
  BY <1>0, <1>1, StorageParts DEF SameBut, StorageLib
<1>3. StorageOK(lib.desc, lib.list, lib.lock, lib'.pc, lib.object, ref)
  BY <1>0, <1>1, <1>2, MovesOn
<1> QED BY <1>0, <1>1, <1>3 DEF StorageInv, StorageTypeOK

LEMMA LinkStep ==
  ASSUME StorageInv, NEW t \in StorageThreads, LinkFolio(t)
  PROVE  StorageInv'
<1>0. lib \in StorageLib /\ ref \in SUBSET (Folios \X Objects)
      /\ StorageOK(lib.desc, lib.list, lib.lock, lib.pc, lib.object, ref)
      /\ Parts(lib.desc, lib.list, lib.lock, lib.pc, lib.object, ref)
  BY StorageParts DEF StorageInv, StorageTypeOK
<1> DEFINE f == Min(Folios \ DOMAIN lib.desc)
           l == IF lib.expect[t] = "ephemeral" THEN "short" ELSE "allocing"
           d == [alloced |-> {0}, free |-> FolioObjects - 1, lock |-> NoThread,
                 mode |-> l, shadow |-> <<f, 0>>]
           D1 == [g \in DOMAIN lib.desc \cup {f} |-> IF g = f THEN d ELSE lib.desc[g]]
           L1 == LinkedTo(lib.list, l, f)
           b == IF lib.low = t THEN NoThread ELSE lib.low
           c == IF lib.low = t THEN FALSE ELSE lib.do_serialize
           n == Plus(lib.free_count, -1)
<1>1. f \in Folios /\ f \notin DOMAIN lib.desc
  <2>1. DOMAIN lib.desc \in SUBSET Folios
    BY <1>0, DescMapsTyped DEF Parts
  <2>2. Folios \ DOMAIN lib.desc # {} /\ Folios \ DOMAIN lib.desc \in SUBSET Nat
    BY <2>1, FolioFacts DEF LinkFolio, Folios
  <2> QED BY <2>2, Smallest
<1>2. lib' = [lib EXCEPT !.desc = D1, !.list = L1, !.pc = [lib.pc EXCEPT ![t] = "pluck"],
                         !.low = b, !.do_serialize = c, !.free_count = n]
      /\ ref' = ref /\ lib.pc[t] = "folio"
  BY <1>0 DEF LinkFolio, Becomes, Go, Count, Folios, StorageLib
<1>3. l \in Lists /\ l \in Modes
  BY DEF Lists, Modes
<1>4. d \in Descs
  <2>1. {0} \in SUBSET Objects /\ FolioObjects - 1 \in Nat /\ NoThread \in StorageLocks
        /\ <<f, 0>> \in Folios \X Objects
    BY <1>1, FolioFacts DEF StorageLocks
  <2> HIDE DEF l, f
  <2> QED BY <1>3, <2>1 DEF Descs
<1> HIDE DEF f, l
<1>5. D1 \in DescMaps /\ DOMAIN D1 = DOMAIN lib.desc \cup {f} /\ D1[f] = d
      /\ \A g \in DOMAIN lib.desc : D1[g] = lib.desc[g]
  <2> HIDE DEF d
  <2>1. DOMAIN lib.desc \cup {f} \in SUBSET Folios /\ \A g \in DOMAIN lib.desc : lib.desc[g] \in Descs
    BY <1>0, <1>1, DescMapsTyped DEF Parts
  <2>2. D1 \in [DOMAIN lib.desc \cup {f} -> Descs]
    BY <1>4, <2>1
  <2>3. D1 \in DescMaps
    BY <2>1, <2>2 DEF DescMaps
  <2> QED BY <1>1, <2>3
<1>6. L1 \in ListMaps /\ Simple(L1)
      /\ \A g \in Folios : (\E k \in Lists : On(L1, k, g)) <=>
           (g = f \/ \E k \in Lists : On(lib.list, k, g))
  <2>1. Simple(lib.list) /\ \A k \in Lists : ~On(lib.list, k, f)
    BY <1>0, <1>1 DEF StorageOK, StorageListsOK
  <2>2. lib.list \in ListMaps
    BY <1>0 DEF Parts
  <2>3. /\ L1 \in ListMaps /\ Simple(L1)
        /\ \A k \in Lists, g \in Folios : On(L1, k, g) <=> (On(lib.list, k, g) \/ (k = l /\ g = f))
    BY <1>1, <1>3, <2>1, <2>2, LinkedToIs
  <2> QED BY <1>3, <2>3
<1>7. b \in StorageLocks /\ c \in BOOLEAN /\ n \in Int
  <2>1. lib.free_count \in Int /\ -1 \in Int
    BY <1>0 DEF StorageLib
  <2>2. n \in Int
    BY <2>1, PlusInt
  <2>3. lib.low \in StorageLocks /\ lib.do_serialize \in BOOLEAN
    BY <1>0 DEF StorageLib
  <2>4. b \in StorageLocks
    BY <2>3 DEF StorageLocks
  <2>5. c \in BOOLEAN
    BY <2>3
  <2> QED BY <2>2, <2>4, <2>5
<1>8. [lib.pc EXCEPT ![t] = "pluck"] \in [StorageThreads -> StoragePlaces]
  BY <1>0 DEF StorageLib, StoragePlaces
<1> HIDE DEF L1, b, c, n
<1>9. /\ lib' \in StorageLib /\ lib'.desc = D1 /\ lib'.list = L1 /\ lib'.lock = lib.lock
      /\ lib'.object = lib.object /\ lib'.pc = [lib.pc EXCEPT ![t] = "pluck"]
  <2> HIDE DEF D1
  <2> QED BY <1>0, <1>2, <1>5, <1>6, <1>7, <1>8 DEF StorageLib, DescMaps, ListMaps
<1>10. /\ D1[f].alloced = {0} /\ D1[f].free = FolioObjects - 1 /\ D1[f].lock = NoThread
       /\ D1[f].shadow = <<f, 0>>
  BY <1>5
<1> HIDE DEF D1, d
<1>11. /\ Parts(D1, L1, lib.lock, lib'.pc, lib.object, ref)
       /\ SameBut(lib.pc, lib'.pc, t) /\ lib.pc[t] \in Early /\ lib'.pc[t] \in Early
  <2>1. Parts(lib'.desc, lib'.list, lib'.lock, lib'.pc, lib'.object, ref)
    BY <1>0, <1>9, StorageParts
  <2>2. SameBut(lib.pc, lib'.pc, t) /\ lib'.pc[t] = "pluck"
    BY <1>0, <1>9 DEF SameBut, StorageLib
  <2> QED BY <1>2, <1>9, <2>1, <2>2 DEF Early
<1>12. StorageOK(D1, L1, lib.lock, lib'.pc, lib.object, ref)
  BY <1>0, <1>1, <1>5, <1>6, <1>10, <1>11, LinkKeeps
<1> QED BY <1>0, <1>2, <1>9, <1>12 DEF StorageInv, StorageTypeOK

LEMMA PluckStep ==
  ASSUME StorageInv, NEW t \in StorageThreads, NEW m \in Lists, NEW j \in DOMAIN lib.list[m],
         lib.pc[t] = "pluck", lib.lock = NoThread, lib.desc[lib.list[m][j]].lock = NoThread,
         Becomes(Plucked(t, lib.list[m][j]), ref)
  PROVE  StorageInv'
<1>0. lib \in StorageLib /\ ref \in SUBSET (Folios \X Objects)
      /\ StorageOK(lib.desc, lib.list, lib.lock, lib.pc, lib.object, ref)
      /\ Parts(lib.desc, lib.list, lib.lock, lib.pc, lib.object, ref)
  BY StorageParts DEF StorageInv, StorageTypeOK
<1> DEFINE f == lib.list[m][j]
           d == [lib.desc[f] EXCEPT !.lock = t]
           D1 == [lib.desc EXCEPT ![f] = d]
           moves == lib.expect[t] = "long" /\ f \notin Range(lib.list["allocing"])
           L1 == IF moves THEN LinkedTo(Unlinked(lib.list, f), "allocing", f) ELSE lib.list
           K1 == IF lib.desc[f].free = 1 THEN t ELSE NoThread
           O1 == [lib.object EXCEPT ![t] = <<f, 0>>]
           P1 == [lib.pc EXCEPT ![t] = "take"]
<1>1. f \in Folios /\ f \in DOMAIN lib.desc /\ lib.desc[f].free > 0 /\ lib.desc[f] \in Descs
  <2>1. f \in Folios /\ On(lib.list, m, f)
    BY <1>0 DEF Parts, ListMaps, On
  <2>2. f \in DOMAIN lib.desc /\ lib.desc[f].free > 0
    BY <1>0, <2>1 DEF StorageOK, StorageListsOK
  <2> QED BY <1>0, <2>1, <2>2, LockFacts
<1> HIDE DEF f
<1>2. lib' = [lib EXCEPT !.desc = D1, !.list = L1, !.pc = P1, !.object = O1, !.lock = K1]
      /\ ref' = ref
  <2>0. lib' = Plucked(t, f) /\ ref' = ref
    BY DEF Becomes, f
  <2> QED BY <1>0, <2>0 DEF Plucked, Go, KeepsLock, StorageLib
<1>3. d \in Descs /\ d.lock = t /\ d.alloced = lib.desc[f].alloced /\ d.free = lib.desc[f].free
      /\ d.shadow = lib.desc[f].shadow
  BY <1>1 DEF Descs, StorageLocks
<1>4. L1 \in ListMaps /\ Simple(L1)
      /\ \A g \in Folios : (\E k \in Lists : On(L1, k, g)) <=> (\E k \in Lists : On(lib.list, k, g))
  <2>0. lib.list \in ListMaps /\ Simple(lib.list) /\ "allocing" \in Lists /\ \E k \in Lists :
          On(lib.list, k, f)
    BY <1>0, <1>1 DEF Parts, StorageOK, StorageListsOK, Lists
  <2>1. CASE ~moves
    BY <2>0, <2>1
  <2>2. CASE moves
    <3> DEFINE U == Unlinked(lib.list, f)
               W == LinkedTo(U, "allocing", f)
    <3>1. /\ U \in ListMaps /\ Simple(U)
          /\ \A k \in Lists, g \in Folios : On(U, k, g) <=> (g # f /\ On(lib.list, k, g))
      BY <1>1, <2>0, UnlinkedIs
    <3> HIDE DEF U
    <3>2. \A k \in Lists : ~On(U, k, f)
      BY <1>1, <3>1
    <3>3. /\ W \in ListMaps /\ Simple(W)
          /\ \A k \in Lists, g \in Folios : On(W, k, g) <=> (On(U, k, g) \/ (k = "allocing" /\ g = f))
      BY <1>1, <2>0, <3>1, <3>2, LinkedToIs
    <3> HIDE DEF W
    <3>4. L1 = W
      BY <2>2 DEF U, W
    <3>5. \A g \in Folios : (\E k \in Lists : On(W, k, g)) <=> (\E k \in Lists : On(lib.list, k, g))
      BY <2>0, <3>1, <3>3
    <3> QED BY <3>3, <3>4, <3>5
  <2> QED BY <2>1, <2>2
<1> HIDE DEF d, L1
<1>5. D1 \in DescMaps /\ D1[f] = d /\ SameBut(lib.desc, D1, f)
  <2>1. lib.desc \in DescMaps
    BY <1>0 DEF Parts
  <2>2. D1 \in DescMaps
    BY <1>1, <1>3, <2>1, DescSet
  <2> QED BY <1>1, <2>2 DEF SameBut
<1>6. /\ P1 \in [StorageThreads -> StoragePlaces] /\ P1[t] = "take" /\ SameBut(lib.pc, P1, t)
      /\ O1 \in [StorageThreads -> Nat \X Nat] /\ O1[t][1] = f /\ SameBut(lib.object, O1, t)
      /\ K1 \in StorageLocks
  <2>1. lib.pc \in [StorageThreads -> StoragePlaces] /\ lib.object \in [StorageThreads -> Nat \X Nat]
        /\ <<f, 0>> \in Nat \X Nat
    BY <1>0, <1>1, FolioFacts DEF Parts
  <2> QED BY <2>1 DEF StoragePlaces, SameBut, StorageLocks
<1> HIDE DEF D1, K1, O1, P1
<1>7. /\ lib' \in StorageLib /\ lib'.desc = D1 /\ lib'.list = L1 /\ lib'.lock = K1
      /\ lib'.object = O1 /\ lib'.pc = P1
  BY <1>0, <1>2, <1>4, <1>5, <1>6 DEF StorageLib, DescMaps, ListMaps
<1>8. Parts(D1, L1, K1, P1, O1, ref)
  BY <1>0, <1>7, StorageParts
<1>9. StorageOK(D1, L1, K1, P1, O1, ref)
  <2>1. K1 = IF lib.desc[f].free = 1 THEN t ELSE NoThread
    BY DEF K1
  <2>2. lib.desc[f].lock = NoThread
    BY DEF f
  <2> QED BY <1>0, <1>1, <1>3, <1>4, <1>5, <1>6, <1>8, <2>1, <2>2, PluckKeeps
<1> QED BY <1>0, <1>2, <1>7, <1>9 DEF StorageInv, StorageTypeOK

LEMMA TakeStep ==
  ASSUME StorageInv, NEW t \in StorageThreads, TakeObject(t)
  PROVE  StorageInv'
<1>0. lib \in StorageLib /\ ref \in SUBSET (Folios \X Objects)
      /\ StorageOK(lib.desc, lib.list, lib.lock, lib.pc, lib.object, ref)
      /\ Parts(lib.desc, lib.list, lib.lock, lib.pc, lib.object, ref)
  BY StorageParts DEF StorageInv, StorageTypeOK
<1> DEFINE f == lib.object[t][1]
           e == lib.desc[f]
           i == Min(Objects \ e.alloced)
           d == [e EXCEPT !.alloced = @ \cup {i}, !.free = @ - 1,
                          !.mode = IF e.free = 1 /\ e.mode = "allocing" THEN "stable" ELSE e.mode,
                          !.lock = NoThread]
           D1 == [lib.desc EXCEPT ![f] = d]
           L1 == IF e.free = 1 THEN Unlinked(lib.list, f) ELSE lib.list
           K1 == IF e.free = 1 THEN NoThread ELSE lib.lock
           O1 == [lib.object EXCEPT ![t] = NoObject]
           P1 == [lib.pc EXCEPT ![t] = "idle"]
           R1 == ref \cup {<<f, i>>}
           n == Plus(lib.free_count, -1)
<1>1. f \in DOMAIN lib.desc /\ f \in Folios /\ e \in Descs /\ e.free > 0 /\ lib.pc[t] = "take"
  <2>1. lib.pc[t] = "take"
    BY DEF TakeObject
  <2> QED BY <1>0, <2>1, LockFacts
<1>2. i \in Objects /\ i \notin e.alloced
  <2>1. e.alloced \in SUBSET Objects /\ e.alloced # Objects
    BY <1>1 DEF TakeObject, Descs
  <2>2. Objects \ e.alloced # {} /\ Objects \ e.alloced \in SUBSET Nat
    BY <2>1, FolioFacts
  <2> HIDE DEF e
  <2> QED BY <2>2, Smallest
<1>3. lib' = [lib EXCEPT !.desc = D1, !.list = L1, !.pc = P1, !.object = O1, !.lock = K1,
                         !.free_count = n] /\ ref' = R1
  <2>1. /\ ref' = R1
        /\ lib' = [Go(Count(lib, -1), t, "idle") EXCEPT
                      !.desc[f] = d, !.list = IF e.free = 1 THEN Unlinked(@, f) ELSE @,
                      !.lock = IF e.free = 1 THEN NoThread ELSE @, !.object[t] = NoObject]
    BY DEF TakeObject, Becomes, OffList
  <2> HIDE DEF d, f, e, i
  <2> QED BY <1>0, <2>1 DEF Go, Count, StorageLib
<1> HIDE DEF f, i
<1>4. d \in Descs /\ d.lock = NoThread /\ d.alloced = e.alloced \cup {i} /\ d.free = e.free - 1
      /\ d.shadow = e.shadow
  <2> HIDE DEF e
  <2>1. e.alloced \cup {i} \in SUBSET Objects /\ e.free - 1 \in Nat /\ e.mode \in Modes
        /\ NoThread \in StorageLocks /\ "stable" \in Modes
    BY <1>1, <1>2 DEF Descs, StorageLocks, Modes
  <2> QED BY <1>1, <2>1 DEF Descs
<1>5. L1 \in ListMaps /\ Simple(L1)
      /\ \A g \in Folios : (\E k \in Lists : On(L1, k, g)) <=>
             ((\E k \in Lists : On(lib.list, k, g)) /\ (e.free = 1 => g # f))
  <2>0. lib.list \in ListMaps /\ Simple(lib.list)
    BY <1>0 DEF Parts, StorageOK, StorageListsOK
  <2>1. CASE e.free # 1
    BY <2>0, <2>1
  <2>2. CASE e.free = 1
    <3> DEFINE U == Unlinked(lib.list, f)
    <3>1. /\ U \in ListMaps /\ Simple(U)
          /\ \A k \in Lists, g \in Folios : On(U, k, g) <=> (g # f /\ On(lib.list, k, g))
      BY <1>1, <2>0, UnlinkedIs
    <3> HIDE DEF U
    <3>2. L1 = U
      BY <2>2 DEF U
    <3> QED BY <2>2, <3>1, <3>2
  <2> QED BY <2>1, <2>2
<1> HIDE DEF d, L1
<1>6. D1 \in DescMaps /\ D1[f] = d /\ SameBut(lib.desc, D1, f)
  <2>1. lib.desc \in DescMaps
    BY <1>0 DEF Parts
  <2>2. D1 \in DescMaps
    BY <1>1, <1>4, <2>1, DescSet
  <2> QED BY <1>1, <2>2 DEF SameBut
<1>7. /\ P1 \in [StorageThreads -> StoragePlaces] /\ P1[t] = "idle" /\ SameBut(lib.pc, P1, t)
      /\ O1 \in [StorageThreads -> Nat \X Nat] /\ SameBut(lib.object, O1, t)
      /\ K1 \in StorageLocks /\ R1 \in SUBSET (Folios \X Objects) /\ n \in Int
  <2>1. lib.pc \in [StorageThreads -> StoragePlaces] /\ lib.object \in [StorageThreads -> Nat \X Nat]
        /\ NoObject \in Nat \X Nat /\ lib.lock \in StorageLocks /\ lib.free_count \in Int /\ -1 \in Int
    BY <1>0 DEF Parts, NoObject, StorageLib
  <2>2. n \in Int
    BY <2>1, PlusInt
  <2> HIDE DEF n
  <2> QED BY <1>0, <1>1, <1>2, <2>1, <2>2 DEF StoragePlaces, SameBut, StorageLocks
<1> HIDE DEF D1, K1, O1, P1, n
<1>8. /\ lib' \in StorageLib /\ lib'.desc = D1 /\ lib'.list = L1 /\ lib'.lock = K1
      /\ lib'.object = O1 /\ lib'.pc = P1
  BY <1>0, <1>3, <1>5, <1>6, <1>7 DEF StorageLib, DescMaps, ListMaps
<1>9. Parts(D1, L1, K1, P1, O1, R1)
  BY <1>7, <1>8, StorageParts
<1>10. StorageOK(D1, L1, K1, P1, O1, R1)
  <2>1. K1 = IF lib.desc[f].free = 1 THEN NoThread ELSE lib.lock
    BY DEF K1
  <2>2. lib.object[t][1] = f
    BY DEF f
  <2> QED BY <1>0, <1>1, <1>2, <1>4, <1>5, <1>6, <1>7, <1>9, <2>1, <2>2, TakeKeeps
<1> QED BY <1>3, <1>7, <1>8, <1>10 DEF StorageInv, StorageTypeOK

LEMMA GiveStep ==
  ASSUME StorageInv, NEW t \in StorageThreads, NEW o \in ref, StorageFree(t, o)
  PROVE  StorageInv'
<1>0. lib \in StorageLib /\ ref \in SUBSET (Folios \X Objects)
      /\ StorageOK(lib.desc, lib.list, lib.lock, lib.pc, lib.object, ref)
      /\ Parts(lib.desc, lib.list, lib.lock, lib.pc, lib.object, ref)
  BY StorageParts DEF StorageInv, StorageTypeOK
<1> DEFINE O1 == [lib.object EXCEPT ![t] = o]
           P1 == [lib.pc EXCEPT ![t] = "free"]
           n == Plus(lib.free_count, 1)
<1>1. lib' = [lib EXCEPT !.pc = P1, !.object = O1, !.free_count = n, !.calls = lib.calls + 1]
      /\ ref' = ref \ {o} /\ lib.pc[t] = "idle"
  BY <1>0 DEF StorageFree, Becomes, Go, Count, StorageLib
<1>2. n \in Int /\ lib.calls + 1 \in Nat
  <2>1. lib.free_count \in Int /\ 1 \in Int /\ lib.calls \in Nat
    BY <1>0 DEF StorageLib
  <2>2. n \in Int
    BY <2>1, PlusInt
  <2> HIDE DEF n
  <2> QED BY <2>1, <2>2
<1>3. /\ P1 \in [StorageThreads -> StoragePlaces] /\ P1[t] = "free" /\ SameBut(lib.pc, P1, t)
      /\ O1 \in [StorageThreads -> Nat \X Nat] /\ O1[t] = o /\ SameBut(lib.object, O1, t)
  <2>1. lib.pc \in [StorageThreads -> StoragePlaces] /\ lib.object \in [StorageThreads -> Nat \X Nat]
        /\ o \in Nat \X Nat
    BY <1>0, FolioFacts DEF Parts
  <2> QED BY <2>1 DEF StoragePlaces, SameBut
<1> HIDE DEF O1, P1, n
<1>4. /\ lib' \in StorageLib /\ lib'.desc = lib.desc /\ lib'.list = lib.list /\ lib'.lock = lib.lock
      /\ lib'.object = O1 /\ lib'.pc = P1
  BY <1>0, <1>1, <1>2, <1>3 DEF StorageLib
<1>5. ref' \in SUBSET (Folios \X Objects)
  BY <1>0, <1>1
<1>6. Parts(lib.desc, lib.list, lib.lock, P1, O1, ref')
  <2>1. Parts(lib'.desc, lib'.list, lib'.lock, lib'.pc, lib'.object, ref')
    BY <1>4, <1>5, StorageParts
  <2> QED BY <1>4, <2>1
<1>7. StorageOK(lib.desc, lib.list, lib.lock, P1, O1, ref')
  BY <1>0, <1>1, <1>3, <1>6, GiveKeeps
<1> QED BY <1>4, <1>5, <1>7 DEF StorageInv, StorageTypeOK

LEMMA ClearStep ==
  ASSUME StorageInv, NEW t \in StorageThreads, ClearObject(t)
  PROVE  StorageInv'
<1>0. lib \in StorageLib /\ ref \in SUBSET (Folios \X Objects)
      /\ StorageOK(lib.desc, lib.list, lib.lock, lib.pc, lib.object, ref)
      /\ Parts(lib.desc, lib.list, lib.lock, lib.pc, lib.object, ref)
  BY StorageParts DEF StorageInv, StorageTypeOK
<1> DEFINE f == lib.object[t][1]
           i == lib.object[t][2]
           e == lib.desc[f]
           d == [e EXCEPT !.alloced = @ \ {i}, !.lock = NoThread]
           D1 == [lib.desc EXCEPT ![f] = d]
           O1 == [lib.object EXCEPT ![t] = NoObject]
           P1 == [lib.pc EXCEPT ![t] = "idle"]
<1>1. f \in DOMAIN lib.desc /\ f \in Folios /\ e \in Descs /\ lib.pc[t] = "clear"
      /\ i \in Objects /\ lib.object[t] = <<f, i>>
  <2>1. lib.pc[t] = "clear"
    BY DEF ClearObject
  <2>2. f \in DOMAIN lib.desc /\ f \in Folios /\ e \in Descs
    BY <1>0, <2>1, LockFacts
  <2>3. lib.object[t] \in Folios \X Objects
    BY <1>0, <2>1 DEF StorageOK, OwnersOK, Frees
  <2> QED BY <2>1, <2>2, <2>3
<1> HIDE DEF f, i
<1>2. lib' = [lib EXCEPT !.desc = D1, !.pc = P1, !.object = O1] /\ ref' = ref
  <2>1. lib' = [Go(lib, t, "idle") EXCEPT !.desc[f] = d, !.object[t] = NoObject] /\ ref' = ref
    BY DEF ClearObject, Becomes, f, i
  <2> HIDE DEF d
  <2> QED BY <1>0, <2>1 DEF Go, StorageLib
<1>3. d \in Descs /\ d.lock = NoThread /\ d.alloced = e.alloced \ {i} /\ d.free = e.free
      /\ d.shadow = e.shadow
  <2> HIDE DEF e
  <2> QED BY <1>1 DEF Descs, StorageLocks
<1> HIDE DEF d
<1>4. D1 \in DescMaps /\ D1[f] = d /\ SameBut(lib.desc, D1, f)
  <2>1. lib.desc \in DescMaps
    BY <1>0 DEF Parts
  <2>2. D1 \in DescMaps
    BY <1>1, <1>3, <2>1, DescSet
  <2> QED BY <1>1, <2>2 DEF SameBut
<1>5. /\ P1 \in [StorageThreads -> StoragePlaces] /\ P1[t] = "idle" /\ SameBut(lib.pc, P1, t)
      /\ O1 \in [StorageThreads -> Nat \X Nat] /\ SameBut(lib.object, O1, t)
  <2>1. lib.pc \in [StorageThreads -> StoragePlaces] /\ lib.object \in [StorageThreads -> Nat \X Nat]
        /\ NoObject \in Nat \X Nat
    BY <1>0 DEF Parts, NoObject
  <2> QED BY <2>1 DEF StoragePlaces, SameBut
<1> HIDE DEF D1, O1, P1
<1>6. /\ lib' \in StorageLib /\ lib'.desc = D1 /\ lib'.list = lib.list /\ lib'.lock = lib.lock
      /\ lib'.object = O1 /\ lib'.pc = P1
  BY <1>0, <1>2, <1>4, <1>5 DEF StorageLib, DescMaps
<1>7. Parts(D1, lib.list, lib.lock, P1, O1, ref)
  <2>1. Parts(lib'.desc, lib'.list, lib'.lock, lib'.pc, lib'.object, ref)
    BY <1>0, <1>6, StorageParts
  <2> QED BY <1>6, <2>1
<1>8. StorageOK(D1, lib.list, lib.lock, P1, O1, ref)
  BY <1>0, <1>1, <1>3, <1>4, <1>5, <1>7, ClearKeeps
<1> QED BY <1>0, <1>2, <1>6, <1>8 DEF StorageInv, StorageTypeOK

LEMMA KeepStep ==
  ASSUME StorageInv, NEW t \in StorageThreads,
         lib.pc[t] = "free", lib.lock = NoThread, lib.desc[lib.object[t][1]].lock = NoThread,
         Becomes(KeepFolio(t, lib.object[t][1], [lib.desc[lib.object[t][1]] EXCEPT !.free = @ + 1]), ref)
  PROVE  StorageInv'
<1>0. lib \in StorageLib /\ ref \in SUBSET (Folios \X Objects)
      /\ StorageOK(lib.desc, lib.list, lib.lock, lib.pc, lib.object, ref)
      /\ Parts(lib.desc, lib.list, lib.lock, lib.pc, lib.object, ref)
  BY StorageParts DEF StorageInv, StorageTypeOK
<1> DEFINE f == lib.object[t][1]
           d == [lib.desc[f] EXCEPT !.free = @ + 1]
           e == lib.desc[f]
           freeing == d.free # 1 /\ d.mode = "stable" /\ d.free > FolioObjects \div 2
           to == IF d.mode = "allocing" THEN "short" ELSE "allocing"
           kept == [d EXCEPT !.lock = t, !.mode = IF freeing THEN "freeing" ELSE @]
           D1 == [lib.desc EXCEPT ![f] = kept]
           L1 == IF d.free = 1 THEN LinkedTo(lib.list, to, f)
                 ELSE IF freeing THEN LinkedTo(Unlinked(lib.list, f), "freeing", f) ELSE lib.list
           P1 == [lib.pc EXCEPT ![t] = "clear"]
<1>1. f \in DOMAIN lib.desc /\ f \in Folios /\ e \in Descs /\ e.free \in Nat
  <2>1. InUse(lib.desc, lib.object[t])
    BY <1>0 DEF StorageOK, OwnersOK, Frees
  <2>2. f \in DOMAIN lib.desc
    BY <2>1 DEF InUse
  <2>3. f \in Folios /\ e \in Descs
    BY <1>0, <2>2, LockFacts
  <2> QED BY <2>2, <2>3 DEF Descs
<1>2. lib' = [lib EXCEPT !.desc = D1, !.list = L1, !.pc = P1] /\ ref' = ref
  <2>1. /\ ref' = ref
        /\ lib' = [Go(lib, t, "clear") EXCEPT
                      !.desc[f] = kept,
                      !.list = IF d.free = 1 THEN LinkedTo(@, to, f)
                               ELSE IF freeing THEN LinkedTo(Unlinked(@, f), "freeing", f) ELSE @]
    BY DEF Becomes, KeepFolio
  <2> HIDE DEF kept, freeing, to, f, d
  <2> QED BY <1>0, <2>1 DEF Go, StorageLib
<1>a. lib.object[t][1] = f /\ lib.desc[f].lock = NoThread /\ d = [e EXCEPT !.free = @ + 1]
  OBVIOUS
<1> HIDE DEF f, d
<1>3. d \in Descs /\ d.alloced = e.alloced /\ d.free = e.free + 1 /\ d.shadow = e.shadow
  <2>1. d = [e EXCEPT !.free = @ + 1] /\ e.free + 1 \in Nat
    BY <1>1, <1>a
  <2> HIDE DEF e
  <2> QED BY <1>1, <2>1 DEF Descs
<1>4. kept \in Descs /\ kept.lock = t /\ kept.alloced = e.alloced /\ kept.free = e.free + 1
      /\ kept.shadow = e.shadow
  <2>1. t \in StorageLocks /\ "freeing" \in Modes
    BY DEF StorageLocks, Modes
  <2> HIDE DEF freeing, e
  <2> QED BY <1>3, <2>1 DEF Descs
<1>5. L1 \in ListMaps /\ Simple(L1)
      /\ \A g \in Folios : (\E k \in Lists : On(L1, k, g)) <=>
           (g = f \/ \E k \in Lists : On(lib.list, k, g))
  <2>0. /\ lib.list \in ListMaps /\ Simple(lib.list) /\ "freeing" \in Lists /\ to \in Lists
        /\ e.free > 0 <=> \E k \in Lists : On(lib.list, k, f)
    BY <1>0, <1>1 DEF Parts, StorageOK, StorageListsOK, Lists
  <2> HIDE DEF to, freeing, e
  <2>1. CASE d.free = 1
    <3>1. ~(e.free > 0)
      BY <1>1, <1>3, <2>1
    <3>2. \A k \in Lists : ~On(lib.list, k, f)
      BY <2>0, <3>1
    <3> DEFINE W == LinkedTo(lib.list, to, f)
    <3>3. /\ W \in ListMaps /\ Simple(W)
          /\ \A k \in Lists, g \in Folios : On(W, k, g) <=> (On(lib.list, k, g) \/ (k = to /\ g = f))
      BY <1>1, <2>0, <3>2, LinkedToIs
    <3> HIDE DEF W
    <3>4. L1 = W
      BY <2>1 DEF W
    <3>5. \A g \in Folios : (\E k \in Lists : On(W, k, g)) <=>
            (g = f \/ \E k \in Lists : On(lib.list, k, g))
      BY <2>0, <3>3
    <3> QED BY <3>3, <3>4, <3>5
  <2>2. CASE d.free # 1
    <3>1. \E k \in Lists : On(lib.list, k, f)
      BY <1>1, <1>3, <2>0, <2>2
    <3>2. CASE ~freeing
      BY <2>0, <2>2, <3>1, <3>2
    <3>3. CASE freeing
      <4> DEFINE U == Unlinked(lib.list, f)
                 W == LinkedTo(U, "freeing", f)
      <4>1. /\ U \in ListMaps /\ Simple(U)
            /\ \A k \in Lists, g \in Folios : On(U, k, g) <=> (g # f /\ On(lib.list, k, g))
        BY <1>1, <2>0, UnlinkedIs
      <4> HIDE DEF U
      <4>2. \A k \in Lists : ~On(U, k, f)
        BY <1>1, <4>1
      <4>3. /\ W \in ListMaps /\ Simple(W)
            /\ \A k \in Lists, g \in Folios : On(W, k, g) <=> (On(U, k, g) \/ (k = "freeing" /\ g = f))
        BY <1>1, <2>0, <4>1, <4>2, LinkedToIs
      <4> HIDE DEF W
      <4>4. L1 = W
        BY <2>2, <3>3 DEF U, W
      <4>5. \A g \in Folios : (\E k \in Lists : On(W, k, g)) <=>
              (g = f \/ \E k \in Lists : On(lib.list, k, g))
        BY <2>0, <3>1, <4>1, <4>3
      <4> QED BY <4>3, <4>4, <4>5
    <3> QED BY <3>2, <3>3
  <2> QED BY <2>1, <2>2
<1> HIDE DEF kept, L1, freeing, to
<1>6. D1 \in DescMaps /\ D1[f] = kept /\ SameBut(lib.desc, D1, f)
  <2>1. lib.desc \in DescMaps
    BY <1>0 DEF Parts
  <2>2. D1 \in DescMaps
    BY <1>1, <1>4, <2>1, DescSet
  <2> QED BY <1>1, <2>2 DEF SameBut
<1>7. P1 \in [StorageThreads -> StoragePlaces] /\ P1[t] = "clear" /\ SameBut(lib.pc, P1, t)
  <2>1. lib.pc \in [StorageThreads -> StoragePlaces]
    BY <1>0 DEF Parts
  <2> QED BY <2>1 DEF StoragePlaces, SameBut
<1> HIDE DEF D1, P1
<1>8. /\ lib' \in StorageLib /\ lib'.desc = D1 /\ lib'.list = L1 /\ lib'.lock = lib.lock
      /\ lib'.object = lib.object /\ lib'.pc = P1
  BY <1>0, <1>2, <1>5, <1>6, <1>7 DEF StorageLib, DescMaps, ListMaps
<1>9. Parts(D1, L1, lib.lock, P1, lib.object, ref)
  <2>1. Parts(lib'.desc, lib'.list, lib'.lock, lib'.pc, lib'.object, ref)
    BY <1>0, <1>8, StorageParts
  <2> QED BY <1>8, <2>1
<1>10. StorageOK(D1, L1, lib.lock, P1, lib.object, ref)
  BY <1>0, <1>1, <1>4, <1>5, <1>6, <1>7, <1>9, <1>a, KeepKeeps
<1> QED BY <1>0, <1>2, <1>8, <1>10 DEF StorageInv, StorageTypeOK

LEMMA FreeFolioStep ==
  ASSUME StorageInv, NEW t \in StorageThreads,
         lib.pc[t] = "free", lib.lock = NoThread, lib.desc[lib.object[t][1]].lock = NoThread,
         Emptied(lib.object[t][1], [lib.desc[lib.object[t][1]] EXCEPT !.free = @ + 1]),
         Becomes(FreeFolio(t, lib.object[t][1], [lib.desc[lib.object[t][1]] EXCEPT !.free = @ + 1]), ref)
  PROVE  StorageInv'
<1>0. lib \in StorageLib /\ ref \in SUBSET (Folios \X Objects)
      /\ StorageOK(lib.desc, lib.list, lib.lock, lib.pc, lib.object, ref)
      /\ Parts(lib.desc, lib.list, lib.lock, lib.pc, lib.object, ref)
  BY StorageParts DEF StorageInv, StorageTypeOK
<1> DEFINE f == lib.object[t][1]
           d == [lib.desc[f] EXCEPT !.free = @ + 1]
           e == lib.desc[f]
           here == e.shadow[1] = f
           D1 == [g \in DOMAIN lib.desc \ {f} |-> lib.desc[g]]
           L1 == Unlinked(lib.list, f)
           O1 == [lib.object EXCEPT ![t] = IF here THEN NoObject ELSE e.shadow]
           P1 == [lib.pc EXCEPT ![t] = IF here THEN "idle" ELSE "free"]
           n == IF here THEN Plus(lib.free_count, -FolioObjects)
                ELSE Plus(Plus(lib.free_count, -FolioObjects), 1)
<1>1. f \in DOMAIN lib.desc /\ f \in Folios /\ e \in Descs /\ e.free \in Nat
        /\ e.shadow \in Folios \X Objects
  <2>1. InUse(lib.desc, lib.object[t])
    BY <1>0 DEF StorageOK, OwnersOK, Frees
  <2>2. f \in DOMAIN lib.desc
    BY <2>1 DEF InUse
  <2>3. f \in Folios /\ e \in Descs
    BY <1>0, <2>2, LockFacts
  <2> QED BY <2>2, <2>3 DEF Descs
<1>a. /\ lib.object[t][1] = f /\ lib.desc[f].lock = NoThread /\ d = [e EXCEPT !.free = @ + 1]
      /\ Emptied(f, d) /\ lib' = FreeFolio(t, f, d) /\ ref' = ref
  BY DEF Becomes
<1> HIDE DEF f, d
<1>2. d.free = e.free + 1 /\ d.shadow = e.shadow
  <2>1. d = [e EXCEPT !.free = @ + 1]
    BY <1>a
  <2> HIDE DEF e
  <2> QED BY <1>1, <2>1 DEF Descs
<1>3. Emptying(lib.desc, f)
  BY <1>2, <1>a DEF Emptied, Emptying
<1>4. lib' = [lib EXCEPT !.desc = D1, !.list = L1, !.pc = P1, !.object = O1, !.free_count = n]
      /\ ref' = ref
  <2> DEFINE S == [Count(lib, -FolioObjects) EXCEPT !.list = Unlinked(@, f), !.desc = D1,
                                                   !.object[t] = NoObject]
  <2>1. ref' = ref
    BY <1>a
  <2>2. lib' = IF here THEN Go(S, t, "idle") ELSE [Go(Count(S, 1), t,
          "free") EXCEPT !.object[t] = e.shadow]
    <3>1. lib' = IF d.shadow[1] = f THEN Go(S, t, "idle")
                 ELSE [Go(Count(S, 1), t, "free") EXCEPT !.object[t] = d.shadow]
      BY <1>a DEF FreeFolio
    <3> HIDE DEF S, e
    <3> QED BY <1>2, <3>1 DEF e
  <2>3. S = [lib EXCEPT !.list = L1, !.desc = D1, !.object = [lib.object EXCEPT ![t] = NoObject],
                        !.free_count = Plus(lib.free_count, -FolioObjects)]
    <3> HIDE DEF D1
    <3> QED BY <1>0 DEF Count, StorageLib
  <2> HIDE DEF D1, L1, S
  <2>4. CASE here
    <3>1. lib' = Go(S, t, "idle")
      BY <2>2, <2>4
    <3> QED BY <1>0, <2>1, <2>3, <2>4, <3>1 DEF Go, StorageLib
  <2>5. CASE ~here
    <3>1. lib' = [Go(Count(S, 1), t, "free") EXCEPT !.object[t] = e.shadow]
      BY <2>2, <2>5
    <3> HIDE DEF e
    <3>2. lib.object \in [StorageThreads -> Nat \X Nat]
      BY <1>0 DEF Parts
    <3> QED BY <1>0, <2>1, <2>3, <2>5, <3>1, <3>2 DEF Go, Count, StorageLib
  <2> QED BY <2>4, <2>5
<1>5. L1 \in ListMaps /\ Simple(L1)
      /\ \A g \in Folios : (\E k \in Lists : On(L1, k, g)) <=>
           (g # f /\ \E k \in Lists : On(lib.list, k, g))
  <2>0. lib.list \in ListMaps /\ Simple(lib.list)
    BY <1>0 DEF Parts, StorageOK, StorageListsOK
  <2>1. /\ L1 \in ListMaps /\ Simple(L1)
        /\ \A k \in Lists, g \in Folios : On(L1, k, g) <=> (g # f /\ On(lib.list, k, g))
    BY <1>1, <2>0, UnlinkedIs
  <2> HIDE DEF L1
  <2> QED BY <2>1
<1>6. D1 \in DescMaps /\ DOMAIN D1 = DOMAIN lib.desc \ {f} /\ \A g \in DOMAIN D1 : D1[g] = lib.desc[g]
  <2>1. DOMAIN lib.desc \ {f} \in SUBSET Folios /\ \A g \in DOMAIN lib.desc : lib.desc[g] \in Descs
    BY <1>0, DescMapsTyped DEF Parts
  <2>2. D1 \in [DOMAIN lib.desc \ {f} -> Descs]
    BY <2>1
  <2>3. D1 \in DescMaps
    BY <2>1, <2>2 DEF DescMaps
  <2> QED BY <2>3
<1>7. /\ P1 \in [StorageThreads -> StoragePlaces] /\ SameBut(lib.pc, P1, t)
      /\ O1 \in [StorageThreads -> Nat \X Nat] /\ SameBut(lib.object, O1, t)
      /\ here => P1[t] = "idle"
      /\ ~here => P1[t] = "free" /\ O1[t] = e.shadow
  <2>1. lib.pc \in [StorageThreads -> StoragePlaces] /\ lib.object \in [StorageThreads -> Nat \X Nat]
        /\ NoObject \in Nat \X Nat /\ e.shadow \in Nat \X Nat
    BY <1>0, <1>1, FolioFacts DEF Parts, NoObject
  <2> HIDE DEF e, here
  <2> QED BY <2>1 DEF StoragePlaces, SameBut
<1>8. n \in Int
  <2>1. lib.free_count \in Int /\ 1 \in Int /\ -FolioObjects \in Int
    BY <1>0, FolioFacts DEF StorageLib
  <2>2. Plus(lib.free_count, -FolioObjects) \in Int
    BY <2>1, PlusInt
  <2>3. Plus(Plus(lib.free_count, -FolioObjects), 1) \in Int
    BY <2>1, <2>2, PlusInt
  <2> QED BY <2>2, <2>3
<1> HIDE DEF D1, L1, O1, P1, n
<1>9. /\ lib' \in StorageLib /\ lib'.desc = D1 /\ lib'.list = L1 /\ lib'.lock = lib.lock
      /\ lib'.object = O1 /\ lib'.pc = P1
  BY <1>0, <1>4, <1>5, <1>6, <1>7, <1>8 DEF StorageLib, DescMaps, ListMaps
<1>10. Parts(D1, L1, lib.lock, P1, O1, ref)
  <2>1. Parts(lib'.desc, lib'.list, lib'.lock, lib'.pc, lib'.object, ref)
    BY <1>0, <1>9, StorageParts
  <2> QED BY <1>9, <2>1
<1>11. StorageOK(D1, L1, lib.lock, P1, O1, ref)
  BY <1>0, <1>1, <1>3, <1>5, <1>6, <1>7, <1>10, <1>a, FreeFolioKeeps
<1> QED BY <1>0, <1>4, <1>9, <1>11 DEF StorageInv, StorageTypeOK

LEMMA StorageInitInv == StorageInit => StorageInv
<1> SUFFICES ASSUME StorageInit PROVE StorageInv
  OBVIOUS
<1> DEFINE a == [alloced |-> Objects, free |-> 0, mode |-> "allocing", lock |-> NoThread,
      shadow |-> <<2, 1>>]
           b == [alloced |-> {0, 1}, free |-> FolioObjects - 2, mode |-> "allocing",
                 lock |-> NoThread, shadow |-> <<2, 0>>]
           D == lib.desc
           L == lib.list
<1>1. D = <<a, b>> /\ L = [l \in Lists |-> IF l = "allocing" THEN <<2>> ELSE <<>>]
      /\ lib.lock = NoThread /\ lib.pc = [t \in StorageThreads |-> "idle"]
      /\ lib.object = [t \in StorageThreads |-> NoObject] /\ ref = {<<1, i>> : i \in Objects}
  BY DEF StorageInit
<1>2. a \in Descs /\ b \in Descs
  BY FolioFacts DEF Descs, StorageLocks, Modes
<1>3. DOMAIN D = {1, 2} /\ D[1] = a /\ D[2] = b
  BY <1>1
<1>4. D \in DescMaps
  <2>1. {1, 2} \in SUBSET Folios
    BY FolioFacts
  <2> HIDE DEF a, b
  <2>2. D \in [{1, 2} -> Descs]
    BY <1>1, <1>2
  <2> QED BY <2>1, <2>2 DEF DescMaps
<1>5. L \in ListMaps
  BY <1>1, FolioFacts DEF ListMaps, Lists
<1>6. lib \in StorageLib /\ ref \in SUBSET (Folios \X Objects)
  <2>1. NoThread \in StorageLocks /\ "idle" \in StoragePlaces /\ "long" \in Expectancies
        /\ NoObject \in Nat \X Nat /\ FolioObjects - 2 \in Int /\ 0 \in Nat
    BY FolioFacts DEF StorageLocks, StoragePlaces, Expectancies, NoObject
  <2>2. lib = [kind |-> StorageKind, desc |-> D, list |-> L, lock |-> NoThread, low |-> NoThread,
               do_serialize |-> FALSE, free_count |-> FolioObjects - 2, calls |-> 0,
               pc |-> [t \in StorageThreads |-> "idle"], force |-> [t \in StorageThreads |-> FALSE],
               expect |-> [t \in StorageThreads |-> "long"],
               object |-> [t \in StorageThreads |-> NoObject]]
    BY DEF StorageInit
  <2>3. ref \in SUBSET (Folios \X Objects)
    BY <1>1, FolioFacts
  <2> HIDE DEF D, L
  <2>4. lib \in StorageLib
    BY <1>4, <1>5, <2>1, <2>2 DEF StorageLib, DescMaps, ListMaps
  <2> QED BY <2>3, <2>4
<1> DEFINE P == lib.pc
           O == lib.object
<1>7. \A t \in StorageThreads : P[t] = "idle" /\ ~Frees(P, t)
  BY <1>1 DEF Frees
<1>8. OwnersOK(D, P, O, ref)
  <2>1. \A o \in ref : InUse(D, o)
    BY <1>1, <1>3 DEF InUse
  <2>2. D[1].shadow = <<2, 1>> /\ D[2].shadow = <<2, 0>>
    BY <1>3
  <2>3. InUse(D, <<2, 1>>) /\ InUse(D, <<2, 0>>) /\ <<2, 1>> \notin ref /\ <<2, 0>> \notin ref
    BY <1>1, <1>3 DEF InUse
  <2>4. \A f \in DOMAIN D : InUse(D, D[f].shadow) /\ D[f].shadow \notin ref
    BY <1>3, <2>2, <2>3
  <2>5. \A f, g \in DOMAIN D : D[f].shadow = D[g].shadow => f = g
    BY <1>3, <2>2
  <2>6. ASSUME NEW f \in DOMAIN D, NEW i \in D[f].alloced PROVE HasOwner(D, P, O, ref, <<f, i>>)
    <3>1. CASE f = 1
      BY <1>1, <1>3, <3>1 DEF HasOwner
    <3>2. CASE f = 2
      <4>1. <<f, i>> = D[1].shadow \/ <<f, i>> = D[2].shadow
        BY <1>3, <2>2, <3>2
      <4> QED BY <1>3, <4>1 DEF HasOwner
    <3> QED BY <1>3, <3>1, <3>2
  <2> HIDE DEF D, P, O
  <2> QED BY <1>7, <2>1, <2>4, <2>5, <2>6 DEF OwnersOK
<1>9. LocksOK(D, lib.lock, P, O)
  <2>1. \A f \in DOMAIN D : D[f].lock = NoThread
    BY <1>3
  <2> HIDE DEF D, O
  <2> QED BY <1>1, <1>7, <2>1 DEF LocksOK
<1>10. ASSUME NEW f \in DOMAIN D PROVE CountOK(D, P, f)
  <2>1. Cardinality(Objects) = FolioObjects /\ 0 \in Objects /\ 1 \in Objects
    BY FolioFacts, FS_Interval DEF Objects
  <2>2. Cardinality(Objects \ Objects) = 0
    <3>1. Objects \ Objects = {}
      OBVIOUS
    <3> QED BY <3>1, FS_EmptySet
  <2>3. Cardinality(Objects \ {0, 1}) = FolioObjects - 2
    <3>1. Cardinality(Objects \ ({} \cup {0})) = Cardinality(Objects \ {}) - 1
      BY <2>1, FreeCounts
    <3>2. {} \cup {0} = {0} /\ Objects \ {} = Objects /\ {0} \in SUBSET Objects
      BY <2>1
    <3>3. Cardinality(Objects \ {0}) = FolioObjects - 1
      BY <2>1, <3>1, <3>2
    <3>4. Cardinality(Objects \ ({0} \cup {1})) = Cardinality(Objects \ {0}) - 1
      <4> DEFINE A == {0}
      <4>1. A \in SUBSET Objects /\ 1 \notin A
        BY <2>1
      <4> HIDE DEF A
      <4>2. Cardinality(Objects \ (A \cup {1})) = Cardinality(Objects \ A) - 1
        BY <2>1, <4>1, FreeCounts
      <4> QED BY <4>2 DEF A
    <3>5. {0} \cup {1} = {0, 1}
      OBVIOUS
    <3> QED BY <3>3, <3>4, <3>5, FolioFacts
  <2>4. D[f].lock = NoThread /\ D[f].free = Cardinality(Objects \ D[f].alloced)
    BY <1>3, <2>2, <2>3
  <2> HIDE DEF D
  <2> QED BY <2>4 DEF CountOK
<1>11. StorageListsOK(D, L)
  <2>1. L["allocing"] = <<2>> /\ \A l \in Lists : l # "allocing" => L[l] = <<>>
    BY <1>1 DEF Lists
  <2>2. "allocing" \in Lists
    BY DEF Lists
  <2> HIDE DEF L
  <2>3. \A l \in Lists, f \in Folios : On(L, l, f) <=> (l = "allocing" /\ f = 2)
    BY <2>1 DEF On
  <2>4. Simple(L)
    <3>1. \A l \in Lists : \A i, j \in DOMAIN L[l] : L[l][i] = L[l][j] => i = j
      BY <2>1
    <3> QED BY <2>3, <3>1 DEF Simple
  <2>5. \A f \in Folios : (f \in DOMAIN D /\ D[f].free > 0) <=> f = 2
    BY <1>3, FolioFacts
  <2> HIDE DEF D
  <2> QED BY <2>2, <2>3, <2>4, <2>5 DEF StorageListsOK
<1> QED BY <1>6, <1>8, <1>9, <1>10, <1>11 DEF StorageInv, StorageTypeOK, StorageOK

LEMMA StorageStep ==
  ASSUME StorageInv, [StorageNext]_vars
  PROVE  StorageInv'
<1>1. CASE StorageNext
  <2>1. PICK t \in StorageThreads :
           \/ \E e \in Expectancies : StorageAlloc(t, e)
           \/ ReserveReturns(t) \/ ReserveFolio(t) \/ LinkFolio(t)
           \/ PluckDesc(t) \/ TakeObject(t)
           \/ \E o \in ref : StorageFree(t, o)
           \/ FreeObject(t) \/ ClearObject(t)
    BY <1>1 DEF StorageNext
  <2>2. CASE (\E e \in Expectancies : StorageAlloc(t, e)) \/ ReserveReturns(t) \/ ReserveFolio(t)
    BY <2>2, EarlyStep
  <2>3. CASE LinkFolio(t)
    BY <2>3, LinkStep
  <2>4. CASE PluckDesc(t)
    <3> DEFINE order == IF lib.expect[t] = "ephemeral" THEN <<"short", "allocing", "freeing">>
                                                       ELSE <<"allocing", "freeing", "short">>
    <3>1. CASE \E i \in 1..3 : \E j \in DOMAIN lib.list[order[i]] :
                  IsFirst(order, i, j) /\ Becomes(Plucked(t, lib.list[order[i]][j]), ref)
      <4>1. PICK i \in 1..3 : \E j \in DOMAIN lib.list[order[i]] :
                  IsFirst(order, i, j) /\ Becomes(Plucked(t, lib.list[order[i]][j]), ref)
        BY <3>1
      <4>2. order[i] \in Lists
        BY DEF Lists
      <4> HIDE DEF order
      <4>3. PICK j \in DOMAIN lib.list[order[i]] :
                  IsFirst(order, i, j) /\ Becomes(Plucked(t, lib.list[order[i]][j]), ref)
        BY <4>1
      <4>4. lib.desc[lib.list[order[i]][j]].lock = NoThread
        BY <4>3 DEF IsFirst
      <4>5. lib.pc[t] = "pluck" /\ lib.lock = NoThread
        BY <2>4 DEF PluckDesc
      <4> QED BY <4>2, <4>3, <4>4, <4>5, PluckStep
    <3>2. CASE Becomes([Go(lib, t, "check") EXCEPT !.force[t] = TRUE], ref)
      <4>1. lib.pc[t] = "pluck"
        BY <2>4 DEF PluckDesc
      <4> QED BY <3>2, <4>1, EarlyStep
    <3> QED BY <2>4, <3>1, <3>2 DEF PluckDesc
  <2>5. CASE TakeObject(t)
    BY <2>5, TakeStep
  <2>6. CASE \E o \in ref : StorageFree(t, o)
    BY <2>6, GiveStep
  <2>7. CASE FreeObject(t)
    <3> DEFINE f == lib.object[t][1]
               d == [lib.desc[f] EXCEPT !.free = @ + 1]
    <3>1. lib.pc[t] = "free" /\ lib.lock = NoThread /\ lib.desc[f].lock = NoThread
      BY <2>7 DEF FreeObject
    <3>2. CASE Emptied(f, d) /\ Becomes(FreeFolio(t, f, d), ref)
      BY <3>1, <3>2, FreeFolioStep
    <3>3. CASE Becomes(KeepFolio(t, f, d), ref)
      BY <3>1, <3>3, KeepStep
    <3> QED BY <2>7, <3>2, <3>3 DEF FreeObject
  <2>8. CASE ClearObject(t)
    BY <2>8, ClearStep
  <2> QED BY <2>1, <2>2, <2>3, <2>4, <2>5, <2>6, <2>7, <2>8
<1>2. CASE UNCHANGED vars
  BY <1>2 DEF vars, StorageInv, StorageTypeOK
<1> QED BY <1>1, <1>2

LEMMA StorageInvAgrees == StorageInv => StorageAgrees
<1> SUFFICES ASSUME StorageInv PROVE StorageAgrees
  OBVIOUS
<1> DEFINE D == lib.desc
<1>0. lib \in StorageLib /\ ref \in SUBSET (Folios \X Objects)
      /\ StorageOK(D, lib.list, lib.lock, lib.pc, lib.object, ref)
      /\ Parts(D, lib.list, lib.lock, lib.pc, lib.object, ref)
  BY StorageParts DEF StorageInv, StorageTypeOK
<1>1. \A o \in ref : o[1] \in DOMAIN D /\ o[2] \in D[o[1]].alloced
  BY <1>0 DEF StorageOK, OwnersOK, InUse
<1>2. \A f \in DOMAIN D : \A i \in D[f].alloced : <<f, i>> \in ref \cup Internal
  <2>1. ASSUME NEW f \in DOMAIN D, NEW i \in D[f].alloced PROVE <<f, i>> \in ref \cup Internal
    <3>1. HasOwner(D, lib.pc, lib.object, ref, <<f, i>>)
      BY <1>0 DEF StorageOK, OwnersOK
    <3> QED BY <3>1 DEF HasOwner, Internal, Frees
  <2> QED BY <2>1
<1>3. ASSUME NEW f \in DOMAIN D, D[f].lock = NoThread
      PROVE  /\ D[f].free = Cardinality(Objects \ D[f].alloced)
             /\ D[f].free > 0 <=> f \in Listed(lib)
  <2>1. CountOK(D, lib.pc, f) /\ f \in Folios
    BY <1>0, LockFacts DEF StorageOK
  <2>2. D[f].free > 0 <=> \E l \in Lists : On(lib.list, l, f)
    BY <1>0, <2>1 DEF StorageOK, StorageListsOK
  <2>3. f \in Listed(lib) <=> \E l \in Lists : On(lib.list, l, f)
    BY DEF Listed, On, Range
  <2> QED BY <1>3, <2>1, <2>2, <2>3 DEF CountOK
<1>4. \A l, m \in Lists :
         IsInjective(lib.list[l]) /\ (l # m => Range(lib.list[l]) \cap Range(lib.list[m]) = {})
  <2>1. Simple(lib.list) /\ lib.list \in ListMaps
    BY <1>0 DEF StorageOK, StorageListsOK, Parts
  <2>2. \A l \in Lists : IsInjective(lib.list[l])
    BY <2>1 DEF Simple, IsInjective
  <2>3. ASSUME NEW l \in Lists, NEW m \in Lists, NEW f \in Range(lib.list[l]) \cap Range(lib.list[m])
        PROVE  l = m
    <3>1. f \in Folios
      BY <2>1 DEF ListMaps, Range
    <3>2. On(lib.list, l, f) /\ On(lib.list, m, f)
      BY DEF On, Range
    <3> QED BY <2>1, <3>1, <3>2 DEF Simple
  <2> QED BY <2>2, <2>3
<1>5. ASSUME NEW t \in StorageThreads, lib.pc[t] = "take"
      PROVE  LET d == D[lib.object[t][1]]
             IN  d.alloced # Objects /\ (d.free = 1 => lib.lock = t)
  <2> DEFINE f == lib.object[t][1]
  <2>1. f \in DOMAIN D /\ D[f].lock = t /\ t # NoThread /\ D[f].free > 0
          /\ (D[f].free = 1 => lib.lock = t)
    BY <1>0, <1>5, LockFacts
  <2>2. D[f].free = Cardinality(Objects \ D[f].alloced)
    <3>1. CountOK(D, lib.pc, f)
      BY <1>0, <2>1 DEF StorageOK
    <3> QED BY <1>5, <2>1, <3>1 DEF CountOK
  <2>3. D[f].alloced # Objects
    <3>1. Cardinality({}) = 0
      BY FS_EmptySet
    <3> HIDE DEF f, D
    <3>2. D[f].alloced = Objects => Objects \ D[f].alloced = {}
      OBVIOUS
    <3> QED BY <2>1, <2>2, <3>1, <3>2
  <2> QED BY <2>1, <2>3
<1> QED BY <1>1, <1>2, <1>3, <1>4, <1>5 DEF StorageAgrees

(***************************************************************************)
(* However many threads allocate and free: an object in use has one owner, *)
(* a client, a shadow or a thread that frees it; descriptors and lists     *)
(* agree, and storage_alloc finds an object in the descriptor it plucked.  *)
(***************************************************************************)
THEOREM StorageHolds == StorageSpec => []StorageAgrees
<1>1. StorageInv /\ [StorageNext]_vars => StorageInv'
  BY StorageStep
<1> QED BY <1>1, StorageInitInv, StorageInvAgrees, PTL DEF StorageSpec

-----------------------------------------------------------------------------
(***************************************************************************)
(* Slabs.                                                                  *)
(***************************************************************************)
\* The loop of Unlisted, and what it computes: the first n elements are done.
Keeping(g, list, out, n) ==
    g = [m \in 0..n |-> IF m = 0 THEN <<>>
                        ELSE IF list[m] \in out THEN g[m - 1] ELSE Append(g[m - 1], list[m])]

LEMMA KeepingMore ==
  ASSUME NEW list, NEW out, NEW n \in Nat, NEW g, Keeping(g, list, out, n)
  PROVE  \E h : Keeping(h, list, out, n + 1)
<1> DEFINE e == IF list[n + 1] \in out THEN g[n] ELSE Append(g[n], list[n + 1])
           h == [m \in 0..(n + 1) |-> IF m = n + 1 THEN e ELSE g[m]]
           k == [m \in 0..(n + 1) |-> IF m = 0 THEN <<>>
                        ELSE IF list[m] \in out THEN h[m - 1] ELSE Append(h[m - 1], list[m])]
<1>1. ASSUME NEW m \in 0..(n + 1) PROVE h[m] = k[m]
  <2>1. CASE m = n + 1
    <3>1. m # 0 /\ m - 1 = n /\ n \in 0..(n + 1) /\ n # n + 1
      BY <2>1
    <3>2. h[m - 1] = g[n] /\ h[m] = e
      <4> HIDE DEF e
      <4> QED BY <2>1, <3>1
    <3>3. k[m] = IF list[m] \in out THEN h[m - 1] ELSE Append(h[m - 1], list[m])
      <4> HIDE DEF h
      <4> QED BY <3>1
    <3> HIDE DEF h, k
    <3> QED BY <2>1, <3>2, <3>3
  <2>2. CASE m # n + 1
    <3>1. m \in 0..n /\ h[m] = g[m]
      BY <2>2
    <3>2. g[m] = IF m = 0 THEN <<>>
                 ELSE IF list[m] \in out THEN g[m - 1] ELSE Append(g[m - 1], list[m])
      BY <3>1 DEF Keeping
    <3>3. m # 0 => h[m - 1] = g[m - 1]
      <4>1. m # 0 => m - 1 \in 0..(n + 1) /\ m - 1 # n + 1
        BY <3>1
      <4> HIDE DEF e
      <4> QED BY <4>1
    <3>4. k[m] = IF m = 0 THEN <<>>
                 ELSE IF list[m] \in out THEN h[m - 1] ELSE Append(h[m - 1], list[m])
      <4> HIDE DEF h
      <4> QED OBVIOUS
    <3> HIDE DEF h, k
    <3> QED BY <3>1, <3>2, <3>3, <3>4
  <2> QED BY <2>1, <2>2
<1>2. h = k
  <2>1. DOMAIN h = 0..(n + 1) /\ DOMAIN k = 0..(n + 1) /\ h = [m \in DOMAIN h |-> h[m]]
          /\ k = [m \in DOMAIN k |-> k[m]]
    OBVIOUS
  <2> HIDE DEF h, k
  <2> QED BY <1>1, <2>1
<1>3. Keeping(h, list, out, n + 1)
  <2> HIDE DEF h
  <2> QED BY <1>2 DEF Keeping, k
<1> QED BY <1>3

LEMMA KeepingExists ==
  ASSUME NEW list, NEW out, NEW n \in Nat
  PROVE  \E g : Keeping(g, list, out, n)
<1> DEFINE Bad == {m \in Nat : ~ \E g : Keeping(g, list, out, m)}
<1>1. SUFFICES ASSUME Bad # {} PROVE FALSE
  OBVIOUS
<1>2. PICK x \in Bad : \A y \in Bad : ~(<<y, x>> \in OpToRel(<, Nat))
  BY <1>1, NatLessThanWellFounded, WFMin, Zenon
<1>3. CASE x = 0
  <2>1. Keeping([m \in 0..0 |-> <<>>], list, out, 0)
    <3>1. \A m \in 0..0 : m = 0
      OBVIOUS
    <3> QED BY <3>1 DEF Keeping
  <2> QED BY <1>3, <2>1
<1>4. CASE x # 0
  <2>1. x - 1 \in Nat /\ x - 1 < x /\ (x - 1) + 1 = x
    BY <1>4
  <2>2. x - 1 \notin Bad
    <3>1. <<x - 1, x>> \in OpToRel(<, Nat)
      BY <2>1 DEF OpToRel
    <3> QED BY <1>2, <3>1
  <2>3. PICK g : Keeping(g, list, out, x - 1)
    BY <2>1, <2>2
  <2>4. \E h : Keeping(h, list, out, x)
    BY <2>1, <2>3, KeepingMore
  <2> QED BY <2>4
<1> QED BY <1>3, <1>4

LEMMA UnlistedIs ==
  ASSUME NEW S, NEW list \in Seq(S), NEW out
  PROVE  \E g : Keeping(g, list, out, Len(list)) /\ Unlisted(list, out) = g[Len(list)]
<1> DEFINE g == CHOOSE g : g = [m \in 0..Len(list) |-> IF m = 0 THEN <<>>
                        ELSE IF list[m] \in out THEN g[m - 1] ELSE Append(g[m - 1], list[m])]
<1>1. Keeping(g, list, out, Len(list))
  <2>1. \E h : Keeping(h, list, out, Len(list))
    <3>1. Len(list) \in Nat
      OBVIOUS
    <3> QED BY <3>1, KeepingExists
  <2> QED BY <2>1 DEF Keeping
<1>2. Unlisted(list, out) = g[Len(list)]
  BY DEF Unlisted
<1> QED BY <1>1, <1>2

\* What stays of a list: the elements that are not out, each once.
LEMMA UnlistedKeeps ==
  ASSUME NEW S, NEW list \in Seq(S), IsInjective(list), NEW out
  PROVE  /\ Unlisted(list, out) \in Seq(S)
         /\ IsInjective(Unlisted(list, out))
         /\ Range(Unlisted(list, out)) = Range(list) \ out
<1>1. PICK g : Keeping(g, list, out, Len(list)) /\ Unlisted(list, out) = g[Len(list)]
  BY UnlistedIs
<1> DEFINE First(n) == {list[m] : m \in 1..n}
           Good(n) == g[n] \in Seq(S) /\ IsInjective(g[n]) /\ Range(g[n]) = First(n) \ out
           Bad == {m \in 0..Len(list) : ~ Good(m)}
<1>0. Len(list) \in Nat /\ DOMAIN list = 1..Len(list)
  OBVIOUS
<1>2. \A m \in 0..Len(list) : g[m] = IF m = 0 THEN <<>>
                 ELSE IF list[m] \in out THEN g[m - 1] ELSE Append(g[m - 1], list[m])
  BY <1>1 DEF Keeping
<1>3. Good(0)
  <2>1. g[0] = <<>> /\ 1..0 = {}
    BY <1>0, <1>2
  <2> QED BY <2>1 DEF IsInjective, Range
<1>4. ASSUME NEW n \in 1..Len(list), Good(n - 1) PROVE Good(n)
  <2>1. n \in 0..Len(list) /\ n # 0 /\ n - 1 \in Nat
    BY <1>0
  <2>2. 1..n = (1..(n - 1)) \cup {n}
    BY <2>1
  <2>3. First(n) = First(n - 1) \cup {list[n]}
    BY <2>2
  <2>4. CASE list[n] \in out
    <3>1. g[n] = g[n - 1]
      BY <1>2, <2>1, <2>4
    <3> HIDE DEF First
    <3> QED BY <1>4, <2>3, <2>4, <3>1
  <2>5. CASE list[n] \notin out
    <3>0. list[n] \in S
      OBVIOUS
    <3>1. g[n] = Append(g[n - 1], list[n]) /\ list[n] \in S
      BY <1>2, <2>1, <2>5, <3>0, Zenon
    <3>2. list[n] \notin First(n - 1)
      <4>1. \A m \in 1..(n - 1) : m \in DOMAIN list /\ n \in DOMAIN list /\ m # n
        BY <1>0, <2>1
      <4> QED BY <4>1 DEF IsInjective
    <3>3. list[n] \notin Range(g[n - 1])
      <4> HIDE DEF First
      <4> QED BY <1>4, <3>2
    <3> DEFINE q == g[n - 1]
    <3>4. q \in Seq(S) /\ IsInjective(q) /\ list[n] \notin Range(q)
      BY <1>4, <3>3
    <3> HIDE DEF q
    <3>5. Append(q, list[n]) \in Seq(S) /\ Len(Append(q, list[n])) = Len(q) + 1 /\ Len(q) \in Nat
          /\ DOMAIN q = 1..Len(q) /\ DOMAIN Append(q, list[n]) = 1..(Len(q) + 1)
      BY <3>1, <3>4
    <3>6. /\ \A m \in DOMAIN q : Append(q, list[n])[m] = q[m]
          /\ Append(q, list[n])[Len(q) + 1] = list[n]
      BY <3>1, <3>4
    <3>7. DOMAIN Append(q, list[n]) = DOMAIN q \cup {Len(q) + 1}
      BY <3>5
    <3>8. \A m \in DOMAIN q : q[m] # list[n]
      BY <3>4 DEF Range
    <3>9. IsInjective(Append(q, list[n]))
      BY <3>4, <3>6, <3>7, <3>8 DEF IsInjective
    <3>10. Range(Append(q, list[n])) = Range(q) \cup {list[n]}
      BY <3>6, <3>7 DEF Range
    <3>11. g[n] = Append(q, list[n]) /\ Range(q) = First(n - 1) \ out
      BY <1>4, <3>1 DEF q
    <3> HIDE DEF First
    <3> QED BY <2>3, <2>5, <3>5, <3>9, <3>10, <3>11
  <2> QED BY <2>4, <2>5
<1> HIDE DEF Good
<1>5. Bad = {}
  <2> SUFFICES ASSUME Bad # {} PROVE FALSE
    OBVIOUS
  <2>0. Bad \subseteq Nat
    BY <1>0
  <2>1. PICK x \in Bad : \A y \in Bad : ~(<<y, x>> \in OpToRel(<, Nat))
    BY <2>0, NatLessThanWellFounded, WFMin, Zenon
  <2>2. x # 0 /\ x \in 0..Len(list) /\ ~Good(x)
    BY <1>3, <2>1
  <2>3. x \in 1..Len(list) /\ x - 1 \in 0..Len(list) /\ x - 1 \in Nat /\ x \in Nat /\ x - 1 < x
    BY <1>0, <2>2
  <2>4. <<x - 1, x>> \in OpToRel(<, Nat)
    BY <2>3 DEF OpToRel
  <2>5. Good(x - 1)
    BY <2>1, <2>3, <2>4
  <2> QED BY <1>4, <2>2, <2>3, <2>5
<1>6. Good(Len(list))
  BY <1>0, <1>5
<1>7. First(Len(list)) = Range(list)
  BY <1>0 DEF Range
<1> QED BY <1>1, <1>6, <1>7 DEF Good
-----------------------------------------------------------------------------
(***************************************************************************)
(* Slabs.                                                                  *)
(***************************************************************************)
Buffers == 1..PerSlab
SlabDescs == [refcount : Nat, free : Seq(Buffers)]
UsedOf(R, p) == {i \in Buffers : <<p, i>> \in R}

\* A slab of which the buffers of used are in use.
SlabOK(d, used) ==
    /\ d \in SlabDescs
    /\ d.refcount = Cardinality(used)
    /\ Range(d.free) = Buffers \ used
    /\ IsInjective(d.free)

ListedSlabs(list, slab, R) ==
    /\ list \in Seq(SlabPages) /\ IsInjective(list)
    /\ slab \in [Range(list) -> SlabDescs]
    /\ R \in SUBSET (Range(list) \X Buffers)
    /\ \A p \in Range(list) : SlabOK(slab[p], UsedOf(R, p))

\* first_free is a slab that is not full.
FirstFreeOK(list, slab, first) ==
    IF first = NoSlab THEN \A p \in Range(list) : slab[p].refcount = PerSlab
    ELSE first \in Range(list) /\ slab[first].refcount # PerSlab

SlabLib ==
    [kind : {SlabKind}, list : Seq(SlabPages), slab : {lib.slab},
     first_free : SlabPages \cup {NoSlab}, leaked : SUBSET SlabPages, destroyed : BOOLEAN]

SlabInv ==
    /\ lib \in SlabLib
    /\ ListedSlabs(lib.list, lib.slab, ref)
    /\ FirstFreeOK(lib.list, lib.slab, lib.first_free)
    /\ lib.destroyed => ref = {}

LEMMA PerSlabFacts == PerSlab \in Nat /\ PerSlab > 0 /\ NoSlab \notin SlabPages
BY PerSlabAssumption

LEMMA BufferCount ==
  ASSUME NEW U \in SUBSET Buffers
  PROVE  /\ IsFiniteSet(U) /\ Cardinality(U) \in Nat
         /\ Cardinality(U) = 0 <=> U = {}
         /\ Cardinality(U) = PerSlab <=> U = Buffers
<1>1. IsFiniteSet(Buffers) /\ Cardinality(Buffers) = PerSlab
  BY PerSlabFacts, FS_Interval DEF Buffers
<1>2. IsFiniteSet(U) /\ Cardinality(U) \in Nat
  BY <1>1, FS_Subset, FS_CardinalityType
<1>3. Cardinality(U) = 0 <=> U = {}
  BY <1>2, FS_EmptySet
<1>4. Cardinality(U) = PerSlab => U = Buffers
  BY <1>1, FS_Subset
<1> QED BY <1>1, <1>2, <1>3, <1>4

LEMMA BufferTaken ==
  ASSUME NEW U \in SUBSET Buffers, NEW x \in Buffers \ U
  PROVE  Cardinality(U \cup {x}) = Cardinality(U) + 1
BY BufferCount, FS_AddElement

LEMMA BufferGiven ==
  ASSUME NEW U \in SUBSET Buffers, NEW x \in U
  PROVE  Cardinality(U \ {x}) = Cardinality(U) - 1
BY BufferCount, FS_RemoveElement

\* The free list of a slab as a stack.
LEMMA StackPopped ==
  ASSUME NEW s \in Seq(Buffers), s # <<>>, IsInjective(s)
  PROVE  /\ Head(s) \in Range(s) /\ Tail(s) \in Seq(Buffers)
         /\ Range(Tail(s)) = Range(s) \ {Head(s)} /\ IsInjective(Tail(s))
<1> DEFINE n == Len(s)
           r == Tail(s)
<1>1. n \in Nat /\ n > 0 /\ DOMAIN s = 1..n /\ Head(s) = s[1]
  OBVIOUS
<1>2. r \in Seq(Buffers) /\ DOMAIN r = 1..(n - 1) /\ \A i \in 1..(n - 1) : r[i] = s[i + 1]
  OBVIOUS
<1> HIDE DEF n, r
<1>3. 1 \in DOMAIN s /\ \A i \in 1..(n - 1) : i + 1 \in DOMAIN s /\ i + 1 # 1
  BY <1>1
<1>4. \A j \in DOMAIN s : j = 1 \/ (j - 1 \in 1..(n - 1) /\ (j - 1) + 1 = j)
  BY <1>1
<1>5. Range(r) \subseteq Range(s) \ {s[1]}
  BY <1>2, <1>3 DEF Range, IsInjective
<1>6. Range(s) \ {s[1]} \subseteq Range(r)
  <2> SUFFICES ASSUME NEW j \in DOMAIN s, s[j] # s[1] PROVE s[j] \in Range(r)
    BY DEF Range
  <2>1. j - 1 \in 1..(n - 1) /\ (j - 1) + 1 = j
    BY <1>4
  <2>2. r[j - 1] = s[j]
    BY <1>2, <2>1
  <2> QED BY <1>2, <2>1, <2>2 DEF Range
<1>7. IsInjective(r)
  <2> SUFFICES ASSUME NEW i \in 1..(n - 1), NEW j \in 1..(n - 1), r[i] = r[j] PROVE i = j
    BY <1>2 DEF IsInjective
  <2>1. s[i + 1] = s[j + 1]
    BY <1>2
  <2>2. i + 1 = j + 1
    BY <1>3, <2>1 DEF IsInjective
  <2> QED BY <2>2, <1>1
<1>8. s[1] \in Range(s)
  BY <1>3 DEF Range
<1> QED BY <1>1, <1>2, <1>5, <1>6, <1>7, <1>8 DEF r

LEMMA StackPushed ==
  ASSUME NEW s \in Seq(Buffers), IsInjective(s), NEW x \in Buffers \ Range(s)
  PROVE  /\ <<x>> \o s \in Seq(Buffers) /\ Range(<<x>> \o s) = Range(s) \cup {x}
         /\ IsInjective(<<x>> \o s)
<1> DEFINE n == Len(s)
           r == <<x>> \o s
<1>1. n \in Nat /\ DOMAIN s = 1..n
  OBVIOUS
<1>2. r \in Seq(Buffers) /\ DOMAIN r = 1..(n + 1) /\ r[1] = x
  OBVIOUS
<1>3. \A i \in 1..n : r[i + 1] = s[i]
  OBVIOUS
<1> HIDE DEF n, r
<1>4. \A j \in 1..(n + 1) : j = 1 \/ (j - 1 \in 1..n /\ (j - 1) + 1 = j)
  BY <1>1
<1>5. \A j \in 1..(n + 1) : j = 1 \/ (j - 1 \in 1..n /\ r[j] = s[j - 1])
  BY <1>3, <1>4
<1>6. \A i \in 1..n : i + 1 \in 1..(n + 1)
  BY <1>1
<1>7. 1 \in 1..(n + 1)
  BY <1>1
<1>8. Range(r) \subseteq Range(s) \cup {x}
  BY <1>1, <1>2, <1>5 DEF Range
<1>9. Range(s) \cup {x} \subseteq Range(r)
  BY <1>1, <1>2, <1>3, <1>6, <1>7 DEF Range
<1>10. \A i \in 1..n : s[i] # x
  BY <1>1 DEF Range
<1>11. IsInjective(r)
  <2> SUFFICES ASSUME NEW i \in 1..(n + 1), NEW j \in 1..(n + 1), r[i] = r[j] PROVE i = j
    BY <1>2 DEF IsInjective
  <2>1. CASE i = 1 \/ j = 1
    BY <2>1, <1>2, <1>5, <1>10
  <2>2. CASE i # 1 /\ j # 1
    <3>1. i - 1 \in 1..n /\ j - 1 \in 1..n /\ s[i - 1] = s[j - 1]
      BY <2>2, <1>5
    <3>2. i - 1 = j - 1
      BY <3>1, <1>1 DEF IsInjective
    <3> QED BY <3>2, <1>1
  <2> QED BY <2>1, <2>2
<1> QED BY <1>2, <1>8, <1>9, <1>11 DEF r

LEMMA SlabNew == SlabOK(NewSlab, {})
<1> DEFINE f == [i \in 1..PerSlab |-> PerSlab + 1 - i]
<1>1. PerSlab \in Nat
  BY PerSlabFacts
<1>2. \A i \in 1..PerSlab : f[i] \in 1..PerSlab /\ f[PerSlab + 1 - i] = i
  BY <1>1
<1>3. f \in Seq(Buffers) /\ DOMAIN f = 1..PerSlab
  <2>1. f \in [1..PerSlab -> Buffers]
    BY <1>1 DEF Buffers
  <2> QED BY <1>1, <2>1
<1>4. \A i, j \in 1..PerSlab : f[i] = f[j] => i = j
  BY <1>1
<1>5. \A i \in 1..PerSlab : PerSlab + 1 - i \in 1..PerSlab
  BY <1>1
<1> HIDE DEF f
<1>6. Range(f) = Buffers
  BY <1>2, <1>3, <1>5 DEF Range, Buffers
<1>7. NewSlab = [refcount |-> 0, free |-> f]
  BY DEF NewSlab, f
<1>8. Cardinality({}) = 0
  BY FS_EmptySet
<1> QED BY <1>3, <1>4, <1>6, <1>7, <1>8 DEF SlabOK, SlabDescs, IsInjective

LEMMA ListedFacts ==
  ASSUME NEW list, NEW slab, NEW R, ListedSlabs(list, slab, R)
  PROVE  /\ Len(list) \in Nat /\ DOMAIN list = 1..Len(list) /\ Range(list) \subseteq SlabPages
         /\ \A p : UsedOf(R, p) \subseteq Buffers
         /\ \A i \in DOMAIN list : list[i] \in Range(list)
<1>1. list \in Seq(SlabPages)
  BY DEF ListedSlabs
<1>2. Len(list) \in Nat /\ DOMAIN list = 1..Len(list)
  BY <1>1
<1>3. \A i \in DOMAIN list : list[i] \in SlabPages
  BY <1>1
<1> QED BY <1>2, <1>3 DEF Range, UsedOf

\* A slab is replaced.
LEMMA SlabReplaced ==
  ASSUME NEW list, NEW slab, NEW R, ListedSlabs(list, slab, R), NEW p \in Range(list),
         NEW d, NEW Q \in SUBSET (Range(list) \X Buffers),
         SlabOK(d, UsedOf(Q, p)), \A q \in Range(list) : q # p => UsedOf(Q, q) = UsedOf(R, q)
  PROVE  ListedSlabs(list, [slab EXCEPT ![p] = d], Q)
<1> DEFINE s1 == [slab EXCEPT ![p] = d]
<1>0. slab \in [Range(list) -> SlabDescs] /\ d \in SlabDescs
  BY DEF ListedSlabs, SlabOK
<1>1. s1 \in [Range(list) -> SlabDescs] /\ s1[p] = d
        /\ \A q \in Range(list) : q # p => s1[q] = slab[q]
  BY <1>0
<1> HIDE DEF s1
<1>2. \A q \in Range(list) : SlabOK(s1[q], UsedOf(Q, q))
  BY <1>1 DEF ListedSlabs
<1> QED BY <1>1, <1>2 DEF ListedSlabs, s1

\* A slab that is not full has a free buffer, which is taken.
LEMMA SlabTaken ==
  ASSUME NEW list, NEW slab, NEW R, ListedSlabs(list, slab, R), NEW p \in Range(list),
         slab[p].refcount # PerSlab
  PROVE  /\ slab[p].free # <<>>
         /\ ListedSlabs(list, [slab EXCEPT ![p] = [refcount |-> @.refcount + 1, free |-> Tail(@.free)]],
                        R \cup {<<p, Head(slab[p].free)>>})
<1> DEFINE U == UsedOf(R, p)
           e == slab[p]
           x == Head(e.free)
           d == [refcount |-> e.refcount + 1, free |-> Tail(e.free)]
           Q == R \cup {<<p, x>>}
<1>1. U \in SUBSET Buffers /\ SlabOK(e, U) /\ R \in SUBSET (Range(list) \X Buffers)
  BY ListedFacts DEF ListedSlabs
<1>2. e.free \in Seq(Buffers) /\ e.refcount \in Nat /\ e.refcount = Cardinality(U)
        /\ Range(e.free) = Buffers \ U /\ IsInjective(e.free)
  BY <1>1 DEF SlabOK, SlabDescs
<1>3. U # Buffers
  BY <1>1, <1>2, BufferCount
<1>4. e.free # <<>>
  <2>1. Range(e.free) # {}
    BY <1>1, <1>2, <1>3
  <2>2. Range(<<>>) = {}
    BY DEF Range
  <2> QED BY <2>1, <2>2
<1>5. x \in Buffers \ U /\ Tail(e.free) \in Seq(Buffers) /\ Range(Tail(e.free)) = (Buffers \ U) \ {x}
        /\ IsInjective(Tail(e.free))
  BY <1>2, <1>4, StackPopped
<1>6. Cardinality(U \cup {x}) = Cardinality(U) + 1
  BY <1>1, <1>5, BufferTaken
<1>7. SlabOK(d, U \cup {x})
  <2>1. (Buffers \ U) \ {x} = Buffers \ (U \cup {x})
    OBVIOUS
  <2>2. d.refcount = e.refcount + 1 /\ d.free = Tail(e.free) /\ d \in SlabDescs
    <3>1. e.refcount + 1 \in Nat
      BY <1>2
    <3> QED BY <1>5, <3>1 DEF SlabDescs
  <2> HIDE DEF d, x, e, U
  <2> QED BY <1>2, <1>5, <1>6, <2>1, <2>2 DEF SlabOK
<1>8. UsedOf(Q, p) = U \cup {x} /\ \A q \in Range(list) : q # p => UsedOf(Q, q) = UsedOf(R, q)
  <2> HIDE DEF x
  <2> QED BY <1>5 DEF UsedOf
<1>9. Q \in SUBSET (Range(list) \X Buffers)
  <2> HIDE DEF x
  <2> QED BY <1>1, <1>5
<1>10. [slab EXCEPT ![p] = [refcount |-> @.refcount + 1, free |-> Tail(@.free)]] = [slab EXCEPT ![p] = d]
  OBVIOUS
<1>11. ListedSlabs(list, [slab EXCEPT ![p] = d], Q)
  <2> HIDE DEF d, Q
  <2> QED BY <1>7, <1>8, <1>9, SlabReplaced
<1> QED BY <1>4, <1>10, <1>11

\* A buffer is given back.
LEMMA SlabGiven ==
  ASSUME NEW list, NEW slab, NEW R, ListedSlabs(list, slab, R), NEW b \in R
  PROVE  /\ b[1] \in Range(list) /\ slab[b[1]].refcount - 1 # PerSlab
         /\ slab[b[1]].refcount - 1 \in Nat
         /\ ListedSlabs(list, [slab EXCEPT ![b[1]] =
                                  [refcount |-> @.refcount - 1, free |-> <<b[2]>> \o @.free]],
                        R \ {b})
<1>0. R \in SUBSET (Range(list) \X Buffers)
  BY DEF ListedSlabs
<1>1. b[1] \in Range(list) /\ b[2] \in Buffers /\ b = <<b[1], b[2]>>
  BY <1>0
<1> DEFINE p == b[1]
           x == b[2]
           U == UsedOf(R, p)
           e == slab[p]
           d == [refcount |-> e.refcount - 1, free |-> <<x>> \o e.free]
           Q == R \ {b}
<1>2. U \in SUBSET Buffers /\ SlabOK(e, U) /\ x \in U
  BY <1>1, ListedFacts DEF ListedSlabs, UsedOf
<1>3. e.free \in Seq(Buffers) /\ e.refcount \in Nat /\ e.refcount = Cardinality(U)
        /\ Range(e.free) = Buffers \ U /\ IsInjective(e.free)
  BY <1>2 DEF SlabOK, SlabDescs
<1>4. U # {} /\ e.refcount # 0
  BY <1>2, <1>3, BufferCount
<1>5. Cardinality(U \ {x}) = Cardinality(U) - 1
  BY <1>2, BufferGiven
<1>6. x \in Buffers \ Range(e.free)
  BY <1>2, <1>3
<1>7. <<x>> \o e.free \in Seq(Buffers) /\ Range(<<x>> \o e.free) = (Buffers \ U) \cup {x}
        /\ IsInjective(<<x>> \o e.free)
  BY <1>3, <1>6, StackPushed
<1>8. e.refcount - 1 \in Nat /\ e.refcount - 1 # PerSlab
  <2>1. U \ {x} \in SUBSET Buffers /\ U \ {x} # Buffers
    BY <1>2
  <2>2. Cardinality(U \ {x}) # PerSlab
    BY <2>1, BufferCount
  <2> QED BY <1>3, <1>4, <1>5, <2>2
<1>9. SlabOK(d, U \ {x})
  <2>1. (Buffers \ U) \cup {x} = Buffers \ (U \ {x})
    BY <1>2
  <2>2. d.refcount = e.refcount - 1 /\ d.free = <<x>> \o e.free /\ d \in SlabDescs
    BY <1>7, <1>8 DEF SlabDescs
  <2> HIDE DEF d, x, e, U
  <2> QED BY <1>3, <1>5, <1>7, <2>1, <2>2 DEF SlabOK
<1>10. UsedOf(Q, p) = U \ {x} /\ \A q \in Range(list) : q # p => UsedOf(Q, q) = UsedOf(R, q)
  <2>1. \A q, i : <<q, i>> = b <=> q = p /\ i = x
    BY <1>1
  <2> HIDE DEF x, p
  <2> QED BY <2>1 DEF UsedOf, U, Q
<1>11. Q \in SUBSET (Range(list) \X Buffers)
  BY <1>0
<1>12. ListedSlabs(list, [slab EXCEPT ![p] = d], Q)
  <2> HIDE DEF d, Q, p
  <2> QED BY <1>1, <1>9, <1>10, <1>11, SlabReplaced DEF p
<1> QED BY <1>1, <1>8, <1>12

\* A new slab is at the end of the list.
LEMMA SlabGrown ==
  ASSUME NEW list, NEW slab, NEW R, ListedSlabs(list, slab, R), NEW p \in SlabPages \ Range(list)
  PROVE  LET slab1 == [q \in DOMAIN slab \cup {p} |-> IF q = p THEN NewSlab ELSE slab[q]]
         IN  /\ ListedSlabs(Append(list, p), slab1, R)
             /\ p \in Range(Append(list, p)) /\ slab1[p].refcount # PerSlab
<1> DEFINE s1 == [q \in DOMAIN slab \cup {p} |-> IF q = p THEN NewSlab ELSE slab[q]]
           l == Append(list, p)
           n == Len(list)
<1>0. list \in Seq(SlabPages) /\ IsInjective(list) /\ slab \in [Range(list) -> SlabDescs]
        /\ R \in SUBSET (Range(list) \X Buffers) /\ DOMAIN slab = Range(list)
        /\ \A q \in Range(list) : SlabOK(slab[q], UsedOf(R, q))
  BY DEF ListedSlabs
<1>1. n \in Nat /\ DOMAIN list = 1..n
  BY ListedFacts
<1>2. l \in Seq(SlabPages) /\ DOMAIN l = 1..(n + 1) /\ l[n + 1] = p /\ \A i \in 1..n : l[i] = list[i]
  BY <1>0
<1>3. 1..(n + 1) = (1..n) \cup {n + 1}
  BY <1>1
<1> HIDE DEF n, l
<1>4. Range(l) = Range(list) \cup {p}
  BY <1>1, <1>2, <1>3 DEF Range
<1>5. \A i \in 1..n : list[i] # p
  BY <1>1 DEF Range
<1>6. IsInjective(l)
  BY <1>0, <1>1, <1>2, <1>3, <1>5 DEF IsInjective
<1>7. NewSlab \in SlabDescs /\ SlabOK(NewSlab, {}) /\ NewSlab.refcount = 0
  BY SlabNew DEF SlabOK, NewSlab
<1>8. s1 \in [Range(l) -> SlabDescs] /\ s1[p] = NewSlab /\ \A q \in Range(list) : s1[q] = slab[q]
  BY <1>0, <1>4, <1>7
<1>9. UsedOf(R, p) = {}
  BY <1>0 DEF UsedOf
<1> HIDE DEF s1
<1>10. \A q \in Range(l) : SlabOK(s1[q], UsedOf(R, q))
  BY <1>0, <1>4, <1>7, <1>8, <1>9
<1>11. ListedSlabs(l, s1, R)
  BY <1>0, <1>2, <1>4, <1>6, <1>8, <1>10 DEF ListedSlabs
<1>12. p \in Range(l) /\ s1[p].refcount # PerSlab
  BY <1>4, <1>7, <1>8, PerSlabFacts
<1> QED BY <1>11, <1>12 DEF l, s1

\* The slabs without a buffer in use go.
LEMMA SlabsReaped ==
  ASSUME NEW list, NEW slab, NEW R, ListedSlabs(list, slab, R),
         NEW gone \in SUBSET Range(list), \A p \in gone : slab[p].refcount = 0
  PROVE  ListedSlabs(Unlisted(list, gone), [p \in DOMAIN slab \ gone |-> slab[p]], R)
<1> DEFINE s1 == [p \in DOMAIN slab \ gone |-> slab[p]]
           l == Unlisted(list, gone)
<1>0. list \in Seq(SlabPages) /\ IsInjective(list) /\ slab \in [Range(list) -> SlabDescs]
        /\ R \in SUBSET (Range(list) \X Buffers) /\ DOMAIN slab = Range(list)
        /\ \A q \in Range(list) : SlabOK(slab[q], UsedOf(R, q))
  BY DEF ListedSlabs
<1>1. l \in Seq(SlabPages) /\ IsInjective(l) /\ Range(l) = Range(list) \ gone
  BY <1>0, UnlistedKeeps
<1> HIDE DEF l
<1>2. ASSUME NEW p \in gone PROVE UsedOf(R, p) = {}
  <2>1. Cardinality(UsedOf(R, p)) = 0 /\ UsedOf(R, p) \in SUBSET Buffers
    BY <1>0, ListedFacts DEF SlabOK
  <2> QED BY <2>1, BufferCount
<1>3. R \in SUBSET (Range(l) \X Buffers)
  <2> SUFFICES ASSUME NEW b \in R PROVE b \in Range(l) \X Buffers
    OBVIOUS
  <2>1. b \in Range(list) \X Buffers
    BY <1>0
  <2>2. PICK p \in Range(list), i \in Buffers : b = <<p, i>>
    BY <2>1
  <2>3. p \notin gone
    BY <1>2, <2>2 DEF UsedOf
  <2> QED BY <1>1, <2>2, <2>3
<1>4. s1 \in [Range(l) -> SlabDescs] /\ \A q \in Range(l) : s1[q] = slab[q]
  BY <1>0, <1>1
<1> HIDE DEF s1
<1>5. \A q \in Range(l) : SlabOK(s1[q], UsedOf(R, q))
  BY <1>0, <1>1, <1>4
<1> QED BY <1>1, <1>3, <1>4, <1>5 DEF ListedSlabs, l, s1

LEMMA FirstIsFree ==
  ASSUME NEW S, NEW R, ListedSlabs(S.list, S.slab, R)
  PROVE  FirstFreeOK(S.list, S.slab, FirstNotFull(S)) /\ FirstNotFull(S) \in SlabPages \cup {NoSlab}
<1> DEFINE open == {i \in DOMAIN S.list : S.slab[S.list[i]].refcount # PerSlab}
           first == FirstNotFull(S)
<1>1. first = IF open = {} THEN NoSlab ELSE S.list[Min(open)]
  BY DEF FirstNotFull
<1>2. open \in SUBSET Nat /\ \A i \in open : i \in DOMAIN S.list
  BY ListedFacts
<1>3. Range(S.list) \subseteq SlabPages /\ NoSlab \notin SlabPages
  BY ListedFacts, PerSlabFacts
<1> HIDE DEF first
<1>4. CASE open = {}
  <2>1. \A p \in Range(S.list) : S.slab[p].refcount = PerSlab
    BY <1>4 DEF Range
  <2> HIDE DEF open
  <2> QED BY <1>1, <1>4, <2>1 DEF FirstFreeOK, first
<1>5. CASE open # {}
  <2>1. Min(open) \in open
    BY <1>2, <1>5, Smallest
  <2>2. S.list[Min(open)] \in Range(S.list) /\ S.slab[S.list[Min(open)]].refcount # PerSlab
    BY <2>1 DEF Range
  <2> HIDE DEF open
  <2> QED BY <1>1, <1>3, <1>5, <2>2 DEF FirstFreeOK, first
<1> QED BY <1>4, <1>5

LEMMA TakeBufferInv ==
  ASSUME NEW S,
         S \in [kind : {SlabKind}, list : Seq(SlabPages), slab : {S.slab},
                first_free : SlabPages \cup {NoSlab}, leaked : SUBSET SlabPages, destroyed : {FALSE}],
         ListedSlabs(S.list, S.slab, ref), S.first_free \in Range(S.list),
         S.slab[S.first_free].refcount # PerSlab, TakeBuffer(S)
  PROVE  SlabInv'
<1> DEFINE f == S.first_free
           s1 == [S.slab EXCEPT ![f] = [refcount |-> @.refcount + 1, free |-> Tail(@.free)]]
           R == ref \cup {<<f, Head(S.slab[f].free)>>}
           T == [S EXCEPT !.slab[f] = [refcount |-> @.refcount + 1, free |-> Tail(@.free)]]
           U == [T EXCEPT !.first_free = NextFree(T)]
<1>1. T = [S EXCEPT !.slab = s1]
  OBVIOUS
<1>2. T.list = S.list /\ T.slab = s1 /\ T.first_free = f
  <2> HIDE DEF s1, T
  <2> QED BY <1>1
<1>3. ListedSlabs(T.list, T.slab, R)
  <2>1. ListedSlabs(S.list, s1, R)
    BY SlabTaken
  <2> HIDE DEF s1, R, T
  <2> QED BY <1>2, <2>1
<1>4. FirstFreeOK(T.list, T.slab, NextFree(T)) /\ NextFree(T) \in SlabPages \cup {NoSlab}
  <2>1. FirstFreeOK(T.list, T.slab, FirstNotFull(T)) /\ FirstNotFull(T) \in SlabPages \cup {NoSlab}
    <3> HIDE DEF T, R
    <3> QED BY <1>3, FirstIsFree
  <2>2. f \in SlabPages /\ f # NoSlab
    BY ListedFacts, PerSlabFacts
  <2> HIDE DEF T
  <2> QED BY <1>2, <2>1, <2>2 DEF NextFree, FirstFreeOK
<1>5. U = [S EXCEPT !.slab = s1, !.first_free = NextFree(T)]
  <2> HIDE DEF s1, T
  <2> QED BY <1>1 DEF U
<1>6. lib' = U /\ ref' = R
  BY DEF TakeBuffer, Becomes
<1> HIDE DEF T, s1, R, U
<1>7. lib'.list = S.list /\ lib'.slab = s1 /\ lib'.first_free = NextFree(T) /\ lib'.destroyed = FALSE
        /\ lib'.kind = SlabKind /\ lib'.leaked \in SUBSET SlabPages
  BY <1>5, <1>6
<1>8. lib' \in [kind : {SlabKind}, list : Seq(SlabPages), slab : {lib'.slab},
                first_free : SlabPages \cup {NoSlab}, leaked : SUBSET SlabPages, destroyed : BOOLEAN]
  BY <1>4, <1>5, <1>6, <1>7
<1> QED BY <1>2, <1>3, <1>4, <1>6, <1>7, <1>8 DEF SlabInv, SlabLib

LEMMA SlabFacts ==
  ASSUME SlabInv
  PROVE  /\ lib \in SlabLib /\ lib.kind = SlabKind /\ lib.list \in Seq(SlabPages)
         /\ lib.leaked \in SUBSET SlabPages /\ lib.first_free \in SlabPages \cup {NoSlab}
         /\ lib.destroyed \in BOOLEAN
         /\ ListedSlabs(lib.list, lib.slab, ref)
         /\ FirstFreeOK(lib.list, lib.slab, lib.first_free)
BY DEF SlabInv, SlabLib

LEMMA SlabAllocStep ==
  ASSUME SlabInv, ~lib.destroyed, SlabAlloc
  PROVE  SlabInv'
<1>1. CASE lib.first_free # NoSlab /\ TakeBuffer(lib)
  <2>1. lib \in [kind : {SlabKind}, list : Seq(SlabPages), slab : {lib.slab},
                first_free : SlabPages \cup {NoSlab}, leaked : SUBSET SlabPages, destroyed : {FALSE}]
    BY SlabFacts DEF SlabLib
  <2> QED BY <1>1, <2>1, SlabFacts, TakeBufferInv DEF FirstFreeOK
<1>2. ASSUME NEW p \in SlabPages \ Pages(lib), TakeBuffer(grow(lib, p)) PROVE SlabInv'
  <2> DEFINE G == grow(lib, p)
             l == Append(lib.list, p)
             s1 == [q \in DOMAIN lib.slab \cup {p} |-> IF q = p THEN NewSlab ELSE lib.slab[q]]
  <2>1. ListedSlabs(l, s1, ref) /\ p \in Range(l) /\ s1[p].refcount # PerSlab
    BY SlabFacts, SlabGrown DEF Pages
  <2>2. l \in Seq(SlabPages)
    BY SlabFacts
  <2>3. G = [lib EXCEPT !.list = l, !.first_free = p, !.slab = s1]
    BY DEF grow
  <2> HIDE DEF G, l, s1
  <2>4. G.list = l /\ G.first_free = p /\ G.slab = s1
    BY <2>3, SlabFacts DEF SlabLib
  <2>5. G \in [kind : {SlabKind}, list : Seq(SlabPages), slab : {G.slab},
                first_free : SlabPages \cup {NoSlab}, leaked : SUBSET SlabPages, destroyed : {FALSE}]
    BY <2>2, <2>3, <2>4, SlabFacts DEF SlabLib
  <2>6. TakeBuffer(G)
    BY <1>2 DEF G
  <2> QED BY <2>1, <2>4, <2>5, <2>6, TakeBufferInv
<1> QED BY <1>1, <1>2 DEF SlabAlloc

LEMMA SlabFailsStep ==
  ASSUME SlabInv, SlabConstructorFails
  PROVE  SlabInv'
<1>1. PICK p \in SlabPages : lib' = [lib EXCEPT !.leaked = @ \cup {p}] /\ ref' = ref
  BY DEF SlabConstructorFails, Becomes
<1>2. lib'.list = lib.list /\ lib'.slab = lib.slab /\ lib'.first_free = lib.first_free
        /\ lib'.destroyed = lib.destroyed
  BY <1>1, SlabFacts DEF SlabLib
<1>3. lib' \in [kind : {SlabKind}, list : Seq(SlabPages), slab : {lib'.slab},
                first_free : SlabPages \cup {NoSlab}, leaked : SUBSET SlabPages, destroyed : BOOLEAN]
  BY <1>1, <1>2, SlabFacts DEF SlabLib
<1> QED BY <1>1, <1>2, <1>3 DEF SlabInv, SlabLib

LEMMA SlabDeallocStep ==
  ASSUME SlabInv, ~lib.destroyed, NEW b \in ref, SlabDealloc(b)
  PROVE  SlabInv'
<1> DEFINE p == b[1]
           s1 == [lib.slab EXCEPT ![p] = [refcount |-> @.refcount - 1, free |-> <<b[2]>> \o @.free]]
           S == [lib EXCEPT !.slab[p] = [refcount |-> @.refcount - 1, free |-> <<b[2]>> \o @.free]]
           less == S.first_free = NoSlab \/ S.slab[p].refcount < S.slab[S.first_free].refcount
           first == IF less THEN p ELSE S.first_free
<1>1. p \in Range(lib.list) /\ lib.slab[p].refcount - 1 # PerSlab
        /\ ListedSlabs(lib.list, s1, ref \ {b})
  BY SlabFacts, SlabGiven
<1>2. S = [lib EXCEPT !.slab = s1]
  OBVIOUS
<1>3. S.list = lib.list /\ S.slab = s1 /\ S.first_free = lib.first_free
  <2> HIDE DEF s1, S
  <2> QED BY <1>2, SlabFacts DEF SlabLib
<1>4. s1[p].refcount # PerSlab /\ \A q \in Range(lib.list) : q # p => s1[q] = lib.slab[q]
  <2>1. DOMAIN lib.slab = Range(lib.list)
    BY SlabFacts DEF ListedSlabs
  <2> QED BY <1>1, <2>1
<1>5. p \in SlabPages /\ p # NoSlab
  BY <1>1, SlabFacts, ListedFacts, PerSlabFacts
<1>6. FirstFreeOK(lib.list, s1, first) /\ first \in SlabPages \cup {NoSlab}
  <2>1. CASE less
    <3>1. first = p
      BY <2>1
    <3> HIDE DEF less, first, s1
    <3> QED BY <1>1, <1>4, <1>5, <3>1 DEF FirstFreeOK
  <2>2. CASE ~less
    <3>1. first = lib.first_free /\ lib.first_free # NoSlab
      <4> HIDE DEF S
      <4> QED BY <2>2, <1>3 DEF less, first
    <3>2. lib.first_free \in Range(lib.list) /\ lib.slab[lib.first_free].refcount # PerSlab
            /\ lib.first_free \in SlabPages
      BY <3>1, SlabFacts DEF FirstFreeOK
    <3>3. s1[lib.first_free].refcount # PerSlab
      <4> HIDE DEF s1, p
      <4> QED BY <1>4, <3>2
    <3> HIDE DEF less, first, s1
    <3> QED BY <3>1, <3>2, <3>3 DEF FirstFreeOK
  <2> QED BY <2>1, <2>2
<1>7. lib' = [S EXCEPT !.first_free = first] /\ ref' = ref \ {b}
  BY DEF SlabDealloc, Becomes
<1> HIDE DEF first, S, s1
<1>8. lib' = [lib EXCEPT !.slab = s1, !.first_free = first]
  BY <1>2, <1>7
<1>9. lib'.list = lib.list /\ lib'.slab = s1 /\ lib'.first_free = first /\ lib'.destroyed = FALSE
  BY <1>8, SlabFacts DEF SlabLib
<1>10. lib' \in [kind : {SlabKind}, list : Seq(SlabPages), slab : {lib'.slab},
                first_free : SlabPages \cup {NoSlab}, leaked : SUBSET SlabPages, destroyed : BOOLEAN]
  BY <1>6, <1>8, <1>9, SlabFacts DEF SlabLib
<1> QED BY <1>1, <1>6, <1>7, <1>9, <1>10 DEF SlabInv, SlabLib

LEMMA SlabDestroyStep ==
  ASSUME SlabInv, ~lib.destroyed, NEW refused \in SUBSET SlabPages, SlabDestroy(refused)
  PROVE  SlabInv'
<1> DEFINE empty == {i \in DOMAIN lib.list : lib.slab[lib.list[i]].refcount = 0}
           stops == {i \in empty : lib.list[i] \in refused}
           gone == {lib.list[i] : i \in {j \in empty : \A k \in stops : j <= k}}
           l == Unlisted(lib.list, gone)
           s1 == [p \in DOMAIN lib.slab \ gone |-> lib.slab[p]]
           leak == lib.leaked \cup (gone \cap refused)
           T == [lib EXCEPT !.list = l, !.slab = s1, !.leaked = leak]
           W == [T EXCEPT !.first_free = FirstNotFull(T)]
           failed == W.leaked # lib.leaked
           destroyed == ~failed /\ W.list = <<>>
<1>1. gone \in SUBSET Range(lib.list) /\ \A p \in gone : lib.slab[p].refcount = 0
  BY SlabFacts, ListedFacts
<1>2. ListedSlabs(l, s1, ref)
  <2> HIDE DEF gone
  <2> QED BY <1>1, SlabFacts, SlabsReaped
<1>3. Reap(lib, refused) = W
  BY DEF Reap
<1>4. lib' = [W EXCEPT !.destroyed = destroyed] /\ ref' = ref
  BY <1>3 DEF SlabDestroy, Becomes
<1>5. leak \in SUBSET SlabPages
  BY SlabFacts
<1> HIDE DEF l, s1, leak, gone
<1>6. T.list = l /\ T.slab = s1 /\ T.leaked = leak /\ T.destroyed = FALSE /\ T.kind = SlabKind
  BY SlabFacts DEF SlabLib
<1>7. l \in Seq(SlabPages)
  BY <1>2 DEF ListedSlabs
<1>8. T \in [kind : {SlabKind}, list : Seq(SlabPages), slab : {s1},
             first_free : SlabPages \cup {NoSlab}, leaked : SUBSET SlabPages, destroyed : BOOLEAN]
  BY <1>5, <1>7, SlabFacts DEF SlabLib
<1> HIDE DEF T
<1>9. FirstFreeOK(l, s1, FirstNotFull(T)) /\ FirstNotFull(T) \in SlabPages \cup {NoSlab}
  BY <1>2, <1>6, FirstIsFree
<1>10. W.list = l
  BY <1>6, <1>8
<1>11. destroyed => l = <<>>
  BY <1>10
<1>12. destroyed \in BOOLEAN
  OBVIOUS
<1> HIDE DEF destroyed
<1>13. lib' = [T EXCEPT !.first_free = FirstNotFull(T), !.destroyed = destroyed]
  BY <1>4
<1>14. lib'.list = l /\ lib'.slab = s1 /\ lib'.first_free = FirstNotFull(T) /\ lib'.destroyed = destroyed
  BY <1>6, <1>8, <1>13
<1>15. lib' \in [kind : {SlabKind}, list : Seq(SlabPages), slab : {lib'.slab},
                first_free : SlabPages \cup {NoSlab}, leaked : SUBSET SlabPages, destroyed : BOOLEAN]
  BY <1>8, <1>9, <1>12, <1>13, <1>14
<1>16. destroyed => ref = {}
  <2> SUFFICES ASSUME destroyed PROVE ref = {}
    OBVIOUS
  <2>1. Range(l) = {}
    BY <1>11 DEF Range
  <2> QED BY <1>2, <2>1 DEF ListedSlabs
<1> QED BY <1>2, <1>4, <1>9, <1>14, <1>15, <1>16 DEF SlabInv, SlabLib

LEMMA SlabInitInv == SlabInit => SlabInv
<1> SUFFICES ASSUME SlabInit PROVE SlabInv
  OBVIOUS
<1>1. lib = [kind |-> SlabKind, list |-> <<>>, slab |-> <<>>, first_free |-> NoSlab,
             leaked |-> {}, destroyed |-> FALSE] /\ ref = {}
  BY DEF SlabInit
<1>2. Range(<<>>) = {} /\ IsInjective(<<>>) /\ <<>> \in Seq(SlabPages)
  BY DEF Range, IsInjective
<1>3. lib.slab \in [Range(lib.list) -> SlabDescs]
  BY <1>1, <1>2
<1>4. ListedSlabs(lib.list, lib.slab, ref)
  BY <1>1, <1>2, <1>3 DEF ListedSlabs
<1>5. FirstFreeOK(lib.list, lib.slab, lib.first_free)
  BY <1>1, <1>2 DEF FirstFreeOK
<1>6. lib \in SlabLib
  BY <1>1, <1>2 DEF SlabLib
<1> QED BY <1>1, <1>4, <1>5, <1>6 DEF SlabInv

LEMMA SlabStepInv == SlabInv /\ [SlabNext]_vars => SlabInv'
<1> SUFFICES ASSUME SlabInv, [SlabNext]_vars PROVE SlabInv'
  OBVIOUS
<1>1. CASE SlabNext
  <2>1. ~lib.destroyed
    BY <1>1 DEF SlabNext
  <2> QED BY <1>1, <2>1, SlabAllocStep, SlabFailsStep, SlabDeallocStep, SlabDestroyStep DEF SlabNext
<1>2. CASE UNCHANGED vars
  BY <1>2 DEF vars, SlabInv, SlabLib
<1> QED BY <1>1, <1>2

LEMMA SlabInvAgrees == SlabInv => SlabsAgree
<1> SUFFICES ASSUME SlabInv PROVE SlabsAgree
  OBVIOUS
<1>1. ListedSlabs(lib.list, lib.slab, ref) /\ FirstFreeOK(lib.list, lib.slab, lib.first_free)
  BY SlabFacts
<1>2. DOMAIN lib.slab = Range(lib.list) /\ IsInjective(lib.list) /\ \A b \in ref :
        b[1] \in Range(lib.list)
  BY <1>1 DEF ListedSlabs
<1>3. ASSUME NEW p \in Range(lib.list)
      PROVE  LET used == {i \in 1..PerSlab : <<p, i>> \in ref}
             IN  /\ lib.slab[p].refcount = Cardinality(used)
                 /\ Range(lib.slab[p].free) = (1..PerSlab) \ used
                 /\ IsInjective(lib.slab[p].free)
  BY <1>1 DEF ListedSlabs, SlabOK, UsedOf, Buffers
<1>4. lib.first_free = NoSlab => \A p \in Range(lib.list) : lib.slab[p].refcount = PerSlab
  BY <1>1 DEF FirstFreeOK
<1>5. lib.first_free # NoSlab => lib.first_free \in Range(lib.list)
        /\ lib.slab[lib.first_free].free # <<>>
  BY <1>1, SlabTaken DEF FirstFreeOK
<1>6. lib.destroyed => ref = {}
  BY DEF SlabInv
<1> QED BY <1>2, <1>3, <1>4, <1>5, <1>6 DEF SlabsAgree

\* For any pages and any number of buffers in a slab, no buffer is handed out
\* twice or forgotten, and first_free is a slab with a free buffer whenever
\* there is one, failing constructors and refused deallocations included.
THEOREM SlabsHold == SlabSpec => []SlabsAgree
<1>1. SlabSpec => []SlabInv
  BY SlabInitInv, SlabStepInv, PTL DEF SlabSpec
<1> QED BY <1>1, SlabInvAgrees, PTL

-----------------------------------------------------------------------------
(***************************************************************************)
(* Free addresses.                                                         *)
(***************************************************************************)
Regions == [start : Nat, end : Nat]
Inside(x, r) == r.start <= x /\ x <= r.end

\* The regions of free are disjoint and maximal and make up R.
SpaceOK(free, R) ==
    /\ free \in SUBSET Regions /\ R \in SUBSET Nat
    /\ \A r \in free : r.start <= r.end /\ r.end + 1 \notin R
    /\ \A x \in Nat : x \in R <=> \E r \in free : Inside(x, r)
    /\ \A f, g \in free, x \in Nat : Inside(x, f) /\ Inside(x, g) => f = g

SpaceInv ==
    /\ lib \in [kind : {SpaceKind}, free : SUBSET Regions]
    /\ SpaceOK(lib.free, ref)

LEMMA PowerOfTwo ==
  ASSUME NEW n \in Nat
  PROVE  2^n \in Nat \ {0}
<1>1. IsFiniteSet(1..n) /\ Cardinality(1..n) = n
  BY FS_Interval
<1>2. IsFiniteSet(SUBSET (1..n)) /\ Cardinality(SUBSET (1..n)) = 2^n
  BY <1>1, FS_SUBSET
<1>3. SUBSET (1..n) # {}
  OBVIOUS
<1> QED BY <1>2, <1>3, FS_CardinalityType, FS_EmptySet

LEMMA MinIs ==
  ASSUME NEW S \in SUBSET Int, NEW x \in S, \A y \in S : x <= y
  PROVE  Min(S) = x
<1>1. Min(S) \in S /\ \A y \in S : Min(S) <= y
  BY DEF Min
<1>2. Min(S) <= x /\ x <= Min(S) /\ x \in Int /\ Min(S) \in Int
  BY <1>1
<1> QED BY <1>2

LEMMA MaxIs ==
  ASSUME NEW S \in SUBSET Int, NEW x \in S, \A y \in S : x >= y
  PROVE  Max(S) = x
<1>1. Max(S) \in S /\ \A y \in S : Max(S) >= y
  BY DEF Max
<1>2. Max(S) <= x /\ x <= Max(S) /\ x \in Int /\ Max(S) \in Int
  BY <1>1
<1> QED BY <1>2

LEMMA Aligned ==
  ASSUME NEW s \in Nat, NEW a \in Nat \ {0}
  PROVE  AlignUp(s, a) \in Nat /\ s <= AlignUp(s, a)
<1>1. ((s + a - 1) \div a) * a >= s
  OBVIOUS
<1>2. ((s + a - 1) \div a) * a \in Nat
  OBVIOUS
<1> QED BY <1>1, <1>2 DEF AlignUp

\* The length of what as_alloc takes.
LEMMA Lengths ==
  ASSUME NEW width \in Nat, NEW count \in Nat \ {0}, NEW data
  PROVE  LET shift == Max({k \in 0..count : count % (2 ^ k) = 0})
             align == 2 ^ Widened(width + shift, data)
         IN  align \in Nat \ {0} /\ align * (count \div 2 ^ shift) \in Nat \ {0}
<1> DEFINE S == {k \in 0..count : count % (2 ^ k) = 0}
           shift == Max(S)
<1>1. shift \in S
  <2>1. 0 \in S
    OBVIOUS
  <2> DEFINE T == {n \in Nat : n <= count /\ count - n \in S}
  <2>2. count \in T
    BY <2>1
  <2>3. T \in SUBSET Nat
    OBVIOUS
  <2>4. PICK m \in T : \A y \in T : ~(<<y, m>> \in OpToRel(<, Nat))
    BY <2>2, <2>3, NatLessThanWellFounded, WFMin, Zenon
  <2>5. ASSUME NEW y \in S PROVE count - m >= y
    <3>1. y \in Nat /\ y <= count /\ m \in Nat /\ m <= count
      OBVIOUS
    <3>2. count - y \in T
      <4>1. count - (count - y) = y /\ count - y \in Nat /\ count - y <= count
        BY <3>1
      <4> QED BY <4>1
    <3>3. ~(count - y < m)
      <4>1. count - y < m => <<count - y, m>> \in OpToRel(<, Nat)
        <5>1. count - y \in Nat
          BY <3>1
        <5> QED BY <3>1, <5>1 DEF OpToRel
      <4> QED BY <2>4, <3>2, <4>1
    <3> QED BY <3>1, <3>3
  <2>6. count - m \in S /\ S \in SUBSET Int
    OBVIOUS
  <2> HIDE DEF S, T
  <2>7. Max(S) = count - m
    BY <2>5, <2>6, MaxIs
  <2> QED BY <2>6, <2>7
<1>2. shift \in Nat /\ count % (2 ^ shift) = 0
  BY <1>1
<1> HIDE DEF shift
<1>3. 2 ^ shift \in Nat \ {0} /\ 2 ^ Widened(width + shift, data) \in Nat \ {0}
  <2> DEFINE w == width + shift
  <2>1. w \in Nat
    BY <1>2
  <2> HIDE DEF w
  <2>2. w > PageWidth => (w - PageWidth) % SlotsWidth \in 0..(SlotsWidth - 1)
    BY <2>1, SpaceAssumption
  <2>3. Widened(w, data) \in Nat
    BY <2>1, <2>2, SpaceAssumption DEF Widened
  <2> QED BY <1>2, <2>3, PowerOfTwo DEF w
<1> DEFINE p == 2 ^ shift
           a == 2 ^ Widened(width + shift, data)
           c == count \div p
<1>4. p \in Nat \ {0} /\ a \in Nat \ {0} /\ count % p = 0
  BY <1>2, <1>3
<1> HIDE DEF p, a
<1>5. c \in Nat \ {0}
  BY <1>4
<1> HIDE DEF c
<1>6. a * c \in Nat \ {0}
  BY <1>4, <1>5
<1> QED BY <1>4, <1>6 DEF a, c, p, shift

\* Addresses in the middle of a region are taken.
LEMMA SpaceSplit ==
  ASSUME NEW free, NEW R, SpaceOK(free, R), NEW f \in free, NEW s \in Nat, NEW e \in Nat,
         f.start <= s, s <= e, e <= f.end
  PROVE  SpaceOK(free_space_split(free, f, s, e), R \ (s..e))
<1> DEFINE a == Region(f.start, s - 1)
           b == Region(e + 1, f.end)
           new == {r \in {a, b} : r.start <= r.end}
           F == free_space_split(free, f, s, e)
           Q == R \ (s..e)
<1>0. free \in SUBSET Regions /\ R \in SUBSET Nat /\ f \in Regions /\ f.start \in Nat /\ f.end \in Nat
  BY DEF SpaceOK, Regions
<1>1. F = (free \ {f}) \cup new
  BY DEF free_space_split
<1>2. a.start = f.start /\ a.end = s - 1 /\ b.start = e + 1 /\ b.end = f.end
  BY DEF Region
<1>3. a.start <= a.end => a \in Regions
  BY <1>0 DEF Region, Regions
<1>4. b \in Regions
  BY <1>0 DEF Region, Regions
<1>5. F \in SUBSET Regions /\ Q \in SUBSET Nat
  BY <1>0, <1>1, <1>3, <1>4
<1>6. \A x \in Nat : Inside(x, a) \/ Inside(x, b) => Inside(x, f) /\ x \notin s..e
  BY <1>0, <1>2 DEF Inside
<1>7. \A x \in Nat : Inside(x, f) => x \in s..e \/ (Inside(x, a) /\ a.start <= a.end)
                                      \/ (Inside(x, b) /\ b.start <= b.end)
  BY <1>0, <1>2 DEF Inside
<1>8. \A x \in Nat : ~(Inside(x, a) /\ Inside(x, b))
  BY <1>0, <1>2 DEF Inside
<1>9. \A x \in s..e : x \in Nat /\ Inside(x, f)
  BY <1>0 DEF Inside
<1> HIDE DEF F, a, b
<1>10. \A r \in F : r \in free \/ r = a \/ r = b
  BY <1>1
<1>11. \A f1, f2 \in free, x \in Nat : Inside(x, f1) /\ Inside(x, f2) => f1 = f2
  BY DEF SpaceOK
<1>12. ASSUME NEW r1 \in F, NEW r2 \in F, NEW x \in Nat, Inside(x, r1), Inside(x, r2)
       PROVE  r1 = r2
  <2>1. \A r \in F : r \in free => r # f
    <3> SUFFICES ASSUME NEW r \in F, r = f PROVE FALSE
      OBVIOUS
    <3>1. f = a \/ f = b
      BY <1>1
    <3> QED BY <3>1, <1>0, <1>2
  <2>2. r1 \in free => r1 = r2
    BY <1>6, <1>10, <1>11, <1>12, <2>1
  <2>3. r2 \in free => r1 = r2
    BY <1>6, <1>10, <1>11, <1>12, <2>1
  <2> QED BY <2>2, <2>3, <1>8, <1>10, <1>12
<1>13. ASSUME NEW x \in Nat PROVE x \in Q <=> \E r \in F : Inside(x, r)
  <2>1. ASSUME x \in Q PROVE \E r \in F : Inside(x, r)
    <3>1. PICK r \in free : Inside(x, r)
      BY <2>1 DEF SpaceOK
    <3>2. CASE r # f
      BY <3>1, <3>2, <1>1
    <3>3. CASE r = f
      <4>1. (Inside(x, a) /\ a.start <= a.end) \/ (Inside(x, b) /\ b.start <= b.end)
        BY <2>1, <3>1, <3>3, <1>7
      <4> QED BY <4>1, <1>1
    <3> QED BY <3>2, <3>3
  <2>2. ASSUME NEW r \in F, Inside(x, r) PROVE x \in Q
    <3>1. CASE r \in free /\ r # f
      <4>1. x \in R /\ ~Inside(x, f)
        BY <2>2, <3>1, <1>11 DEF SpaceOK
      <4> QED BY <4>1, <1>9
    <3>2. CASE r = a \/ r = b
      <4>1. Inside(x, f) /\ x \notin s..e
        BY <2>2, <3>2, <1>6
      <4> QED BY <4>1 DEF SpaceOK
    <3> QED BY <3>1, <3>2, <1>1
  <2> QED BY <2>1, <2>2
<1>14. ASSUME NEW r \in F PROVE r.start <= r.end /\ r.end + 1 \notin Q
  <2>1. CASE r \in free
    BY <2>1 DEF SpaceOK
  <2>2. CASE r = a
    <3>1. a.end + 1 = s /\ s \in s..e
      BY <1>0, <1>2
    <3>2. a.start <= a.end
      <4>1. CASE a \in free
        BY <4>1 DEF SpaceOK
      <4>2. CASE a \notin free
        BY <4>2, <2>2, <1>1
      <4> QED BY <4>1, <4>2
    <3> QED BY <2>2, <3>1, <3>2
  <2>3. CASE r = b
    <3>1. b.start <= b.end
      <4>1. CASE b \in free
        BY <4>1 DEF SpaceOK
      <4>2. CASE b \notin free /\ b # a
        BY <4>2, <2>3, <1>1
      <4>3. CASE b = a
        BY <4>3, <1>2, <1>0
      <4> QED BY <4>1, <4>2, <4>3
    <3> QED BY <2>3, <3>1, <1>2 DEF SpaceOK
  <2> QED BY <2>1, <2>2, <2>3, <1>10
<1> QED BY <1>5, <1>12, <1>13, <1>14 DEF SpaceOK, F

LEMMA SpaceIn ==
  ASSUME NEW free, NEW R, SpaceOK(free, R), NEW x \in Nat
  PROVE  x \in R <=> \E r \in free : Inside(x, r)
BY DEF SpaceOK

LEMMA SpaceApart ==
  ASSUME NEW free, NEW R, SpaceOK(free, R), NEW f \in free, NEW g \in free, NEW x \in Nat,
         Inside(x, f), Inside(x, g)
  PROVE  f = g
BY DEF SpaceOK

\* Addresses come back and close the gap between the regions they touch.
LEMMA SpaceJoin ==
  ASSUME NEW free, NEW R, SpaceOK(free, R), NEW s \in Nat, NEW e \in Nat, s <= e,
         (s..e) \cap R = {}
  PROVE  LET prev == {f \in free : f.end + 1 = s}
             next == {f \in free : e + 1 = f.start}
             with == prev \cup next
             all == {Region(s, e)} \cup with
         IN  SpaceOK((free \ with) \cup {Region(Min({r.start : r \in all}), Max({r.end : r \in all}))},
                     R \cup (s..e))
<1> DEFINE prev == {f \in free : f.end + 1 = s}
           next == {f \in free : e + 1 = f.start}
           with == prev \cup next
           all == {Region(s, e)} \cup with
           lo == Min({r.start : r \in all})
           hi == Max({r.end : r \in all})
           n == Region(lo, hi)
           F == (free \ with) \cup {n}
           Q == R \cup (s..e)
<1>0. free \in SUBSET Regions /\ R \in SUBSET Nat
        /\ \A r \in free : r.start \in Nat /\ r.end \in Nat /\ r.start <= r.end /\ r.end + 1 \notin R
  BY DEF SpaceOK, Regions
<1>1. Region(s, e) \in Regions /\ Region(s, e).start = s /\ Region(s, e).end = e
  BY DEF Region, Regions
<1>2. ASSUME NEW f \in prev, NEW g \in prev PROVE f = g
  <2>1. Inside(s - 1, f) /\ Inside(s - 1, g) /\ s - 1 \in Nat
    BY <1>0 DEF Inside
  <2> QED BY <2>1, SpaceApart
<1>3. ASSUME NEW f \in next, NEW g \in next PROVE f = g
  <2>1. Inside(e + 1, f) /\ Inside(e + 1, g) /\ e + 1 \in Nat
    BY <1>0 DEF Inside
  <2> QED BY <2>1, SpaceApart
<1>4. \A f \in prev : f.start \in Nat /\ f.start < s /\ f.end = s - 1
  BY <1>0
<1>5. \A f \in next : f.end \in Nat /\ e < f.end /\ f.start = e + 1
  BY <1>0
<1>6. \A f \in free : f.end < s \/ e < f.start
  <2> SUFFICES ASSUME NEW f \in free, s <= f.end, f.start <= e PROVE FALSE
    BY <1>0
  <2>1. CASE f.start <= s
    <3>1. Inside(s, f) /\ s \in s..e
      BY <2>1 DEF Inside
    <3> QED BY <3>1, SpaceIn
  <2>2. CASE s < f.start
    <3>1. Inside(f.start, f) /\ f.start \in s..e /\ f.start \in Nat
      BY <2>2, <1>0 DEF Inside
    <3> QED BY <3>1, SpaceIn
  <2> QED BY <2>1, <2>2, <1>0
<1>7. lo \in Nat /\ lo <= s /\ (prev = {} => lo = s) /\ (\A f \in prev : lo = f.start)
  <2> DEFINE S == {r.start : r \in all}
  <2>1. S \in SUBSET Int
    BY <1>0, <1>1
  <2>2. s \in S
    BY <1>1
  <2>3. CASE prev = {}
    <3>1. \A y \in S : s <= y
      BY <2>3, <1>1, <1>5
    <3> HIDE DEF S
    <3>2. Min(S) = s
      BY <2>1, <2>2, <3>1, MinIs
    <3> QED BY <2>3, <3>2 DEF S
  <2>4. ASSUME NEW f \in prev PROVE lo = f.start
    <3>1. f.start \in S
      OBVIOUS
    <3>2. \A r \in all : f.start <= r.start
      BY <1>1, <1>2, <1>4, <1>5
    <3>3. \A y \in S : f.start <= y
      BY <3>2
    <3> HIDE DEF S
    <3>4. Min(S) = f.start
      BY <2>1, <3>1, <3>3, MinIs
    <3> QED BY <3>4 DEF S
  <2> HIDE DEF lo, prev
  <2> QED BY <2>3, <2>4, <1>4 DEF S, lo
<1>8. hi \in Nat /\ e <= hi /\ (next = {} => hi = e) /\ (\A f \in next : hi = f.end)
  <2> DEFINE S == {r.end : r \in all}
  <2>1. S \in SUBSET Int
    BY <1>0, <1>1
  <2>2. e \in S
    BY <1>1
  <2>3. CASE next = {}
    <3>1. \A y \in S : e >= y
      BY <2>3, <1>1, <1>4
    <3> HIDE DEF S
    <3>2. Max(S) = e
      BY <2>1, <2>2, <3>1, MaxIs
    <3> QED BY <2>3, <3>2 DEF S
  <2>4. ASSUME NEW f \in next PROVE hi = f.end
    <3>1. f.end \in S
      OBVIOUS
    <3>2. \A r \in all : f.end >= r.end
      BY <1>1, <1>3, <1>4, <1>5
    <3>3. \A y \in S : f.end >= y
      BY <3>2
    <3> HIDE DEF S
    <3>4. Max(S) = f.end
      BY <2>1, <3>1, <3>3, MaxIs
    <3> QED BY <3>4 DEF S
  <2> HIDE DEF hi, next
  <2> QED BY <2>3, <2>4, <1>5 DEF S, hi
<1>9. n \in Regions /\ n.start = lo /\ n.end = hi /\ lo <= hi
  <2> HIDE DEF lo, hi
  <2> QED BY <1>7, <1>8 DEF Region, Regions
<1>10. \A x \in Nat : Inside(x, n) <=> (x \in s..e) \/ (\E f \in with : Inside(x, f))
  <2> SUFFICES ASSUME NEW x \in Nat
               PROVE  Inside(x, n) <=> (x \in s..e) \/ (\E f \in with : Inside(x, f))
    OBVIOUS
  <2>1. ASSUME Inside(x, n), x < s PROVE \E f \in with : Inside(x, f)
    <3>1. PICK f \in prev : TRUE
      <4> HIDE DEF lo, hi, n
      <4> QED BY <2>1, <1>7, <1>9 DEF Inside
    <3>2. Inside(x, f)
      <4> HIDE DEF lo, hi, n
      <4> QED BY <2>1, <3>1, <1>4, <1>7, <1>9 DEF Inside
    <3> QED BY <3>2
  <2>2. ASSUME Inside(x, n), x > e PROVE \E f \in with : Inside(x, f)
    <3>1. PICK f \in next : TRUE
      <4> HIDE DEF lo, hi, n
      <4> QED BY <2>2, <1>8, <1>9 DEF Inside
    <3>2. Inside(x, f)
      <4> HIDE DEF lo, hi, n
      <4> QED BY <2>2, <3>1, <1>5, <1>8, <1>9 DEF Inside
    <3> QED BY <3>2
  <2>3. ASSUME x \in s..e PROVE Inside(x, n)
    <3> HIDE DEF lo, hi, n
    <3> QED BY <2>3, <1>7, <1>8, <1>9 DEF Inside
  <2>4. ASSUME NEW f \in prev, Inside(x, f) PROVE Inside(x, n)
    <3>1. lo = f.start /\ f.end = s - 1 /\ f.start \in Nat
      BY <1>4, <1>7
    <3> HIDE DEF lo, hi, n
    <3> QED BY <2>4, <3>1, <1>8, <1>9 DEF Inside
  <2>5. ASSUME NEW f \in next, Inside(x, f) PROVE Inside(x, n)
    <3>1. hi = f.end /\ f.start = e + 1 /\ f.end \in Nat
      BY <1>5, <1>8
    <3> HIDE DEF lo, hi, n
    <3> QED BY <2>5, <3>1, <1>7, <1>9 DEF Inside
  <2>6. x < s \/ x > e \/ x \in s..e
    OBVIOUS
  <2> HIDE DEF n, prev, next
  <2> QED BY <2>1, <2>2, <2>3, <2>4, <2>5, <2>6 DEF with
<1>11. hi + 1 \notin Q
  <2>1. hi + 1 \notin s..e
    <3> HIDE DEF hi
    <3> QED BY <1>8
  <2>2. CASE next = {}
    <3>1. hi + 1 = e + 1 /\ e + 1 \in Nat
      BY <2>2, <1>8
    <3>2. ASSUME e + 1 \in R PROVE FALSE
      <4>1. PICK f \in free : Inside(e + 1, f)
        BY <3>1, <3>2, SpaceIn
      <4>2. f.start \in Nat /\ f.end \in Nat /\ f.start <= e + 1 /\ e + 1 <= f.end
              /\ (f.end < s \/ e < f.start)
        BY <4>1, <1>0, <1>6 DEF Inside
      <4>3. f.start = e + 1
        BY <4>2
      <4> QED BY <2>2, <4>3
    <3> HIDE DEF hi, next
    <3> QED BY <2>1, <3>1, <3>2
  <2>3. CASE next # {}
    <3>1. PICK f \in next : hi = f.end /\ f \in free
      BY <2>3, <1>8
    <3> QED BY <2>1, <3>1, <1>0
  <2> QED BY <2>2, <2>3
<1> HIDE DEF n, lo, hi
<1>12. ASSUME NEW r \in free \ with PROVE r.end + 1 \notin Q
  <2>1. r.end + 1 \notin R
    BY <1>0
  <2>2. r.end + 1 \notin s..e
    <3>1. r.start \in Nat /\ r.end \in Nat /\ r.start <= r.end
            /\ (r.end < s \/ e < r.start) /\ r.end + 1 # s
      BY <1>0, <1>6
    <3> QED BY <3>1
  <2> QED BY <2>1, <2>2
<1>13. ASSUME NEW x \in Nat, NEW r \in free \ with, Inside(x, r) PROVE ~Inside(x, n)
  <2>1. x \notin s..e
    <3>1. r.start \in Nat /\ r.end \in Nat /\ r.start <= x /\ x <= r.end /\ (r.end < s \/ e < r.start)
      BY <1>0, <1>6, <1>13 DEF Inside
    <3> QED BY <3>1
  <2>2. \A f \in with : ~Inside(x, f)
    BY <1>13, SpaceApart
  <2> HIDE DEF with
  <2> QED BY <2>1, <2>2, <1>10
<1>14. F \in SUBSET Regions /\ Q \in SUBSET Nat
  BY <1>0, <1>9
<1>15. \A r \in F : r.start <= r.end /\ r.end + 1 \notin Q
  <2> HIDE DEF with
  <2> QED BY <1>0, <1>9, <1>11, <1>12
<1>16. \A x \in Nat : x \in Q <=> \E r \in F : Inside(x, r)
  <2> SUFFICES ASSUME NEW x \in Nat PROVE x \in Q <=> \E r \in F : Inside(x, r)
    OBVIOUS
  <2>1. x \in R <=> \E r \in free : Inside(x, r)
    BY SpaceIn
  <2>2. with \subseteq free
    OBVIOUS
  <2>3. Inside(x, n) <=> (x \in s..e) \/ (\E f \in with : Inside(x, f))
    BY <1>10
  <2> HIDE DEF with
  <2> QED BY <2>1, <2>2, <2>3
<1>17. \A f, g \in F, x \in Nat : Inside(x, f) /\ Inside(x, g) => f = g
  <2> SUFFICES ASSUME NEW f \in F, NEW g \in F, NEW x \in Nat, Inside(x, f), Inside(x, g)
               PROVE  f = g
    OBVIOUS
  <2>1. f = n \/ f \in free \ with
    OBVIOUS
  <2>2. g = n \/ g \in free \ with
    OBVIOUS
  <2>3. f \in free /\ g \in free => f = g
    BY SpaceApart
  <2> HIDE DEF with, F
  <2> QED BY <2>1, <2>2, <2>3, <1>13
<1>18. SpaceOK(F, Q)
  BY <1>14, <1>15, <1>16, <1>17 DEF SpaceOK
<1> QED BY <1>18 DEF n, lo, hi

LEMMA AsAllocStep ==
  ASSUME SpaceInv, NEW width \in SpaceWidths, NEW count \in SpaceCounts, NEW data \in BOOLEAN,
         AsAlloc(width, count, data)
  PROVE  SpaceInv'
<1> DEFINE shift == Max({k \in 0..count : count % (2 ^ k) = 0})
           align == 2 ^ Widened(width + shift, data)
           length == align * (count \div 2 ^ shift)
           fits == {f \in lib.free : /\ AlignUp(f.start, align) < f.end
                                     /\ length <= f.end - AlignUp(f.start, align) + 1}
           f == CHOOSE x \in fits : \A y \in fits : x.start <= y.start
           s == AlignUp(f.start, align)
           e == s + length - 1
<1>0. lib.free \in SUBSET Regions /\ SpaceOK(lib.free, ref)
        /\ lib \in [kind : {SpaceKind}, free : SUBSET Regions]
  BY DEF SpaceInv
<1>1. align \in Nat \ {0} /\ length \in Nat \ {0}
  <2>1. width \in Nat /\ count \in Nat \ {0}
    BY SpaceAssumption
  <2> QED BY <2>1, Lengths
<1>2. fits # {} /\ lib' = [lib EXCEPT !.free = free_space_split(@, f, s, e)] /\ ref' = ref \ (s..e)
  BY DEF AsAlloc, Becomes
<1> HIDE DEF align, length
<1>3. f \in fits
  <2> DEFINE S == {y.start : y \in fits}
  <2>1. \A y \in fits : y.start \in Nat
    BY <1>0 DEF Regions
  <2>2. S \in SUBSET Nat /\ S # {}
    BY <1>2, <2>1
  <2> HIDE DEF fits
  <2>3. PICK m \in S : \A y \in S : ~(<<y, m>> \in OpToRel(<, Nat))
    BY <2>2, NatLessThanWellFounded, WFMin, Zenon
  <2>4. PICK x \in fits : m = x.start
    OBVIOUS
  <2>5. ASSUME NEW y \in fits PROVE x.start <= y.start
    <3>1. y.start \in Nat /\ x.start \in Nat /\ y.start \in S
      BY <2>1
    <3>2. y.start < x.start => <<y.start, m>> \in OpToRel(<, Nat)
      BY <2>4, <3>1 DEF OpToRel
    <3>3. ~(y.start < x.start)
      BY <2>3, <3>1, <3>2
    <3> QED BY <3>1, <3>3
  <2> QED BY <2>5
<1>4. f \in lib.free /\ f.start \in Nat /\ f.end \in Nat /\ length <= f.end - s + 1
  BY <1>0, <1>3 DEF Regions
<1> HIDE DEF f
<1>5. s \in Nat /\ f.start <= s
  BY <1>1, <1>4, Aligned
<1> HIDE DEF s
<1>6. e \in Nat /\ s <= e /\ e <= f.end
  BY <1>1, <1>4, <1>5
<1>7. SpaceOK(free_space_split(lib.free, f, s, e), ref \ (s..e))
  <2> HIDE DEF e
  <2> QED BY <1>0, <1>4, <1>5, <1>6, SpaceSplit
<1> DEFINE F == free_space_split(lib.free, f, s, e)
<1>8. lib' = [lib EXCEPT !.free = F]
  BY <1>2
<1> HIDE DEF F, e
<1>9. lib' \in [kind : {SpaceKind}, free : SUBSET Regions] /\ lib'.free = F
  BY <1>0, <1>7, <1>8 DEF F, SpaceOK
<1> QED BY <1>2, <1>7, <1>9 DEF SpaceInv, F

LEMMA AsAllocAtStep ==
  ASSUME SpaceInv, NEW s \in Nat, NEW e \in Nat, s <= e, AsAllocAt(s, e)
  PROVE  SpaceInv'
<1>0. lib.free \in SUBSET Regions /\ SpaceOK(lib.free, ref)
        /\ lib \in [kind : {SpaceKind}, free : SUBSET Regions]
  BY DEF SpaceInv
<1>1. PICK f \in lib.free : /\ f.start <= s /\ e <= f.end
                            /\ lib' = [lib EXCEPT !.free = free_space_split(@, f, s, e)]
                            /\ ref' = ref \ (s..e)
  BY DEF AsAllocAt, Becomes
<1> DEFINE F == free_space_split(lib.free, f, s, e)
<1>2. SpaceOK(F, ref \ (s..e))
  BY <1>0, <1>1, SpaceSplit
<1>3. lib' = [lib EXCEPT !.free = F]
  BY <1>1
<1> HIDE DEF F
<1>4. lib' \in [kind : {SpaceKind}, free : SUBSET Regions] /\ lib'.free = F
  BY <1>0, <1>2, <1>3 DEF SpaceOK
<1> QED BY <1>1, <1>2, <1>4 DEF SpaceInv

LEMMA AsFreeStep ==
  ASSUME SpaceInv, NEW s \in Nat, NEW e \in Nat, s <= e, AsFree(s, e)
  PROVE  SpaceInv'
<1> DEFINE prev == {f \in lib.free : f.end + 1 = s}
           next == {f \in lib.free : e + 1 = f.start}
           with == prev \cup next
           all == {Region(s, e)} \cup with
           F == (lib.free \ with) \cup {Region(Min({r.start : r \in all}), Max({r.end : r \in all}))}
<1>0. lib.free \in SUBSET Regions /\ SpaceOK(lib.free, ref)
        /\ lib \in [kind : {SpaceKind}, free : SUBSET Regions]
  BY DEF SpaceInv
<1>1. (s..e) \cap ref = {} /\ lib' = [lib EXCEPT !.free = F] /\ ref' = ref \cup (s..e)
  BY DEF AsFree, Becomes, Joined
<1>2. SpaceOK(F, ref \cup (s..e))
  BY <1>0, <1>1, SpaceJoin
<1> HIDE DEF F
<1>4. lib' \in [kind : {SpaceKind}, free : SUBSET Regions] /\ lib'.free = F
  BY <1>0, <1>1, <1>2 DEF SpaceOK
<1> QED BY <1>1, <1>2, <1>4 DEF SpaceInv

LEMMA SpaceInitInv == SpaceInit => SpaceInv
<1> SUFFICES ASSUME SpaceInit PROVE SpaceInv
  OBVIOUS
<1> DEFINE r == Region(0, TopAddress)
<1>1. lib = [kind |-> SpaceKind, free |-> {r}] /\ ref = 0..TopAddress /\ TopAddress \in Nat
  BY SpaceAssumption DEF SpaceInit
<1>2. r \in Regions /\ r.start = 0 /\ r.end = TopAddress
  BY <1>1 DEF Region, Regions
<1> HIDE DEF r
<1>3. SpaceOK({r}, ref)
  BY <1>1, <1>2 DEF SpaceOK, Inside
<1> QED BY <1>1, <1>2, <1>3 DEF SpaceInv

LEMMA SpaceStepInv == SpaceInv /\ [SpaceNext]_vars => SpaceInv'
<1> SUFFICES ASSUME SpaceInv, [SpaceNext]_vars PROVE SpaceInv'
  OBVIOUS
<1>1. CASE SpaceNext
  <2>1. \A s \in 0..TopAddress : s \in Nat
    BY SpaceAssumption
  <2> QED BY <1>1, <2>1, AsAllocStep, AsAllocAtStep, AsFreeStep DEF SpaceNext
<1>2. CASE UNCHANGED vars
  BY <1>2 DEF vars, SpaceInv
<1> QED BY <1>1, <1>2

LEMMA SpaceInvAgrees == SpaceInv => SpaceAgrees
<1> SUFFICES ASSUME SpaceInv PROVE SpaceAgrees
  OBVIOUS
<1>1. SpaceOK(lib.free, ref)
  BY DEF SpaceInv
<1>2. \A f \in lib.free : f.start \in Nat /\ f.end \in Nat
  BY <1>1 DEF SpaceOK, Regions
<1>3. \A f \in lib.free : \A x : x \in Addresses(f) <=> x \in Nat /\ Inside(x, f)
  BY <1>2 DEF Addresses, Inside
<1>4. UNION {Addresses(f) : f \in lib.free} = ref
  <2>1. ASSUME NEW x \in ref PROVE \E f \in lib.free : x \in Addresses(f)
    <3>1. x \in Nat
      BY <1>1 DEF SpaceOK
    <3> QED BY <3>1, <1>1, <1>3, SpaceIn
  <2>2. ASSUME NEW f \in lib.free, NEW x \in Addresses(f) PROVE x \in ref
    BY <1>1, <1>3, SpaceIn
  <2> QED BY <2>1, <2>2
<1>5. \A f, g \in lib.free : f # g => Addresses(f) \cap Addresses(g) = {}
  BY <1>1, <1>3, SpaceApart
<1> QED BY <1>1, <1>4, <1>5 DEF SpaceAgrees, SpaceOK

-----------------------------------------------------------------------------
(***************************************************************************)
(* Bits.                                                                   *)
(***************************************************************************)
LEMMA SizeFacts == ArrayBytes \in Nat /\ ArrayBytes > 0 /\ ByteBits \in Nat /\ ByteBits > 0
BY BitsAssumption

LEMMA Scaled ==
  ASSUME NEW a \in Nat, NEW b \in Nat, NEW w \in Nat, a <= b
  PROVE  a * w \in Nat /\ a * w <= b * w
OBVIOUS

LEMMA Divided ==
  ASSUME NEW x \in Nat, NEW w \in Nat, w > 0
  PROVE  /\ x \div w \in Nat /\ x % w \in 0..(w - 1)
         /\ x = (x \div w) * w + (x % w)
OBVIOUS

\* The byte of a bit.
LEMMA ByteOf ==
  ASSUME NEW x \in AllBits
  PROVE  /\ x \div ByteBits \in 0..(ArrayBytes - 1)
         /\ \A k \in 0..(ArrayBytes - 1) : x \in BitsOfByte(k) <=> x \div ByteBits = k
<1> DEFINE n == ArrayBytes
           w == ByteBits
           q == x \div w
           r == x % w
<1>1. n \in Nat /\ n > 0 /\ w \in Nat /\ w > 0 /\ x \in Nat
  BY SizeFacts DEF AllBits
<1>2. n * w \in Nat
  BY <1>1
<1>3. x < n * w
  BY <1>2 DEF AllBits
<1>4. q \in Nat /\ r \in 0..(w - 1) /\ x = q * w + r
  BY <1>1, Divided
<1> HIDE DEF n, w, q, r
<1>5. q * w \in Nat
  BY <1>1, <1>4
<1>6. q < n
  <2> SUFFICES ASSUME n <= q PROVE FALSE
    BY <1>1, <1>4
  <2>1. n * w <= q * w
    BY <1>1, <1>4, Scaled
  <2> QED BY <1>1, <1>2, <1>3, <1>4, <1>5, <2>1
<1>7. ASSUME NEW k \in 0..(n - 1) PROVE x \in (k * w)..(k * w + w - 1) <=> q = k
  <2>1. k \in Nat /\ k * w \in Nat
    BY <1>1
  <2>2. q = k => x \in (k * w)..(k * w + w - 1)
    BY <1>1, <1>4, <2>1
  <2>3. ASSUME q < k PROVE x < k * w
    <3>1. (q + 1) * w <= k * w
      <4>1. q + 1 \in Nat /\ q + 1 <= k
        BY <1>4, <2>1, <2>3
      <4> QED BY <1>1, <2>1, <4>1, Scaled
    <3>2. (q + 1) * w = q * w + w
      BY <1>1, <1>4
    <3> QED BY <1>1, <1>4, <1>5, <2>1, <3>1, <3>2
  <2>4. ASSUME k < q PROVE x > k * w + w - 1
    <3>1. (k + 1) * w <= q * w
      <4>1. k + 1 \in Nat /\ k + 1 <= q
        BY <1>4, <2>1, <2>4
      <4> QED BY <1>1, <1>4, <4>1, Scaled
    <3>2. (k + 1) * w = k * w + w
      BY <1>1, <2>1
    <3> QED BY <1>1, <1>4, <1>5, <2>1, <3>1, <3>2
  <2>5. q < k \/ q = k \/ k < q
    BY <1>4, <2>1
  <2>6. x \in Nat /\ k * w + w - 1 \in Int
    BY <1>1, <2>1
  <2> QED BY <2>1, <2>2, <2>3, <2>4, <2>5, <2>6
<1>8. q \in 0..(n - 1)
  BY <1>1, <1>4, <1>6
<1> QED BY <1>7, <1>8 DEF BitsOfByte, n, w, q

LEMMA BytesInside ==
  ASSUME NEW k \in 0..(ArrayBytes - 1)
  PROVE  BitsOfByte(k) \subseteq AllBits
<1> DEFINE n == ArrayBytes
           w == ByteBits
<1>1. n \in Nat /\ n > 0 /\ w \in Nat /\ w > 0 /\ k \in Nat /\ k + 1 <= n
  BY SizeFacts
<1>2. n * w \in Nat /\ k * w \in Nat
  BY <1>1
<1>3. (k + 1) * w <= n * w
  <2>1. k + 1 \in Nat
    BY <1>1
  <2> QED BY <1>1, <2>1, Scaled
<1>4. (k + 1) * w = k * w + w
  BY <1>1
<1> DEFINE a == k * w
           b == n * w
<1>5. a \in Nat /\ b \in Nat /\ a + w <= b
  BY <1>2, <1>3, <1>4
<1> HIDE DEF a, b, w
<1>6. a..(a + w - 1) \subseteq 0..(b - 1)
  BY <1>1, <1>5
<1> QED BY <1>6 DEF a, b, n, w, BitsOfByte, AllBits

\* The bytes are looked at from the first to the last and from 0 on.
LEMMA ByteTurn ==
  ASSUME NEW n \in Nat, n > 0, NEW f \in 0..(n - 1), NEW i \in 1..n
  PROVE  (f + i - 1) % n = IF f + i - 1 < n THEN f + i - 1 ELSE f + i - 1 - n
<1> DEFINE y == f + i - 1
<1>1. y \in Nat /\ y < 2 * n
  OBVIOUS
<1> HIDE DEF y
<1>2. CASE y < n
  <2>1. y % n = y
    BY <1>1, <1>2
  <2> QED BY <1>2, <2>1 DEF y
<1>3. CASE ~(y < n)
  <2>1. y - n \in 0..(n - 1)
    BY <1>1, <1>3
  <2>2. y \div n = 1
    <3>1. y \div n \in Nat /\ y % n \in 0..(n - 1) /\ y = (y \div n) * n + (y % n)
      BY <1>1, Divided
    <3> DEFINE q == y \div n
               m == y % n
    <3> HIDE DEF q, m
    <3>2. q \in Nat /\ m \in 0..(n - 1) /\ y = q * n + m
      BY <3>1 DEF q, m
    <3>3. q # 0
      <4>1. q = 0 => q * n = 0
        BY <3>2
      <4> QED BY <1>1, <1>3, <3>2, <4>1
    <3>4. q < 2
      <4> SUFFICES ASSUME 2 <= q PROVE FALSE
        BY <3>2
      <4>1. 2 * n <= q * n
        BY <3>2, Scaled
      <4>2. q * n \in Nat
        BY <3>2
      <4> QED BY <1>1, <3>2, <4>1, <4>2
    <3> QED BY <3>2, <3>3, <3>4 DEF q
  <2>3. y = (y \div n) * n + (y % n) /\ y % n \in Int
    BY <1>1, Divided
  <2>4. y % n = y - n
    BY <1>1, <2>2, <2>3
  <2> QED BY <1>3, <2>4 DEF y
<1> QED BY <1>2, <1>3

LEMMA DividedInOrder ==
  ASSUME NEW x \in Nat, NEW y \in Nat, NEW w \in Nat, w > 0, x <= y
  PROVE  x \div w <= y \div w
<1> DEFINE p == x \div w
           q == y \div w
<1>1. p \in Nat /\ q \in Nat /\ x % w \in 0..(w - 1) /\ y % w \in 0..(w - 1)
        /\ x = p * w + (x % w) /\ y = q * w + (y % w)
  BY Divided
<1> DEFINE a == x % w
           b == y % w
<1>2. p \in Nat /\ q \in Nat /\ a \in 0..(w - 1) /\ b \in 0..(w - 1) /\ x = p * w + a /\ y = q * w + b
  BY <1>1
<1> HIDE DEF p, q, a, b
<1>3. SUFFICES ASSUME q + 1 <= p PROVE FALSE
  BY <1>2 DEF p, q
<1>4. (q + 1) * w <= p * w
  <2>1. q + 1 \in Nat
    BY <1>2
  <2> QED BY <1>2, <1>3, <2>1, Scaled
<1>5. (q + 1) * w = q * w + w /\ q * w \in Nat /\ p * w \in Nat
  BY <1>2
<1> QED BY <1>2, <1>4, <1>5

\* What bit_alloc returns.
LEMMA BitFound ==
  ASSUME NEW bits \in SUBSET AllBits, NEW start \in AllBits
  PROVE  LET free == AllBits \ bits
             later == {b \in free : b >= start}
         IN  bit_alloc(bits, start) =
                IF later # {} THEN Min(later) ELSE IF free # {} THEN Min(free) ELSE -1
<1> DEFINE n == ArrayBytes
           w == ByteBits
           free == AllBits \ bits
           later == {b \in free : b >= start}
           first == start \div w
           turn(i) == (first + i - 1) % n
           cand(i) == {x \in free : x \div w = turn(i) /\ (i = 1 => x >= start)}
           masked(i) == IF i = 1 THEN {b \in AllBits : b < start} ELSE {}
           found == [i \in 1..n |-> check_byte(bits, turn(i), masked(i))]
           hits == {i \in 1..n : found[i] # -1}
           around == {x \in free : x \div w = first /\ x < start}
<1>0. n \in Nat /\ n > 0 /\ w \in Nat /\ w > 0 /\ AllBits \subseteq Nat /\ start \in Nat
  BY SizeFacts DEF AllBits
<1>1. first \in 0..(n - 1)
  BY ByteOf
<1> HIDE DEF n, w, first
<1>2. ASSUME NEW i \in 1..n
      PROVE  /\ first + i - 1 < n => turn(i) = first + i - 1
             /\ ~(first + i - 1 < n) => turn(i) = first + i - 1 - n
             /\ turn(i) \in 0..(n - 1)
  <2>1. turn(i) = IF first + i - 1 < n THEN first + i - 1 ELSE first + i - 1 - n
    BY <1>0, <1>1, ByteTurn
  <2> HIDE DEF turn
  <2> QED BY <1>0, <1>1, <2>1
<1>3. \A x \in AllBits : x \div w \in 0..(n - 1) /\ x \in Nat
        /\ \A k \in 0..(n - 1) : x \in BitsOfByte(k) <=> x \div w = k
  BY <1>0, ByteOf DEF n, w
<1>4. \A k \in 0..(n - 1) : BitsOfByte(k) \subseteq AllBits
  BY BytesInside DEF n
<1>5. \A S \in SUBSET free : S # {} => Min(S) \in S /\ Min(S) # -1
  <2> SUFFICES ASSUME NEW S \in SUBSET free, S # {} PROVE Min(S) \in S /\ Min(S) # -1
    OBVIOUS
  <2>1. S \in SUBSET Nat
    BY <1>0
  <2>2. Min(S) \in S
    BY <2>1, Least
  <2> QED BY <2>1, <2>2
<1>6. ASSUME NEW i \in 1..n PROVE found[i] = IF cand(i) = {} THEN -1 ELSE Min(cand(i))
  <2>1. BitsOfByte(turn(i)) \ (bits \cup masked(i)) = cand(i)
    <3>1. turn(i) \in 0..(n - 1)
      BY <1>2
    <3>2. ASSUME NEW x \in BitsOfByte(turn(i)) \ (bits \cup masked(i)) PROVE x \in cand(i)
      <4>1. x \in AllBits /\ x \notin bits /\ x \notin masked(i)
        BY <3>1, <3>2, <1>4
      <4>2. x \in Nat /\ x \div w = turn(i)
        BY <3>1, <3>2, <4>1, <1>3
      <4>3. i = 1 => x >= start
        BY <4>1, <4>2, <1>0
      <4> HIDE DEF turn
      <4> QED BY <4>1, <4>2, <4>3
    <3>3. ASSUME NEW x \in cand(i) PROVE x \in BitsOfByte(turn(i)) \ (bits \cup masked(i))
      <4>1. x \in AllBits /\ x \notin bits /\ x \div w = turn(i) /\ (i = 1 => x >= start)
        OBVIOUS
      <4>2. x \in BitsOfByte(turn(i))
        BY <3>1, <4>1, <1>3
      <4>3. x \notin masked(i)
        BY <4>1, <1>0, <1>3
      <4> QED BY <4>1, <4>2, <4>3
    <3> HIDE DEF turn, cand, masked
    <3> QED BY <3>2, <3>3
  <2>2. found[i] = check_byte(bits, turn(i), masked(i))
    <3> HIDE DEF turn, masked
    <3> QED OBVIOUS
  <2> HIDE DEF cand, turn, masked, found
  <2> QED BY <2>1, <2>2 DEF check_byte
<1>7. \A i \in 1..n : cand(i) \subseteq free
  OBVIOUS
<1> HIDE DEF found, turn
<1>8. hits = {i \in 1..n : cand(i) # {}}
  <2>1. \A i \in 1..n : found[i] # -1 <=> cand(i) # {}
    <3> HIDE DEF cand
    <3> QED BY <1>5, <1>6, <1>7
  <2> HIDE DEF cand
  <2> QED BY <2>1
<1>9. bit_alloc(bits, start) = IF hits # {} THEN found[Min(hits)] ELSE Wrapped(bits, first, start)
  BY DEF bit_alloc, hits, found, turn, masked, first, n, w
<1> HIDE DEF hits
\* The turn i finds m, the smallest candidate of the first turn that has one.
<1>10. ASSUME NEW i \in 1..n, NEW m \in cand(i), \A x \in cand(i) : m <= x,
              \A j \in 1..n : j < i => cand(j) = {}
       PROVE  bit_alloc(bits, start) = m
  <2>1. hits \in SUBSET Int /\ i \in hits
    BY <1>8, <1>10
  <2>2. \A j \in hits : i <= j
    <3> SUFFICES ASSUME NEW j \in hits PROVE ~(j < i)
      BY <1>0, <1>8
    <3> HIDE DEF cand
    <3> QED BY <1>8, <1>10
  <2>3. Min(hits) = i
    BY <2>1, <2>2, MinIs
  <2>4. cand(i) \in SUBSET Int
    <3>1. free \subseteq Int
      BY <1>0
    <3> HIDE DEF free
    <3> QED BY <3>1
  <2>5. Min(cand(i)) = m
    <3> HIDE DEF cand
    <3> QED BY <1>10, <2>4, MinIs
  <2> HIDE DEF cand
  <2> QED BY <1>6, <1>9, <1>10, <2>1, <2>3, <2>5
<1>11. ASSUME NEW j \in 1..n, first + j - 1 < n, NEW x \in cand(j) PROVE x \in later
  <2>1. x \in free /\ x \in Nat /\ x \div w = turn(j) /\ (j = 1 => x >= start)
    BY <1>0
  <2>2. turn(j) = first + j - 1
    BY <1>2, <1>11
  <2>3. CASE j # 1
    <3>1. first < x \div w
      BY <2>1, <2>2, <2>3, <1>1
    <3>2. ~(x <= start)
      <4>1. x <= start => x \div w <= first
        BY <1>0, <2>1, DividedInOrder DEF first
      <4> QED BY <3>1, <4>1, <2>1, <2>2, <1>1
    <3> QED BY <2>1, <3>2, <1>0
  <2> QED BY <2>1, <2>3
<1>12. ASSUME later # {} PROVE bit_alloc(bits, start) = Min(later)
  <2> DEFINE m == Min(later)
             k == m \div w
             i == k - first + 1
  <2>1. m \in later /\ \A x \in later : m <= x
    <3>1. later \in SUBSET Nat
      BY <1>0
    <3> HIDE DEF later
    <3> QED BY <1>12, <3>1, Least
  <2>2. m \in AllBits /\ m \in Nat /\ m >= start /\ m \in free
    BY <1>0, <2>1
  <2> HIDE DEF m
  <2>3. k \in 0..(n - 1)
    BY <1>3, <2>2
  <2>4. first <= k
    BY <1>0, <2>2, DividedInOrder DEF first
  <2>5. i \in 1..n /\ first + i - 1 = k /\ k < n /\ first + i - 1 < n
    BY <1>0, <1>1, <2>3, <2>4
  <2>6. turn(i) = k
    BY <1>2, <2>5
  <2>7. m \in cand(i)
    BY <2>2, <2>6
  <2>8. \A x \in cand(i) : m <= x
    <3> HIDE DEF cand, later, i
    <3> QED BY <1>11, <2>1, <2>5
  <2>9. ASSUME NEW j \in 1..n, j < i PROVE cand(j) = {}
    <3> SUFFICES ASSUME NEW x \in cand(j) PROVE FALSE
      OBVIOUS
    <3>1. first + j - 1 < k /\ first + j - 1 < n
      BY <1>0, <1>1, <2>3, <2>5, <2>9
    <3>2. x \in later /\ x \div w = turn(j) /\ turn(j) = first + j - 1
      BY <1>2, <1>11, <3>1
    <3>3. m <= x /\ x \in Nat
      BY <1>0, <2>1, <3>2
    <3>4. k <= x \div w
      BY <1>0, <2>2, <3>3, DividedInOrder
    <3> QED BY <1>1, <2>3, <3>1, <3>2, <3>4
  <2>10. bit_alloc(bits, start) = m
    <3> HIDE DEF cand, i
    <3> QED BY <1>10, <2>5, <2>7, <2>8, <2>9
  <2> QED BY <2>10 DEF m
<1>13. ASSUME later = {}, free # {} PROVE bit_alloc(bits, start) = Min(free)
  <2> DEFINE m == Min(free)
             k == m \div w
  <2>1. m \in free /\ \A x \in free : m <= x
    <3>1. free \in SUBSET Nat
      BY <1>0
    <3> HIDE DEF free
    <3> QED BY <1>13, <3>1, Least
  <2>2. m \in AllBits /\ m \in Nat /\ m < start
    <3>1. m \in AllBits /\ m \in free /\ m \notin later
      BY <1>13, <2>1
    <3>2. m \in Nat
      BY <1>0, <3>1
    <3> HIDE DEF m
    <3> QED BY <1>0, <3>1, <3>2
  <2> HIDE DEF m
  <2>3. k \in 0..(n - 1) /\ k <= first
    <3>1. k \in 0..(n - 1)
      BY <1>3, <2>2
    <3>2. k <= first
      BY <1>0, <2>2, DividedInOrder DEF first
    <3> QED BY <3>1, <3>2
  <2>4. ASSUME NEW j \in 1..n, first + j - 1 < n PROVE cand(j) = {}
    <3> HIDE DEF cand, later
    <3> QED BY <1>11, <1>13, <2>4
  <2>5. ASSUME NEW j \in 1..n, ~(first + j - 1 < n), first + j - 1 - n < k PROVE cand(j) = {}
    <3> SUFFICES ASSUME NEW x \in cand(j) PROVE FALSE
      OBVIOUS
    <3>1. x \in free /\ x \in Nat /\ x \div w = turn(j) /\ turn(j) = first + j - 1 - n
      BY <1>0, <1>2, <2>5
    <3>2. m <= x
      BY <2>1, <3>1
    <3>3. k <= x \div w
      BY <1>0, <2>2, <3>1, <3>2, DividedInOrder
    <3> QED BY <1>0, <1>1, <2>3, <2>5, <3>1, <3>3
  <2>6. CASE k < first
    <3> DEFINE i == n - first + 1 + k
    <3>1. i \in 1..n /\ ~(first + i - 1 < n) /\ first + i - 1 - n = k /\ i # 1
      BY <1>0, <1>1, <2>3, <2>6
    <3>2. turn(i) = k
      BY <1>2, <3>1
    <3>3. m \in cand(i)
      BY <2>1, <3>1, <3>2
    <3>4. \A x \in cand(i) : m <= x
      BY <2>1
    <3>5. ASSUME NEW j \in 1..n, j < i PROVE cand(j) = {}
      <4>1. first + j - 1 < n \/ (~(first + j - 1 < n) /\ first + j - 1 - n < k)
        BY <1>0, <1>1, <2>3, <3>5
      <4> HIDE DEF cand
      <4> QED BY <2>4, <2>5, <4>1
    <3>6. bit_alloc(bits, start) = m
      <4> HIDE DEF cand, i
      <4> QED BY <1>10, <3>1, <3>3, <3>4, <3>5
    <3> QED BY <3>6 DEF m
  <2>7. CASE k = first
    <3>1. ASSUME NEW j \in 1..n PROVE cand(j) = {}
      <4>1. first + j - 1 < n \/ (~(first + j - 1 < n) /\ first + j - 1 - n < k)
        BY <1>0, <1>1, <2>3, <2>7
      <4> HIDE DEF cand
      <4> QED BY <2>4, <2>5, <4>1
    <3>2. hits = {}
      <4> HIDE DEF cand
      <4> QED BY <1>8, <3>1
    <3>3. start % w # 0
      <4>1. m = k * w + (m % w) /\ m % w \in 0..(w - 1) /\ start = first * w + (start % w)
        BY <1>0, <2>2, Divided DEF first
      <4>2. k * w \in Nat /\ k * w = first * w
        BY <1>0, <2>3, <2>7
      <4> QED BY <1>0, <2>2, <4>1, <4>2
    <3> DEFINE upper == {b \in AllBits : b >= start}
               rest == BitsOfByte(first) \ (bits \cup upper)
    <3>4. m \in rest
      <4>1. m \in BitsOfByte(first)
        BY <1>1, <1>3, <2>2, <2>7
      <4> QED BY <1>0, <2>1, <2>2, <4>1
    <3>5. rest \in SUBSET Int /\ \A x \in rest : m <= x
      <4>1. rest \subseteq free
        BY <1>1, <1>4
      <4>2. free \subseteq Int
        BY <1>0
      <4> HIDE DEF free, rest
      <4> QED BY <2>1, <4>1, <4>2
    <3>6. Min(rest) = m
      <4> HIDE DEF rest
      <4> QED BY <3>4, <3>5, MinIs
    <3>7. check_byte(bits, first, upper) = m
      <4>1. check_byte(bits, first, upper) = IF rest = {} THEN -1 ELSE Min(rest)
        BY DEF check_byte
      <4> HIDE DEF rest, upper
      <4> QED BY <3>4, <3>6, <4>1
    <3>8. Wrapped(bits, first, start) = m
      BY <3>3, <3>7 DEF Wrapped, w
    <3> QED BY <1>9, <3>2, <3>8 DEF m
  <2> QED BY <1>1, <2>3, <2>6, <2>7
<1>14. ASSUME free = {} PROVE bit_alloc(bits, start) = -1
  <2>1. \A j \in 1..n : cand(j) = {}
    BY <1>14
  <2>2. hits = {}
    <3> HIDE DEF cand
    <3> QED BY <1>8, <2>1
  <2>3. ASSUME NEW M PROVE check_byte(bits, first, M) = -1
    <3>1. BitsOfByte(first) \ (bits \cup M) = {}
      BY <1>1, <1>4, <1>14
    <3> QED BY <3>1 DEF check_byte
  <2>4. Wrapped(bits, first, start) = -1
    BY <2>3 DEF Wrapped
  <2>6. bit_alloc(bits, start) = -1
    <3> HIDE DEF free, later
    <3> QED BY <1>9, <2>2, <2>4
  <2> QED BY <2>6
<1> HIDE DEF free, later
<1>15. bit_alloc(bits, start) = IF later # {} THEN Min(later) ELSE IF free # {} THEN Min(free) ELSE -1
  <2>1. CASE later # {}
    <3>1. bit_alloc(bits, start) = Min(later)
      BY <1>12, <2>1
    <3> QED BY <2>1, <3>1
  <2>2. CASE later = {} /\ free # {}
    <3>1. bit_alloc(bits, start) = Min(free)
      BY <1>13, <2>2
    <3> QED BY <2>2, <3>1
  <2>3. CASE later = {} /\ free = {}
    <3>1. bit_alloc(bits, start) = -1
      BY <1>14, <2>3
    <3> QED BY <2>3, <3>1
  <2> QED BY <2>1, <2>2, <2>3
<1> QED BY <1>15 DEF free, later

LEMMA BitFree ==
  ASSUME NEW bits \in SUBSET AllBits, NEW start \in AllBits
  PROVE  /\ bit_alloc(bits, start) # -1 => bit_alloc(bits, start) \in AllBits \ bits
         /\ bits # AllBits => bit_alloc(bits, start) # -1
<1> DEFINE free == AllBits \ bits
           later == {b \in free : b >= start}
<1>1. bit_alloc(bits, start) = IF later # {} THEN Min(later) ELSE IF free # {} THEN Min(free) ELSE -1
  BY BitFound
<1>2. later \in SUBSET Nat /\ free \in SUBSET Nat /\ later \subseteq free /\ (free = {} => bits = AllBits)
  <2>1. AllBits \subseteq Nat
    BY SizeFacts DEF AllBits
  <2> QED BY <2>1
<1> HIDE DEF free, later
<1>3. (later # {} => Min(later) \in later) /\ (free # {} => Min(free) \in free)
  BY <1>2, Least
<1>4. \A x \in free : x # -1
  BY <1>2
<1> QED BY <1>1, <1>2, <1>3, <1>4 DEF free

BitInv == lib \in [kind : {BitKind}, bits : SUBSET AllBits] /\ ref = lib.bits

LEMMA BitInitInv == BitInit => BitInv
BY DEF BitInit, BitInv

LEMMA BitStepInv == BitInv /\ [BitNext]_vars => BitInv'
<1> SUFFICES ASSUME BitInv, [BitNext]_vars PROVE BitInv'
  OBVIOUS
<1>0. lib.bits \in SUBSET AllBits /\ lib \in [kind : {BitKind}, bits : SUBSET AllBits] /\ ref = lib.bits
  BY DEF BitInv
<1>1. ASSUME NEW a \in AllBits, Becomes([lib EXCEPT !.bits = @ \cup {a}], ref \cup {a}) PROVE BitInv'
  BY <1>0, <1>1 DEF BitInv, Becomes
<1>2. ASSUME NEW a \in AllBits, Becomes([lib EXCEPT !.bits = @ \ {a}], ref \ {a}) PROVE BitInv'
  BY <1>0, <1>2 DEF BitInv, Becomes
<1>3. CASE BitNext
  <2>1. PICK b \in AllBits :
          \/ bit_alloc(lib.bits, b) # -1
             /\ Becomes([lib EXCEPT !.bits = @ \cup {bit_alloc(lib.bits, b)}],
                  ref \cup {bit_alloc(lib.bits, b)})
          \/ Becomes([lib EXCEPT !.bits = @ \cup {b}], ref \cup {b})
          \/ Becomes([lib EXCEPT !.bits = @ \ {b}], ref \ {b})
    BY <1>3 DEF BitNext
  <2>2. bit_alloc(lib.bits, b) # -1 => bit_alloc(lib.bits, b) \in AllBits
    BY <1>0, BitFree
  <2> QED BY <1>1, <1>2, <2>1, <2>2
<1>4. CASE UNCHANGED vars
  BY <1>4 DEF vars, BitInv
<1> QED BY <1>3, <1>4

LEMMA BitInvAgrees == BitInv => BitsAgree
<1> SUFFICES ASSUME BitInv PROVE BitsAgree
  OBVIOUS
<1>1. lib.bits \in SUBSET AllBits /\ lib.bits = ref
  BY DEF BitInv
<1>2. ASSUME NEW start \in AllBits
      PROVE  LET free == AllBits \ ref
                 later == {b \in free : b >= start}
             IN  bit_alloc(lib.bits, start) =
                    IF later # {} THEN Min(later) ELSE IF free # {} THEN Min(free) ELSE -1
  <2>1. ref \in SUBSET AllBits
    BY <1>1
  <2>2. bit_alloc(lib.bits, start) = bit_alloc(ref, start)
    BY <1>1
  <2> DEFINE free == AllBits \ ref
             later == {b \in free : b >= start}
  <2>3. bit_alloc(ref, start) = IF later # {} THEN Min(later) ELSE IF free # {} THEN Min(free) ELSE -1
    BY <2>1, BitFound
  <2> HIDE DEF free, later
  <2>4. bit_alloc(lib.bits, start) = IF later # {} THEN Min(later) ELSE IF free # {} THEN Min(free) ELSE -1
    BY <2>2, <2>3
  <2> QED BY <2>4 DEF free, later
<1> QED BY <1>1, <1>2 DEF BitsAgree

-----------------------------------------------------------------------------
(***************************************************************************)
(* Threads and their L4 threads.                                           *)
(***************************************************************************)
ThrRecs == [init : BOOLEAN, commissioned : BOOLEAN, tid : AllBits, user_handle : Handles,
            activity : BOOLEAN]
L4Recs == [user_handle : Handles, halted : BOOLEAN]
Views == [user_handle : Handles, activity : BOOLEAN, run : {"no", "running", "halted"}]

\* A state of the library, from its parts.
Threading(thr, ids, table, l4) ==
    [kind |-> ThreadKind, thr |-> thr, ids |-> ids, table |-> table, l4 |-> l4]

\* Ids, hash and L4 threads belong to the same objects.
TidsOK(thr, ids, table, l4) ==
    /\ thr \in [ThreadObjs -> ThrRecs]
    /\ ids \in SUBSET AllBits
    /\ table \in [AllBits -> ThreadObjs \cup {NoL4}]
    /\ l4 \in [AllBits -> L4Recs \cup {NoL4}]
    /\ \A t \in ThreadObjs : thr[t].commissioned => thr[t].init /\ l4[thr[t].tid] # NoL4
    /\ \A t \in ThreadObjs : thr[t].init => table[thr[t].tid] = t /\ thr[t].tid \in ids
    /\ \A i \in ids : table[i] # NoL4 /\ thr[table[i]].init /\ thr[table[i]].tid = i
    /\ \A i \in AllBits : l4[i] # NoL4 => i \in ids /\ thr[table[i]].commissioned

\* What the client knows of a thread holds of it and its L4 thread, if any.
Seen(r, l, v) ==
    /\ v.activity = r.activity
    /\ IF r.commissioned
       THEN l.user_handle = v.user_handle /\ v.run = IF l.halted THEN "halted" ELSE "running"
       ELSE r.user_handle = v.user_handle /\ v.run = "no"

SeenOK(thr, l4, R) ==
    /\ R \in [ThreadObjs -> Views]
    /\ \A t \in ThreadObjs : Seen(thr[t], l4[thr[t].tid], R[t])

ThreadInv ==
    /\ lib = Threading(lib.thr, lib.ids, lib.table, lib.l4)
    /\ TidsOK(lib.thr, lib.ids, lib.table, lib.l4)
    /\ SeenOK(lib.thr, lib.l4, ref)

Put(f, x, v) == [f EXCEPT ![x] = v]

LEMMA ThreadFacts ==
  /\ 0 \in AllBits /\ 0 \in Handles /\ NoL4 \notin ThreadObjs /\ NoL4 \notin L4Recs
<1>1. 0 \in AllBits
  <2> DEFINE p == ArrayBytes * ByteBits
  <2>1. p \in Nat /\ p > 0
    BY SizeFacts
  <2> HIDE DEF p
  <2>2. 0 \in 0..(p - 1)
    BY <2>1
  <2> QED BY <2>2 DEF AllBits, p
<1> QED BY <1>1, ThreadsAssumption DEF L4Recs

LEMMA ThreadSet ==
  ASSUME NEW thr, NEW ids, NEW table, NEW l4, NEW R, lib' = Threading(thr, ids, table, l4), ref' = R,
         TidsOK(thr, ids, table, l4), SeenOK(thr, l4, R)
  PROVE  ThreadInv'
<1>1. lib'.thr = thr /\ lib'.ids = ids /\ lib'.table = table /\ lib'.l4 = l4
  BY DEF Threading
<1> QED BY <1>1 DEF ThreadInv

\* Two objects with an id have two.
LEMMA TidsApart ==
  ASSUME NEW thr, NEW ids, NEW table, NEW l4, TidsOK(thr, ids, table, l4),
         NEW t \in ThreadObjs, NEW u \in ThreadObjs, thr[t].init, thr[u].init, thr[t].tid = thr[u].tid
  PROVE  t = u
BY DEF TidsOK

LEMMA TidTyped ==
  ASSUME NEW thr, NEW ids, NEW table, NEW l4, TidsOK(thr, ids, table, l4), NEW t \in ThreadObjs
  PROVE  thr[t] \in ThrRecs /\ thr[t].tid \in AllBits /\ thr[t].init \in BOOLEAN
         /\ thr[t].commissioned \in BOOLEAN /\ thr[t].user_handle \in Handles
              /\ thr[t].activity \in BOOLEAN
         /\ (thr[t].commissioned => thr[t].init /\ l4[thr[t].tid] \in L4Recs)
<1>1. thr[t] \in ThrRecs
  BY DEF TidsOK
<1>2. thr[t].tid \in AllBits
  BY <1>1 DEF ThrRecs
<1>3. thr[t].commissioned => thr[t].init /\ l4[thr[t].tid] \in L4Recs
  BY <1>2 DEF TidsOK
<1> QED BY <1>1, <1>2, <1>3 DEF ThrRecs

\* The fields of an object change, its id and L4 thread do not.
LEMMA FieldsChange ==
  ASSUME NEW thr, NEW ids, NEW table, NEW l4, TidsOK(thr, ids, table, l4), NEW t \in ThreadObjs,
         NEW r \in ThrRecs, r.init = thr[t].init, r.commissioned = thr[t].commissioned,
         thr[t].init => r.tid = thr[t].tid
  PROVE  TidsOK(Put(thr, t, r), ids, table, l4)
<1> DEFINE h == Put(thr, t, r)
<1>1. h \in [ThreadObjs -> ThrRecs] /\ h[t] = r /\ \A u \in ThreadObjs : u # t => h[u] = thr[u]
  BY DEF TidsOK, Put
<1>2. \A u \in ThreadObjs : h[u].init = thr[u].init /\ h[u].commissioned = thr[u].commissioned
                              /\ (thr[u].init => h[u].tid = thr[u].tid)
  BY <1>1
<1>3. \A i \in ids : i \in AllBits /\ table[i] \in ThreadObjs
  BY DEF TidsOK
<1> HIDE DEF h
<1>4. \A i \in ids : table[i] # NoL4 /\ h[table[i]].init /\ h[table[i]].tid = i
  BY <1>2, <1>3 DEF TidsOK
<1>5. \A i \in AllBits : l4[i] # NoL4 => i \in ids /\ h[table[i]].commissioned
  BY <1>2, <1>3 DEF TidsOK
<1> QED BY <1>1, <1>2, <1>4, <1>5 DEF TidsOK, h

\* An L4 thread changes.
LEMMA L4Changes ==
  ASSUME NEW thr, NEW ids, NEW table, NEW l4, TidsOK(thr, ids, table, l4), NEW t \in ThreadObjs,
         thr[t].commissioned, NEW l \in L4Recs
  PROVE  TidsOK(thr, ids, table, Put(l4, thr[t].tid, l))
<1> DEFINE i == thr[t].tid
           m == Put(l4, i, l)
<1>1. i \in AllBits /\ l4[i] # NoL4 /\ l # NoL4
  BY TidTyped, ThreadFacts
<1>2. m \in [AllBits -> L4Recs \cup {NoL4}] /\ \A j \in AllBits : m[j] # NoL4 <=> l4[j] # NoL4
  BY <1>1 DEF TidsOK, Put
<1> HIDE DEF m
<1>3. \A u \in ThreadObjs : thr[u].tid \in AllBits
  BY TidTyped
<1> QED BY <1>2, <1>3 DEF TidsOK, m

\* A thread gets an id, a free one or the one it has, and an L4 thread.
LEMMA L4Appears ==
  ASSUME NEW thr, NEW ids, NEW table, NEW l4, TidsOK(thr, ids, table, l4), NEW t \in ThreadObjs,
         NEW r \in ThrRecs, r.init, r.commissioned, NEW l \in L4Recs,
         IF thr[t].init THEN r.tid = thr[t].tid ELSE r.tid \notin ids
  PROVE  TidsOK(Put(thr, t, r), ids \cup {r.tid}, Put(table, r.tid, t), Put(l4, r.tid, l))
<1> DEFINE h == Put(thr, t, r)
           i == r.tid
           d == ids \cup {i}
           b == Put(table, i, t)
           m == Put(l4, i, l)
<1>0. i \in AllBits /\ l # NoL4 /\ t # NoL4
  BY ThreadFacts DEF ThrRecs
<1>1. h \in [ThreadObjs -> ThrRecs] /\ h[t] = r /\ \A u \in ThreadObjs : u # t => h[u] = thr[u]
  BY DEF TidsOK, Put
<1>2. b \in [AllBits -> ThreadObjs \cup {NoL4}] /\ b[i] = t /\ \A j \in AllBits : j # i => b[j] = table[j]
  BY <1>0 DEF TidsOK, Put
<1>3. m \in [AllBits -> L4Recs \cup {NoL4}] /\ m[i] = l /\ \A j \in AllBits : j # i => m[j] = l4[j]
  BY <1>0 DEF TidsOK, Put
<1>4. d \in SUBSET AllBits
  BY <1>0 DEF TidsOK
<1> HIDE DEF h, i, b, m
<1>5. \A u \in ThreadObjs : u # t /\ thr[u].init => thr[u].tid # i /\ thr[u].tid \in AllBits
  <2> SUFFICES ASSUME NEW u \in ThreadObjs, u # t, thr[u].init, thr[u].tid = i PROVE FALSE
    BY TidTyped
  <2>1. thr[u].tid \in ids /\ table[i] = u
    BY DEF TidsOK
  <2>2. CASE thr[t].init
    BY <2>2, TidsApart DEF i
  <2>3. CASE ~thr[t].init
    BY <2>1, <2>3 DEF i
  <2> QED BY <2>2, <2>3
<1>6. \A j \in ids : j # i => table[j] # t /\ table[j] \in ThreadObjs /\ j \in AllBits
  <2> SUFFICES ASSUME NEW j \in ids, j # i, table[j] = t PROVE FALSE
    BY DEF TidsOK
  <2>1. thr[t].init /\ thr[t].tid = j
    BY DEF TidsOK
  <2> QED BY <2>1 DEF i
<1>7. \A u \in ThreadObjs : h[u].commissioned => h[u].init /\ m[h[u].tid] # NoL4
  <2> SUFFICES ASSUME NEW u \in ThreadObjs, h[u].commissioned PROVE h[u].init /\ m[h[u].tid] # NoL4
    OBVIOUS
  <2>1. CASE u = t
    BY <2>1, <1>0, <1>1, <1>3 DEF i
  <2>2. CASE u # t
    <3>1. thr[u].commissioned /\ thr[u].init /\ l4[thr[u].tid] # NoL4
      BY <2>2, <1>1 DEF TidsOK
    <3> QED BY <2>2, <3>1, <1>1, <1>3, <1>5
  <2> QED BY <2>1, <2>2
<1>8. \A u \in ThreadObjs : h[u].init => b[h[u].tid] = u /\ h[u].tid \in d
  <2> SUFFICES ASSUME NEW u \in ThreadObjs, h[u].init PROVE b[h[u].tid] = u /\ h[u].tid \in d
    OBVIOUS
  <2>1. CASE u = t
    BY <2>1, <1>1, <1>2 DEF i
  <2>2. CASE u # t
    <3>1. thr[u].init /\ table[thr[u].tid] = u /\ thr[u].tid \in ids
      BY <2>2, <1>1 DEF TidsOK
    <3> QED BY <2>2, <3>1, <1>1, <1>2, <1>5
  <2> QED BY <2>1, <2>2
<1>9. \A j \in d : b[j] # NoL4 /\ h[b[j]].init /\ h[b[j]].tid = j
  <2> SUFFICES ASSUME NEW j \in d PROVE b[j] # NoL4 /\ h[b[j]].init /\ h[b[j]].tid = j
    OBVIOUS
  <2>1. CASE j = i
    BY <2>1, <1>0, <1>1, <1>2 DEF i
  <2>2. CASE j # i
    <3>1. j \in ids
      BY <2>2
    <3>2. table[j] # NoL4 /\ thr[table[j]].init /\ thr[table[j]].tid = j
      BY <3>1 DEF TidsOK
    <3> QED BY <2>2, <3>1, <3>2, <1>1, <1>2, <1>6
  <2> QED BY <2>1, <2>2
<1>10. \A j \in AllBits : m[j] # NoL4 => j \in d /\ h[b[j]].commissioned
  <2> SUFFICES ASSUME NEW j \in AllBits, m[j] # NoL4 PROVE j \in d /\ h[b[j]].commissioned
    OBVIOUS
  <2>1. CASE j = i
    BY <2>1, <1>1, <1>2
  <2>2. CASE j # i
    <3>1. l4[j] # NoL4
      BY <2>2, <1>3
    <3>2. j \in ids /\ thr[table[j]].commissioned
      BY <3>1 DEF TidsOK
    <3> QED BY <2>2, <3>2, <1>1, <1>2, <1>6
  <2> QED BY <2>1, <2>2
<1> QED BY <1>1, <1>2, <1>3, <1>4, <1>7, <1>8, <1>9, <1>10 DEF TidsOK, h, b, m, i

\* An object gives up its id and its L4 thread.
LEMMA L4Goes ==
  ASSUME NEW thr, NEW ids, NEW table, NEW l4, TidsOK(thr, ids, table, l4), NEW t \in ThreadObjs,
         thr[t].init, NEW r \in ThrRecs, ~r.init, ~r.commissioned,
         NEW m, m = IF thr[t].commissioned THEN Put(l4, thr[t].tid, NoL4) ELSE l4
  PROVE  TidsOK(Put(thr, t, r), ids \ {thr[t].tid}, Put(table, thr[t].tid, NoL4), m)
<1> DEFINE h == Put(thr, t, r)
           i == thr[t].tid
           d == ids \ {i}
           b == Put(table, i, NoL4)
<1>0. i \in AllBits /\ table[i] = t /\ i \in ids
  BY TidTyped DEF TidsOK
<1>1. h \in [ThreadObjs -> ThrRecs] /\ h[t] = r /\ \A u \in ThreadObjs : u # t => h[u] = thr[u]
  BY DEF TidsOK, Put
<1>2. b \in [AllBits -> ThreadObjs \cup {NoL4}] /\ b[i] = NoL4 /\ \A j \in AllBits : j # i =>
        b[j] = table[j]
  BY <1>0 DEF TidsOK, Put
<1>3. m \in [AllBits -> L4Recs \cup {NoL4}] /\ m[i] = NoL4 /\ \A j \in AllBits : j # i => m[j] = l4[j]
  <2>1. CASE thr[t].commissioned
    BY <2>1, <1>0 DEF TidsOK, Put
  <2>2. CASE ~thr[t].commissioned
    BY <2>2, <1>0 DEF TidsOK
  <2> QED BY <2>1, <2>2
<1>4. d \in SUBSET AllBits
  BY DEF TidsOK
<1>5. \A u \in ThreadObjs : u # t /\ thr[u].init => thr[u].tid # i /\ thr[u].tid \in AllBits
  BY TidsApart, TidTyped
<1> HIDE DEF h, i, b
<1>6. \A j \in ids : j # i => table[j] # t /\ table[j] \in ThreadObjs /\ j \in AllBits
  <2> SUFFICES ASSUME NEW j \in ids, j # i, table[j] = t PROVE FALSE
    BY DEF TidsOK
  <2>1. thr[t].init /\ thr[t].tid = j
    BY DEF TidsOK
  <2> QED BY <2>1 DEF i
<1>7. \A u \in ThreadObjs : h[u].commissioned => h[u].init /\ m[h[u].tid] # NoL4
  <2> SUFFICES ASSUME NEW u \in ThreadObjs, h[u].commissioned PROVE h[u].init /\ m[h[u].tid] # NoL4
    OBVIOUS
  <2>1. u # t
    BY <1>1
  <2>2. thr[u].commissioned /\ thr[u].init /\ l4[thr[u].tid] # NoL4
    BY <2>1, <1>1 DEF TidsOK
  <2> QED BY <2>1, <2>2, <1>1, <1>3, <1>5
<1>8. \A u \in ThreadObjs : h[u].init => b[h[u].tid] = u /\ h[u].tid \in d
  <2> SUFFICES ASSUME NEW u \in ThreadObjs, h[u].init PROVE b[h[u].tid] = u /\ h[u].tid \in d
    OBVIOUS
  <2>1. u # t
    BY <1>1
  <2>2. thr[u].init /\ table[thr[u].tid] = u /\ thr[u].tid \in ids
    BY <2>1, <1>1 DEF TidsOK
  <2> QED BY <2>1, <2>2, <1>1, <1>2, <1>5
<1>9. \A j \in d : b[j] # NoL4 /\ h[b[j]].init /\ h[b[j]].tid = j
  <2> SUFFICES ASSUME NEW j \in d PROVE b[j] # NoL4 /\ h[b[j]].init /\ h[b[j]].tid = j
    OBVIOUS
  <2>1. table[j] # NoL4 /\ thr[table[j]].init /\ thr[table[j]].tid = j
    BY DEF TidsOK
  <2> QED BY <2>1, <1>1, <1>2, <1>6
<1>10. \A j \in AllBits : m[j] # NoL4 => j \in d /\ h[b[j]].commissioned
  <2> SUFFICES ASSUME NEW j \in AllBits, m[j] # NoL4 PROVE j \in d /\ h[b[j]].commissioned
    OBVIOUS
  <2>1. j # i /\ l4[j] # NoL4
    BY <1>3
  <2>2. j \in ids /\ thr[table[j]].commissioned
    BY <2>1 DEF TidsOK
  <2> QED BY <2>1, <2>2, <1>1, <1>2, <1>6
<1> QED BY <1>1, <1>2, <1>3, <1>4, <1>7, <1>8, <1>9, <1>10 DEF TidsOK, h, b, i

Held == [user_handle |-> 0, halted |-> TRUE]

LEMMA PutTwice ==
  ASSUME NEW f, NEW x \in DOMAIN f, NEW v, NEW w
  PROVE  Put(Put(f, x, v), x, w) = Put(f, x, w)
BY DEF Put

LEMMA PutSame ==
  ASSUME NEW S, NEW R, NEW f \in [S -> R], NEW x \in S
  PROVE  Put(f, x, f[x]) = f
BY DEF Put

LEMMA PutAt ==
  ASSUME NEW f, NEW x \in DOMAIN f, NEW v
  PROVE  Put(f, x, v)[x] = v
BY DEF Put

\* The record r is x but for some fields.
SameRest(r, x) == r.user_handle = x.user_handle /\ r.activity = x.activity

LEMMA ThrIs ==
  ASSUME NEW x \in ThrRecs
  PROVE  x = [init |-> x.init, commissioned |-> x.commissioned, tid |-> x.tid,
              user_handle |-> x.user_handle, activity |-> x.activity]
BY DEF ThrRecs

LEMMA NewTid ==
  ASSUME NEW x \in ThrRecs, NEW d \in AllBits
  PROVE  [[x EXCEPT !.tid = d] EXCEPT !.init = TRUE] \in ThrRecs
         /\ [[x EXCEPT !.tid = d] EXCEPT !.init = TRUE].init
         /\ [[x EXCEPT !.tid = d] EXCEPT !.init = TRUE].tid = d
         /\ SameRest([[x EXCEPT !.tid = d] EXCEPT !.init = TRUE], x)
BY DEF ThrRecs, SameRest

\* The state K is that of the parts after t got the id d.
HasId(K, thr, ids, table, l4, t, d) ==
    \E r \in ThrRecs :
       /\ r.init /\ r.tid = d /\ SameRest(r, thr[t])
       /\ K = Threading(Put(thr, t, r), ids \cup {d}, Put(table, d, t), l4)

LEMMA IdentifiedIs ==
  ASSUME NEW thr \in [ThreadObjs -> ThrRecs], NEW ids, NEW table, NEW l4, NEW t \in ThreadObjs,
         NEW d \in AllBits, d = bit_alloc(ids, thread_id_next)
  PROVE  HasId(Identified(Threading(thr, ids, table, l4), t), thr, ids, table, l4, t, d)
<1> DEFINE L == Threading(thr, ids, table, l4)
           K == Identified(L, t)
           x == thr[t]
           r == [[x EXCEPT !.tid = d] EXCEPT !.init = TRUE]
           A == [thr EXCEPT ![t].tid = d, ![t].init = TRUE]
<1>1. K = [L EXCEPT !.ids = @ \cup {d}, !.table[d] = t, !.thr[t].tid = d, !.thr[t].init = TRUE]
  BY DEF Identified, Threading
<1>2. K = Threading(A, ids \cup {d}, Put(table, d, t), l4)
  BY <1>1 DEF Threading, Put
<1>3. A = Put(thr, t, r)
  BY DEF Put
<1>4. r \in ThrRecs /\ r.init /\ r.tid = d /\ SameRest(r, x)
  <2>1. x \in ThrRecs
    OBVIOUS
  <2> HIDE DEF x
  <2> QED BY <2>1, NewTid
<1> HIDE DEF r, A
<1> QED BY <1>2, <1>3, <1>4 DEF HasId

LEMMA NewL4 ==
  ASSUME NEW x \in ThrRecs
  PROVE  [x EXCEPT !.commissioned = TRUE] \in ThrRecs
         /\ [x EXCEPT !.commissioned = TRUE].commissioned
         /\ [x EXCEPT !.commissioned = TRUE].init = x.init
         /\ [x EXCEPT !.commissioned = TRUE].tid = x.tid
         /\ SameRest([x EXCEPT !.commissioned = TRUE], x)
BY DEF ThrRecs, SameRest

\* The state K is that of the parts after t got the id d and the L4 thread l.
HasL4(K, thr, ids, table, l4, t, d, l) ==
    \E r \in ThrRecs :
       /\ r.init /\ r.commissioned /\ r.tid = d /\ SameRest(r, thr[t])
       /\ K = Threading(Put(thr, t, r), ids \cup {d}, Put(table, d, t), Put(l4, d, l))

LEMMA CommissionedIs ==
  ASSUME NEW thr \in [ThreadObjs -> ThrRecs], NEW ids, NEW table \in [AllBits -> ThreadObjs \cup {NoL4}],
         NEW l4, NEW t \in ThreadObjs, NEW d \in AllBits,
         d = IF thr[t].init THEN thr[t].tid ELSE bit_alloc(ids, thread_id_next),
         thr[t].init => d \in ids /\ table[d] = t
  PROVE  HasL4(Commissioned(Threading(thr, ids, table, l4), t), thr, ids, table, l4, t, d, Held)
<1> DEFINE L == Threading(thr, ids, table, l4)
           x == thr[t]
           I == IF L.thr[t].init THEN L ELSE Identified(L, t)
           b == Put(table, d, t)
<1>1. L.thr = thr
  BY DEF Threading
<1>2. PICK y \in ThrRecs : /\ y.init /\ y.tid = d /\ SameRest(y, x)
                           /\ I = Threading(Put(thr, t, y), ids \cup {d}, b, l4)
  <2>1. CASE x.init
    <3>3. Put(thr, t, x) = thr /\ ids \cup {d} = ids /\ b = table
      BY <2>1, PutSame
    <3>4. I = Threading(Put(thr, t, x), ids \cup {d}, b, l4)
      <4>1. I = L
        BY <2>1, <1>1
      <4> HIDE DEF b, x
      <4> QED BY <3>3, <4>1
    <3>5. x \in ThrRecs /\ x.init /\ x.tid = d /\ SameRest(x, x)
      BY <2>1 DEF SameRest
    <3> HIDE DEF b, x, I
    <3> QED BY <3>4, <3>5
  <2>2. CASE ~x.init
    <3>1. d = bit_alloc(ids, thread_id_next)
      BY <2>2
    <3>2. I = Identified(L, t)
      BY <2>2, <1>1
    <3>3. PICK r \in ThrRecs : r.init /\ r.tid = d /\ SameRest(r, x)
              /\ Identified(L, t) = Threading(Put(thr, t, r), ids \cup {d}, b, l4)
      <4>1. HasId(Identified(L, t), thr, ids, table, l4, t, d)
        BY <3>1, IdentifiedIs
      <4> QED BY <4>1 DEF HasId
    <3> QED BY <3>2, <3>3
  <2> QED BY <2>1, <2>2
<1> DEFINE A == Put(thr, t, y)
           r == [y EXCEPT !.commissioned = TRUE]
<1>4. A[t] = y /\ I.thr = A
  <2>1. A[t] = y
    BY PutAt
  <2>2. I.thr = A
    <3> HIDE DEF I, b
    <3> QED BY <1>2 DEF Threading
  <2> QED BY <2>1, <2>2
<1>5. I.thr[t].tid = d
  <2> HIDE DEF I, A
  <2> QED BY <1>4, <1>2
<1>6. Commissioned(L, t) = [I EXCEPT !.thr[t].commissioned = TRUE, !.l4[d] = Held]
  BY <1>5 DEF Commissioned, Held
<1>7. Commissioned(L, t) = Threading([A EXCEPT ![t].commissioned = TRUE], ids \cup {d}, b,
        Put(l4, d, Held))
  <2>1. I = Threading(A, ids \cup {d}, b, l4)
    BY <1>2
  <2> HIDE DEF A, b, I
  <2> QED BY <1>6, <2>1 DEF Threading, Put
<1>8. [A EXCEPT ![t].commissioned = TRUE] = Put(thr, t, r)
  <2>2. [A EXCEPT ![t].commissioned = TRUE] = Put(A, t, r)
    <3> HIDE DEF A
    <3> QED BY <1>4 DEF Put
  <2>3. Put(A, t, r) = Put(thr, t, r)
    <3> HIDE DEF r
    <3> QED BY PutTwice
  <2> QED BY <2>2, <2>3
<1>9. r \in ThrRecs /\ r.init /\ r.commissioned /\ r.tid = d /\ SameRest(r, x)
  <2>1. r \in ThrRecs /\ r.commissioned /\ r.init = y.init /\ r.tid = y.tid /\ SameRest(r, y)
    BY NewL4
  <2> HIDE DEF r, x
  <2> QED BY <2>1, <1>2 DEF SameRest
<1> HIDE DEF r, A
<1> QED BY <1>7, <1>8, <1>9 DEF HasL4

\* What an L4 thread becomes.
Exchanged(l, c) ==
    [user_handle |-> IF c.set THEN c.user_handle ELSE l.user_handle,
     halted |-> IF c.halt = "keep" THEN l.halted ELSE c.halt = "stop"]

LEMMA ExchangeIs ==
  ASSUME NEW thr, NEW ids, NEW table, NEW l4, NEW t, NEW c
  PROVE  Exchange(Threading(thr, ids, table, l4), t, c) =
           Threading(thr, ids, table, Put(l4, thr[t].tid, Exchanged(l4[thr[t].tid], c)))
<1> DEFINE L == Threading(thr, ids, table, l4)
           d == thr[t].tid
           n == Exchanged(l4[d], c)
<1>1. L.thr = thr /\ L.l4 = l4
  BY DEF Threading
<1>2. Exchange(L, t, c) = [L EXCEPT !.l4[d] = n]
  BY <1>1 DEF Exchange, Exchanged
<1>3. [L EXCEPT !.l4[d] = n] = Threading(thr, ids, table, Put(l4, d, n))
  <2> HIDE DEF n, d
  <2> QED BY DEF Threading, Put
<1> QED BY <1>2, <1>3

Blanked(L, t) == [Deinitialised(L, t) EXCEPT !.thr[t] = BlankThread]

LEMMA DeinitialisedIs ==
  ASSUME NEW thr \in [ThreadObjs -> ThrRecs], NEW ids, NEW table, NEW l4, NEW t \in ThreadObjs,
         thr[t].init, NEW d, d = thr[t].tid, NEW m,
         m = IF thr[t].commissioned THEN Put(l4, d, NoL4) ELSE l4
  PROVE  Blanked(Threading(thr, ids, table, l4), t) =
           Threading(Put(thr, t, BlankThread), ids \ {d}, Put(table, d, NoL4), m)
<1> DEFINE L == Threading(thr, ids, table, l4)
           D == IF L.thr[t].commissioned THEN Decommissioned(L, t) ELSE L
           A == IF thr[t].commissioned THEN [thr EXCEPT ![t].commissioned = FALSE] ELSE thr
           b == Put(table, d, NoL4)
           F == FALSE
<1>1. L.thr = thr
  BY DEF Threading
<1>2. D = Threading(A, ids, table, m)
  <2>1. CASE thr[t].commissioned
    <3>1. D = [L EXCEPT !.thr[t].commissioned = FALSE, !.l4[d] = NoL4]
      BY <1>1, <2>1 DEF Decommissioned
    <3> QED BY <2>1, <3>1 DEF Threading, Put
  <2>2. CASE ~thr[t].commissioned
    BY <2>2, <1>1
  <2> QED BY <2>1, <2>2
<1>3. A[t].tid = d /\ DOMAIN A = ThreadObjs /\ \A u \in ThreadObjs : u # t => A[u] = thr[u]
  <2>1. CASE thr[t].commissioned
    <3> DEFINE x == thr[t]
    <3>1. A[t] = [x EXCEPT !.commissioned = FALSE]
      BY <2>1
    <3>2. [x EXCEPT !.commissioned = F].tid = d
      <4>1. x = [init |-> x.init, commissioned |-> x.commissioned, tid |-> d,
              user_handle |-> x.user_handle, activity |-> x.activity]
        BY ThrIs
      <4> HIDE DEF F, x
      <4> QED BY <4>1
    <3> QED BY <3>1, <3>2, <2>1
  <2>2. CASE ~thr[t].commissioned
    BY <2>2
  <2> QED BY <2>1, <2>2
<1>4. D.thr[t].tid = d
  <2> HIDE DEF A, D
  <2> QED BY <1>2, <1>3 DEF Threading
<1>5. Deinitialised(L, t) = [D EXCEPT !.ids = @ \ {d}, !.table[d] = NoL4, !.thr[t].init = FALSE]
  <2>1. D = IF L.thr[t].commissioned THEN Decommissioned(L, t) ELSE L
    OBVIOUS
  <2> HIDE DEF D
  <2> QED BY <1>1, <1>4, <2>1 DEF Deinitialised
<1> DEFINE B == [A EXCEPT ![t].init = FALSE]
<1>6. Deinitialised(L, t) = Threading(B, ids \ {d}, b, m)
  <2> HIDE DEF D, A
  <2> QED BY <1>2, <1>5 DEF Threading, Put
<1>7. DOMAIN B = ThreadObjs /\ \A u \in ThreadObjs : u # t => B[u] = thr[u]
  <2> HIDE DEF A
  <2> QED BY <1>3
<1>8. [B EXCEPT ![t] = BlankThread] = Put(thr, t, BlankThread)
  <2> DEFINE P == [B EXCEPT ![t] = BlankThread]
             Q == [thr EXCEPT ![t] = BlankThread]
  <2> HIDE DEF B
  <2>1. P = [u \in ThreadObjs |-> IF u = t THEN BlankThread ELSE B[u]]
    BY <1>7
  <2>2. Q = [u \in ThreadObjs |-> IF u = t THEN BlankThread ELSE thr[u]]
    OBVIOUS
  <2> QED BY <2>1, <2>2, <1>7 DEF Put
<1>9. [Deinitialised(L, t) EXCEPT !.thr[t] = BlankThread] = Threading([B EXCEPT ![t] = BlankThread],
        ids \ {d}, b, m)
  <2> DEFINE X == Deinitialised(L, t)
             z == BlankThread
             i == ids \ {d}
  <2>1. X = Threading(B, i, b, m)
    BY <1>6
  <2> HIDE DEF B, b, X, z, i
  <2>2. [X EXCEPT !.thr[t] = z] = Threading([B EXCEPT ![t] = z], i, b, m)
    BY <2>1 DEF Threading
  <2> QED BY <2>2 DEF X, z, i
<1> QED BY <1>8, <1>9 DEF Blanked

-----------------------------------------------------------------------------
\* What the client concludes holds: of a thread with an L4 thread, of one
\* without, and of one that gets it.
LEMMA ConcludedTyped ==
  ASSUME NEW v \in Views, NEW c \in Controls
  PROVE  Concluded(v, c) \in Views
BY DEF Views, Controls, Concluded

LEMMA ConcludedRunning ==
  ASSUME NEW v \in Views, NEW c \in Controls, NEW x \in ThrRecs, NEW l \in L4Recs, NEW q \in ThrRecs,
         Seen(x, l, v), x.commissioned, q.commissioned, q.activity = (x.activity \/ c.activity)
  PROVE  Seen(q, Exchanged(l, c), Concluded(v, c)) /\ Exchanged(l, c) \in L4Recs
BY DEF Views, Controls, Concluded, Seen, Exchanged, ThrRecs, L4Recs

LEMMA ConcludedKept ==
  ASSUME NEW v \in Views, NEW c \in Controls, NEW x \in ThrRecs, NEW l, NEW m, NEW q \in ThrRecs,
         Seen(x, l, v), ~x.commissioned, ~q.commissioned, q.activity = (x.activity \/ c.activity),
         q.user_handle = IF c.set THEN c.user_handle ELSE x.user_handle,
         c.halt = "keep" \/ ~q.activity
  PROVE  Seen(q, m, Concluded(v, c))
<1> DEFINE w == Concluded(v, c)
<1>1. v.run = "no" /\ v.activity = x.activity /\ v.user_handle = x.user_handle
  BY DEF Seen
<1>2. w.activity = q.activity /\ w.user_handle = q.user_handle
  BY <1>1 DEF Concluded
<1>3. c.halt = "keep" \/ (v.run = "no" /\ ~(v.activity \/ c.activity))
  BY <1>1 DEF Views, Controls, ThrRecs
<1>4. w.run = "no"
  BY <1>1, <1>3 DEF Concluded, Controls
<1> QED BY <1>2, <1>4 DEF Seen

LEMMA ConcludedStarted ==
  ASSUME NEW v \in Views, NEW c \in Controls, NEW x \in ThrRecs, NEW l, NEW m \in L4Recs,
         NEW q \in ThrRecs,
         Seen(x, l, v), ~x.commissioned, q.commissioned, q.activity = (x.activity \/ c.activity),
         m.user_handle = IF c.set THEN c.user_handle ELSE x.user_handle,
         m.halted <=> c.halt = "stop", c.halt # "keep", q.activity
  PROVE  Seen(q, m, Concluded(v, c))
<1> DEFINE w == Concluded(v, c)
<1>1. v.run = "no" /\ v.activity = x.activity /\ v.user_handle = x.user_handle
  BY DEF Seen
<1>2. (v.activity \/ c.activity) = TRUE
  BY <1>1 DEF Views, Controls
<1>3. w.activity = q.activity /\ w.user_handle = m.user_handle
  BY <1>1 DEF Concluded
<1>4. CASE c.halt = "start"
  <2>1. w.run = "running" /\ ~m.halted
    BY <1>2, <1>4 DEF Concluded
  <2> QED BY <2>1, <1>3 DEF Seen
<1>5. CASE c.halt = "stop"
  <2>1. w.run = "halted" /\ m.halted
    BY <1>2, <1>5 DEF Concluded
  <2> QED BY <2>1, <1>3 DEF Seen
<1> QED BY <1>4, <1>5 DEF Controls

LEMMA OthersKept ==
  ASSUME NEW thr, NEW ids, NEW table, NEW l4, TidsOK(thr, ids, table, l4), NEW t \in ThreadObjs,
         NEW d \in AllBits, NEW n, IF thr[t].init THEN d = thr[t].tid ELSE d \notin ids
  PROVE  \A u \in ThreadObjs : u # t /\ thr[u].commissioned =>
            Put(l4, d, n)[thr[u].tid] = l4[thr[u].tid]
<1> SUFFICES ASSUME NEW u \in ThreadObjs, u # t, thr[u].commissioned
             PROVE  Put(l4, d, n)[thr[u].tid] = l4[thr[u].tid]
  OBVIOUS
<1>1. thr[u].init /\ thr[u].tid \in AllBits /\ thr[u].tid \in ids /\ DOMAIN l4 = AllBits
  BY TidTyped DEF TidsOK
<1>2. thr[u].tid # d
  <2>1. CASE thr[t].init
    BY <2>1, <1>1, TidsApart
  <2>2. CASE ~thr[t].init
    BY <2>2, <1>1
  <2> QED BY <2>1, <2>2
<1> QED BY <1>1, <1>2 DEF Put

LEMMA SeenSet ==
  ASSUME NEW thr, NEW ids, NEW table, NEW l4, TidsOK(thr, ids, table, l4), NEW R, SeenOK(thr, l4, R),
         NEW t \in ThreadObjs, NEW r, NEW m, NEW v \in Views, Seen(r, m[r.tid], v),
         \A u \in ThreadObjs : u # t /\ thr[u].commissioned => m[thr[u].tid] = l4[thr[u].tid]
  PROVE  SeenOK(Put(thr, t, r), m, Put(R, t, v))
<1> DEFINE h == Put(thr, t, r)
           Q == Put(R, t, v)
<1>1. h[t] = r /\ \A u \in ThreadObjs : u # t => h[u] = thr[u]
  BY DEF TidsOK, Put
<1>2. Q \in [ThreadObjs -> Views] /\ Q[t] = v /\ \A u \in ThreadObjs : u # t => Q[u] = R[u]
  BY DEF SeenOK, Put
<1> HIDE DEF h, Q
<1>3. ASSUME NEW u \in ThreadObjs PROVE Seen(h[u], m[h[u].tid], Q[u])
  <2>1. CASE u = t
    BY <2>1, <1>1, <1>2
  <2>2. CASE u # t
    <3>1. Seen(thr[u], l4[thr[u].tid], R[u])
      BY DEF SeenOK
    <3>2. Seen(thr[u], m[thr[u].tid], R[u])
      <4>1. CASE thr[u].commissioned
        BY <4>1, <3>1, <2>2
      <4>2. CASE ~thr[u].commissioned
        BY <4>2, <3>1 DEF Seen
      <4> QED BY <4>1, <4>2
    <3> QED BY <2>2, <3>2, <1>1, <1>2
  <2> QED BY <2>1, <2>2
<1> QED BY <1>2, <1>3 DEF SeenOK, h, Q

LEMMA ActivitySet ==
  ASSUME NEW x \in ThrRecs, NEW a \in BOOLEAN, NEW q, q = [x EXCEPT !.activity = a]
  PROVE  q \in ThrRecs /\ q.init = x.init /\ q.commissioned = x.commissioned /\ q.tid = x.tid
         /\ q.user_handle = x.user_handle /\ q.activity = a
BY DEF ThrRecs

LEMMA HandleSet ==
  ASSUME NEW x \in ThrRecs, NEW a \in Handles, NEW q, q = [x EXCEPT !.user_handle = a]
  PROVE  q \in ThrRecs /\ q.init = x.init /\ q.commissioned = x.commissioned /\ q.tid = x.tid
         /\ q.user_handle = a /\ q.activity = x.activity
BY DEF ThrRecs

\* thread_exregs.
LEMMA ExRegsStep ==
  ASSUME ThreadInv, NEW t \in ThreadObjs, NEW c \in Controls, ExRegs(t, c)
  PROVE  ThreadInv'
<1> DEFINE thr == lib.thr
           ids == lib.ids
           table == lib.table
           l4 == lib.l4
           x == thr[t]
           v == ref[t]
           w == Concluded(v, c)
           q == [x EXCEPT !.activity = x.activity \/ c.activity]
           L == Threading(Put(thr, t, q), ids, table, l4)
           g == Put(thr, t, q)
<1>1. lib = Threading(thr, ids, table, l4) /\ TidsOK(thr, ids, table, l4) /\ SeenOK(thr, l4, ref)
  BY DEF ThreadInv
<1>2. x \in ThrRecs /\ x.tid \in AllBits /\ x.init \in BOOLEAN /\ x.commissioned \in BOOLEAN
      /\ x.user_handle \in Handles /\ x.activity \in BOOLEAN
      /\ (x.commissioned => x.init /\ l4[x.tid] \in L4Recs)
  BY <1>1, TidTyped
<1>3. v \in Views /\ Seen(x, l4[x.tid], v) /\ w \in Views /\ DOMAIN ref = ThreadObjs
  BY <1>1, ConcludedTyped DEF SeenOK
<1>4. q \in ThrRecs /\ q.init = x.init /\ q.commissioned = x.commissioned /\ q.tid = x.tid
         /\ q.user_handle = x.user_handle /\ q.activity = (x.activity \/ c.activity)
  <2> DEFINE z == x.activity \/ c.activity
  <2>1. z \in BOOLEAN /\ q = [x EXCEPT !.activity = z]
    OBVIOUS
  <2>2. q \in ThrRecs /\ q.init = x.init /\ q.commissioned = x.commissioned /\ q.tid = x.tid
         /\ q.user_handle = x.user_handle /\ q.activity = z
    <3> HIDE DEF x, z, q
    <3> QED BY <2>1, <1>2, ActivitySet
  <2> QED BY <2>2
<1>5. [lib EXCEPT !.thr[t].activity = @ \/ c.activity] = L
  <2>1. [lib EXCEPT !.thr[t].activity = @ \/ c.activity]
          = [Threading(thr, ids, table, l4) EXCEPT !.thr[t].activity = x.activity \/ c.activity]
    BY <1>1
  <2> DEFINE z == x.activity \/ c.activity
  <2>2. [Threading(thr, ids, table, l4) EXCEPT !.thr[t].activity = z]
          = Threading(Put(thr, t, [thr[t] EXCEPT !.activity = z]), ids, table, l4)
    <3> HIDE DEF z, thr, ids, table, l4
    <3> QED BY DEF Threading, Put
  <2> QED BY <2>1, <2>2
<1>6. /\ x.init \/ ids # AllBits
      /\ lib' = IF L.thr[t].commissioned THEN Exchange(L, t, c) ELSE ExchangeKept(L, t, c)
      /\ ref' = Put(ref, t, w)
  BY <1>5 DEF ExRegs, Becomes, Put
<1>7. L.thr = g /\ g[t] = q /\ DOMAIN thr = ThreadObjs /\ g \in [ThreadObjs -> ThrRecs]
  BY <1>1, <1>4 DEF Threading, Put, TidsOK
<1>8. TidsOK(g, ids, table, l4)
  <2> HIDE DEF thr, ids, table, l4, q
  <2> QED BY <1>1, <1>4, FieldsChange
<1> HIDE DEF thr, ids, table, l4, x, v, w, q
<1>9. CASE q.commissioned
  <2> DEFINE d == x.tid
             n == Exchanged(l4[d], c)
             m == Put(l4, d, n)
  <2>1. x.commissioned /\ x.init /\ l4[d] \in L4Recs /\ g[t].tid = d /\ g[t].commissioned
    BY <1>2, <1>4, <1>7, <1>9
  <2>2. lib' = Exchange(Threading(g, ids, table, l4), t, c)
    BY <1>6, <1>7, <1>9
  <2>3. lib' = Threading(g, ids, table, m)
    <3> HIDE DEF g
    <3> QED BY <2>1, <2>2, ExchangeIs
  <2>4. Seen(q, n, w) /\ n \in L4Recs
    <3>1. Seen(x, l4[d], v) /\ q \in ThrRecs /\ q.activity = (x.activity \/ c.activity)
      BY <1>3, <1>4
    <3> HIDE DEF n, d
    <3> QED BY <3>1, <2>1, <1>2, <1>3, <1>9, ConcludedRunning DEF w, n
  <2>5. TidsOK(g, ids, table, m)
    <3> HIDE DEF n, g, d
    <3> QED BY <2>1, <2>4, <1>8, L4Changes
  <2>6. m[q.tid] = n
    BY <1>1, <1>2, <1>4 DEF TidsOK, Put
  <2>7. \A u \in ThreadObjs : u # t /\ thr[u].commissioned => m[thr[u].tid] = l4[thr[u].tid]
    <3> HIDE DEF n
    <3> QED BY <1>1, <1>2, <2>1, OthersKept DEF x
  <2>8. SeenOK(g, m, Put(ref, t, w))
    <3> HIDE DEF n, m, d
    <3> QED BY <1>1, <1>3, <2>4, <2>6, <2>7, SeenSet
  <2> HIDE DEF g, m
  <2> QED BY <1>6, <2>3, <2>5, <2>8, ThreadSet
<1> DEFINE h == IF c.set THEN c.user_handle ELSE q.user_handle
           k == [q EXCEPT !.user_handle = h]
           e == Put(thr, t, k)
           K == Threading(e, ids, table, l4)
<1>12. k \in ThrRecs /\ k.init = x.init /\ k.commissioned = x.commissioned /\ k.tid = x.tid
         /\ k.user_handle = h /\ k.activity = (x.activity \/ c.activity)
         /\ k.activity = q.activity
  <2>1. h \in Handles /\ k = [q EXCEPT !.user_handle = h]
    BY <1>2, <1>4 DEF Controls
  <2>2. k \in ThrRecs /\ k.init = q.init /\ k.commissioned = q.commissioned /\ k.tid = q.tid
         /\ k.user_handle = h /\ k.activity = q.activity
    <3> HIDE DEF h, k
    <3> QED BY <2>1, <1>4, HandleSet
  <2> QED BY <2>2, <1>4
<1>13. [L EXCEPT !.thr[t].user_handle = IF c.set THEN c.user_handle ELSE @] = K
  <2>1. [L EXCEPT !.thr[t].user_handle = IF c.set THEN c.user_handle ELSE @]
          = [L EXCEPT !.thr[t].user_handle = h]
    BY <1>7
  <2>2. [L EXCEPT !.thr[t].user_handle = h] = Threading([g EXCEPT ![t].user_handle = h], ids, table, l4)
    <3>1. L = Threading(g, ids, table, l4)
      OBVIOUS
    <3> HIDE DEF g, h, L
    <3> QED BY <3>1 DEF Threading
  <2>3. [g EXCEPT ![t].user_handle = h] = Put(g, t, k)
    <3> HIDE DEF h, g
    <3> QED BY <1>7 DEF Put
  <2>4. Put(g, t, k) = e
    <3> HIDE DEF k
    <3> QED BY <1>7, PutTwice
  <2> QED BY <2>1, <2>2, <2>3, <2>4
<1>14. ASSUME ~q.commissioned
       PROVE  lib' = IF c.halt = "keep" \/ ~q.activity THEN K
                     ELSE Exchange(Commissioned(K, t), t,
                       [c EXCEPT !.set = TRUE, !.user_handle = k.user_handle])
  <2>1. lib' = ExchangeKept(L, t, c)
    BY <1>6, <1>7, <1>14
  <2>2. K.thr[t] = k
    <3>1. K.thr = e
      BY DEF Threading
    <3>2. e[t] = k
      <4> HIDE DEF k
      <4> QED BY <1>7, PutAt
    <3> QED BY <3>1, <3>2
  <2> DEFINE X == [L EXCEPT !.thr[t].user_handle = IF c.set THEN c.user_handle ELSE @]
  <2>3. ExchangeKept(L, t, c) =
          IF c.halt = "keep" \/ ~X.thr[t].activity THEN X
          ELSE Exchange(Commissioned(X, t), t,
            [c EXCEPT !.set = TRUE, !.user_handle = X.thr[t].user_handle])
    BY Zenon DEF ExchangeKept
  <2>4. X = K
    BY <1>13
  <2>5. k.activity = q.activity
    BY <1>12
  <2> HIDE DEF K, L, k, X
  <2>6. X.thr[t] = k
    BY <2>2, <2>4
  <2> QED BY <2>1, <2>3, <2>4, <2>5, <2>6
<1>15. TidsOK(e, ids, table, l4) /\ e \in [ThreadObjs -> ThrRecs] /\ e[t] = k
  <2> HIDE DEF k
  <2>1. TidsOK(e, ids, table, l4)
    BY <1>1, <1>12, FieldsChange DEF x
  <2> QED BY <2>1, <1>7, PutAt DEF TidsOK
<1>16. k.user_handle = IF c.set THEN c.user_handle ELSE x.user_handle
  BY <1>4, <1>12
<1> HIDE DEF h, k, g, L
<1>10. CASE ~q.commissioned /\ (c.halt = "keep" \/ ~q.activity)
  <2>1. lib' = K
    BY <1>10, <1>14
  <2>2. Seen(k, l4[k.tid], w)
    BY <1>2, <1>3, <1>4, <1>10, <1>12, <1>16, ConcludedKept DEF w
  <2>3. SeenOK(e, l4, Put(ref, t, w))
    BY <1>1, <1>3, <2>2, SeenSet
  <2> HIDE DEF e
  <2> QED BY <1>6, <2>1, <2>3, <1>15, ThreadSet
<1>11. CASE ~q.commissioned /\ c.halt # "keep" /\ q.activity
  <2> DEFINE c2 == [c EXCEPT !.set = TRUE, !.user_handle = k.user_handle]
             d == IF x.init THEN x.tid ELSE bit_alloc(ids, thread_id_next)
             n == Exchanged(Held, c2)
             m == Put(l4, d, n)
  <2>1. lib' = Exchange(Commissioned(K, t), t, c2)
    BY <1>11, <1>14
  <2>2. d \in AllBits /\ (IF x.init THEN d = x.tid ELSE d \notin ids)
    <3>1. CASE x.init
      BY <3>1, <1>2
    <3>2. CASE ~x.init
      <4>1. ids # AllBits /\ ids \in SUBSET AllBits /\ thread_id_next \in AllBits
        BY <3>2, <1>1, <1>6, ThreadFacts DEF TidsOK, thread_id_next
      <4> QED BY <3>2, <4>1, BitFree
    <3> QED BY <3>1, <3>2
  <2>3. HasL4(Commissioned(K, t), e, ids, table, l4, t, d, Held)
    <3>1. table \in [AllBits -> ThreadObjs \cup {NoL4}] /\ e[t].init = x.init /\ e[t].tid = x.tid
      BY <1>1, <1>12, <1>15 DEF TidsOK
    <3>2. e[t].init => d \in ids /\ table[d] = t
      BY <3>1, <1>1, <2>2 DEF TidsOK, x
    <3>3. d = IF e[t].init THEN e[t].tid ELSE bit_alloc(ids, thread_id_next)
      BY <3>1
    <3> HIDE DEF d, e
    <3> QED BY <3>1, <3>2, <3>3, <2>2, <1>15, CommissionedIs
  <2>4. PICK r \in ThrRecs :
          /\ r.init /\ r.commissioned /\ r.tid = d /\ SameRest(r, e[t])
          /\ Commissioned(K, t) = Threading(Put(e, t, r), ids \cup {d}, Put(table, d, t),
               Put(l4, d, Held))
    BY <2>3 DEF HasL4
  <2> DEFINE f == Put(thr, t, r)
             b == Put(table, d, t)
             j == ids \cup {d}
  <2>5. Put(e, t, r) = f /\ f[t] = r
    <3> HIDE DEF k
    <3> QED BY <1>7, PutTwice, PutAt
  <2>6. Commissioned(K, t) = Threading(f, j, b, Put(l4, d, Held))
    BY <2>4, <2>5
  <2>7. Put(Put(l4, d, Held), d, n) = m /\ Put(l4, d, Held)[d] = Held /\ m[d] = n
    <3>1. d \in DOMAIN l4
      BY <2>2, <1>1 DEF TidsOK
    <3> HIDE DEF n, d
    <3> QED BY <3>1, PutTwice, PutAt
  <2>8. lib' = Threading(f, j, b, m)
    <3> DEFINE o == Put(l4, d, Held)
    <3>1. lib' = Exchange(Threading(f, j, b, o), t, c2)
      BY <2>1, <2>6
    <3>2. f[t].tid = d /\ o[d] = Held /\ Put(o, d, n) = m
      BY <2>4, <2>5, <2>7
    <3>3. Exchange(Threading(f, j, b, o), t, c2)
            = Threading(f, j, b, Put(o, f[t].tid, Exchanged(o[f[t].tid], c2)))
      <4> HIDE DEF f, j, b, o, c2
      <4> QED BY ExchangeIs
    <3>4. n = Exchanged(o[f[t].tid], c2)
      BY <3>2
    <3> HIDE DEF f, j, b, o, c2, n, m, d
    <3> QED BY <3>1, <3>2, <3>3, <3>4
  <2>9. n \in L4Recs /\ n.user_handle = k.user_handle /\ (n.halted <=> c.halt = "stop")
    <3>1. c2.set /\ c2.user_handle = k.user_handle /\ c2.halt = c.halt
      BY DEF Controls
    <3>2. k.user_handle \in Handles
      BY <1>12 DEF ThrRecs
    <3> HIDE DEF c2
    <3> QED BY <3>1, <3>2, <1>11 DEF Exchanged, L4Recs
  <2>10. TidsOK(f, j, b, m)
    <3>1. IF thr[t].init THEN r.tid = thr[t].tid ELSE r.tid \notin ids
      BY <2>2, <2>4 DEF x
    <3>2. r.tid = d
      BY <2>4
    <3>3. TidsOK(Put(thr, t, r), ids \cup {r.tid}, Put(table, r.tid, t), Put(l4, r.tid, n))
      <4> HIDE DEF n, d
      <4> QED BY <3>1, <2>4, <2>9, <1>1, L4Appears
    <3> HIDE DEF d, n
    <3> QED BY <3>2, <3>3
  <2>11. Seen(r, m[r.tid], w)
    <3>1. r.activity = (x.activity \/ c.activity) /\ r.activity
      BY <2>4, <1>11, <1>12, <1>15 DEF SameRest
    <3>2. n.user_handle = IF c.set THEN c.user_handle ELSE x.user_handle
      BY <2>9, <1>16
    <3>3. Seen(r, n, w)
      <4>1. ~x.commissioned
        BY <1>11, <1>4
      <4> HIDE DEF n, d
      <4> QED BY <3>1, <3>2, <4>1, <2>4, <2>9, <1>2, <1>3, <1>11, ConcludedStarted DEF w
    <3> QED BY <3>3, <2>4, <2>7
  <2>12. \A u \in ThreadObjs : u # t /\ thr[u].commissioned => m[thr[u].tid] = l4[thr[u].tid]
    <3>1. IF thr[t].init THEN d = thr[t].tid ELSE d \notin ids
      BY <2>2 DEF x
    <3> HIDE DEF n, d
    <3> QED BY <1>1, <2>2, <3>1, OthersKept
  <2>13. SeenOK(f, m, Put(ref, t, w))
    <3> HIDE DEF m, d
    <3> QED BY <1>1, <1>3, <2>11, <2>12, SeenSet
  <2> HIDE DEF f, m, b, j
  <2> QED BY <1>6, <2>8, <2>10, <2>13, ThreadSet
<1> QED BY <1>9, <1>10, <1>11

LEMMA BlankIs ==
  BlankThread \in ThrRecs /\ ~BlankThread.init /\ ~BlankThread.commissioned
  /\ Unknown \in Views /\ \A l : Seen(BlankThread, l, Unknown)
<1>1. BlankThread \in ThrRecs /\ ~BlankThread.init /\ ~BlankThread.commissioned
  BY ThreadFacts DEF BlankThread, ThrRecs
<1>2. Unknown \in Views
  BY ThreadFacts DEF Unknown, Views
<1>3. \A l : Seen(BlankThread, l, Unknown)
  BY DEF BlankThread, Unknown, Seen
<1> QED BY <1>1, <1>2, <1>3

\* folio_object_alloc.
LEMMA AllocateStep ==
  ASSUME ThreadInv, NEW t \in ThreadObjs, Allocate(t)
  PROVE  ThreadInv'
<1> DEFINE thr == lib.thr
           ids == lib.ids
           table == lib.table
           l4 == lib.l4
           d == thr[t].tid
           r == BlankThread
           h == Put(thr, t, r)
<1>1. lib = Threading(thr, ids, table, l4) /\ TidsOK(thr, ids, table, l4) /\ SeenOK(thr, l4, ref)
  BY DEF ThreadInv
<1>2. thr \in [ThreadObjs -> ThrRecs] /\ d \in AllBits /\ l4 \in [AllBits -> L4Recs \cup {NoL4}]
  <2>1. thr \in [ThreadObjs -> ThrRecs] /\ l4 \in [AllBits -> L4Recs \cup {NoL4}]
    BY <1>1 DEF TidsOK
  <2> QED BY <1>1, <2>1, TidTyped
<1>3. /\ lib' = Blanked(Threading(thr, ids, table, l4), t)
      /\ ref' = Put(ref, t, Unknown)
  BY <1>1 DEF Allocate, Becomes, Put, Blanked
<1> HIDE DEF thr, ids, table, l4
<1>4. CASE thr[t].init
  <2> DEFINE m == IF thr[t].commissioned THEN Put(l4, d, NoL4) ELSE l4
             b == Put(table, d, NoL4)
             j == ids \ {d}
  <2>1. lib' = Threading(h, j, b, m)
    <3>1. m = IF thr[t].commissioned THEN Put(l4, d, NoL4) ELSE l4
      OBVIOUS
    <3>2. d = thr[t].tid
      OBVIOUS
    <3> HIDE DEF m, d
    <3> QED BY <1>2, <1>3, <1>4, <3>1, <3>2, DeinitialisedIs
  <2>2. TidsOK(h, j, b, m)
    <3> HIDE DEF r
    <3> QED BY <1>1, <1>4, BlankIs, L4Goes DEF r
  <2>3. \A u \in ThreadObjs : u # t /\ thr[u].commissioned => m[thr[u].tid] = l4[thr[u].tid]
    <3>1. \A u \in ThreadObjs : u # t /\ thr[u].commissioned =>
            Put(l4, d, NoL4)[thr[u].tid] = l4[thr[u].tid]
      BY <1>1, <1>2, <1>4, OthersKept
    <3> QED BY <3>1
  <2>4. Seen(r, m[r.tid], Unknown) /\ Unknown \in Views
    BY BlankIs
  <2>5. SeenOK(h, m, Put(ref, t, Unknown))
    <3> HIDE DEF m, r
    <3> QED BY <1>1, <2>3, <2>4, SeenSet
  <2> HIDE DEF h, m, b, j
  <2> QED BY <1>3, <2>1, <2>2, <2>5, ThreadSet
<1>5. CASE ~thr[t].init
  <2>1. lib' = Threading(h, ids, table, l4)
    <3> DEFINE L == Threading(thr, ids, table, l4)
    <3>1. Deinitialised(L, t) = L
      BY <1>5 DEF Deinitialised, Threading
    <3>2. lib' = [L EXCEPT !.thr[t] = BlankThread]
      BY <1>3, <3>1 DEF Blanked
    <3> QED BY <3>2 DEF Threading, Put
  <2>2. ~thr[t].commissioned /\ r \in ThrRecs /\ r.init = thr[t].init
          /\ r.commissioned = thr[t].commissioned
    <3>1. ~thr[t].commissioned /\ thr[t].init \in BOOLEAN /\ thr[t].commissioned \in BOOLEAN
      BY <1>5, <1>1, TidTyped
    <3>2. r \in ThrRecs /\ ~r.init /\ ~r.commissioned /\ r.init \in BOOLEAN /\ r.commissioned \in BOOLEAN
      BY BlankIs DEF ThrRecs
    <3> HIDE DEF r
    <3> QED BY <3>1, <3>2, <1>5
  <2>3. TidsOK(h, ids, table, l4)
    <3> HIDE DEF r
    <3> QED BY <1>1, <1>5, <2>2, FieldsChange
  <2>4. Seen(r, l4[r.tid], Unknown) /\ Unknown \in Views
    BY BlankIs
  <2>5. SeenOK(h, l4, Put(ref, t, Unknown))
    <3> HIDE DEF r
    <3> QED BY <1>1, <2>4, SeenSet
  <2> HIDE DEF h
  <2> QED BY <1>3, <2>1, <2>3, <2>5, ThreadSet
<1> QED BY <1>4, <1>5

\* The activity of a thread is destroyed.
LEMMA ActivityGoneStep ==
  ASSUME ThreadInv, NEW t \in ThreadObjs, ActivityGone(t)
  PROVE  ThreadInv'
<1> DEFINE thr == lib.thr
           ids == lib.ids
           table == lib.table
           l4 == lib.l4
           x == thr[t]
           F == FALSE
           q == [x EXCEPT !.activity = F]
           v == ref[t]
           w == [v EXCEPT !.activity = F]
           h == Put(thr, t, q)
<1>1. lib = Threading(thr, ids, table, l4) /\ TidsOK(thr, ids, table, l4) /\ SeenOK(thr, l4, ref)
  BY DEF ThreadInv
<1>2. x \in ThrRecs /\ v \in Views /\ Seen(x, l4[x.tid], v)
  BY <1>1, TidTyped DEF SeenOK
<1>3. q \in ThrRecs /\ q.init = x.init /\ q.commissioned = x.commissioned /\ q.tid = x.tid
         /\ q.user_handle = x.user_handle /\ q.activity = F
  <2>1. F \in BOOLEAN /\ q = [x EXCEPT !.activity = F]
    OBVIOUS
  <2> HIDE DEF x, F, q
  <2> QED BY <2>1, <1>2, ActivitySet
<1>4. w \in Views /\ w.activity = F /\ w.user_handle = v.user_handle /\ w.run = v.run
  <2> HIDE DEF v
  <2> QED BY <1>2 DEF Views
<1>5. lib' = Threading(h, ids, table, l4) /\ ref' = Put(ref, t, w)
  <2>1. lib' = [Threading(thr, ids, table, l4) EXCEPT !.thr[t].activity = F]
          /\ ref' = [ref EXCEPT ![t].activity = F]
    BY <1>1 DEF ActivityGone, Becomes
  <2> HIDE DEF F, thr, ids, table, l4
  <2> QED BY <2>1 DEF Threading, Put
<1>6. Seen(q, l4[q.tid], w)
  <2> HIDE DEF q, w, x, v, F
  <2> QED BY <1>2, <1>3, <1>4 DEF Seen
<1> HIDE DEF thr, ids, table, l4, q, w, v
<1>7. TidsOK(h, ids, table, l4)
  BY <1>1, <1>3, FieldsChange
<1>8. SeenOK(h, l4, Put(ref, t, w))
  BY <1>1, <1>4, <1>6, SeenSet
<1> HIDE DEF h
<1> QED BY <1>5, <1>7, <1>8, ThreadSet

LEMMA ThreadInitInv == ThreadInit => ThreadInv
<1> SUFFICES ASSUME ThreadInit PROVE ThreadInv
  OBVIOUS
<1> DEFINE thr == [t \in ThreadObjs |-> BlankThread]
           none == [i \in AllBits |-> NoL4]
<1>1. lib = Threading(thr, {}, none, none) /\ ref = [t \in ThreadObjs |-> Unknown]
  BY DEF ThreadInit, Threading
<1>2. TidsOK(thr, {}, none, none)
  <2> DEFINE r == BlankThread
  <2>1. r \in ThrRecs /\ ~r.init /\ ~r.commissioned
    BY BlankIs
  <2> HIDE DEF r
  <2>2. thr \in [ThreadObjs -> ThrRecs] /\ \A t \in ThreadObjs : ~thr[t].init /\ ~thr[t].commissioned
    BY <2>1 DEF r
  <2>3. none \in [AllBits -> ThreadObjs \cup {NoL4}] /\ none \in [AllBits -> L4Recs \cup {NoL4}]
        /\ \A i \in AllBits : none[i] = NoL4
    OBVIOUS
  <2> HIDE DEF thr, none
  <2> QED BY <2>2, <2>3 DEF TidsOK
<1>3. SeenOK(thr, none, ref)
  <2>1. ASSUME NEW t \in ThreadObjs PROVE Seen(thr[t], none[thr[t].tid], ref[t])
    <3>1. thr[t] = BlankThread /\ ref[t] = Unknown
      BY <1>1
    <3> HIDE DEF thr, none
    <3> QED BY <3>1, BlankIs
  <2>2. ref \in [ThreadObjs -> Views]
    BY <1>1, BlankIs
  <2> HIDE DEF thr, none
  <2> QED BY <2>1, <2>2 DEF SeenOK
<1>4. lib.thr = thr /\ lib.ids = {} /\ lib.table = none /\ lib.l4 = none
  BY <1>1 DEF Threading
<1> HIDE DEF thr, none
<1> QED BY <1>1, <1>2, <1>3, <1>4 DEF ThreadInv

LEMMA ThreadStepInv == ThreadInv /\ [ThreadNext]_vars => ThreadInv'
<1> SUFFICES ASSUME ThreadInv, [ThreadNext]_vars PROVE ThreadInv'
  OBVIOUS
<1>1. CASE ThreadNext
  BY <1>1, AllocateStep, ActivityGoneStep, ExRegsStep DEF ThreadNext
<1>2. CASE UNCHANGED vars
  <2>1. lib' = Threading(lib.thr, lib.ids, lib.table, lib.l4) /\ ref' = ref
    BY <1>2 DEF vars, ThreadInv
  <2> QED BY <2>1, ThreadSet DEF ThreadInv
<1> QED BY <1>1, <1>2

LEMMA ThreadInvAgrees == ThreadInv => ThreadsKnown
<1> SUFFICES ASSUME ThreadInv PROVE ThreadsKnown
  OBVIOUS
<1> DEFINE thr == lib.thr
           ids == lib.ids
           table == lib.table
           l4 == lib.l4
           named == {u \in ThreadObjs : thr[u].init}
<1>1. TidsOK(thr, ids, table, l4) /\ SeenOK(thr, l4, ref)
  BY DEF ThreadInv
<1> HIDE DEF thr, ids, table, l4
<1>2. \A i \in AllBits : l4[i] # NoL4 => table[i] # NoL4 /\ thr[table[i]].tid = i
        /\ thr[table[i]].commissioned
  BY <1>1 DEF TidsOK
<1>3. \A i \in ids : i \in AllBits /\ table[i] \in named /\ thr[table[i]].tid = i
  BY <1>1 DEF TidsOK
<1>4. \A u \in named : thr[u].tid \in ids /\ table[thr[u].tid] = u
  BY <1>1 DEF TidsOK
<1> HIDE DEF named
<1>5. ids = {thr[t].tid : t \in named}
  BY <1>3, <1>4
<1>6. Cardinality(ids) = Cardinality(named)
  <2>1. IsFiniteSet(ids)
    <3> DEFINE p == ArrayBytes * ByteBits
    <3>1. p \in Nat
      BY SizeFacts
    <3> HIDE DEF p
    <3>2. p - 1 \in Int /\ 0 \in Int
      BY <3>1
    <3>3. IsFiniteSet(0..(p - 1))
      BY <3>2, FS_Interval
    <3>4. IsFiniteSet(AllBits)
      BY <3>3 DEF AllBits, p
    <3> QED BY <3>4, <1>1, FS_Subset DEF TidsOK
  <2>2. ExistsBijection(ids, named)
    <3> DEFINE f == [i \in ids |-> table[i]]
    <3>1. f \in [ids -> named] /\ \A i \in ids : f[i] = table[i]
      BY <1>3
    <3> HIDE DEF f
    <3>2. f \in Injection(ids, named)
      BY <3>1, <1>3 DEF Injection, IsInjective
    <3>3. f \in Surjection(ids, named)
      BY <3>1, <1>4 DEF Surjection
    <3> QED BY <3>2, <3>3 DEF ExistsBijection, Bijection
  <2> QED BY <2>1, <2>2, FS_Bijection
<1>7. ASSUME NEW t \in ThreadObjs
      PROVE  IF thr[t].commissioned
             THEN /\ l4[thr[t].tid].user_handle = ref[t].user_handle
                  /\ ref[t].run = IF l4[thr[t].tid].halted THEN "halted" ELSE "running"
             ELSE thr[t].user_handle = ref[t].user_handle /\ ref[t].run = "no"
  BY <1>1 DEF SeenOK, Seen
<1> QED BY <1>2, <1>5, <1>6, <1>7 DEF ThreadsKnown, thr, ids, table, l4, named

-----------------------------------------------------------------------------
(***************************************************************************)
(* Keys.                                                                   *)
(***************************************************************************)
KeyLib ==
    [kind : {KeyKind}, table : Seq(Entries), size : Nat, invalid : Nat, index : Nat \ {0}]

KeysIn(table) == {k \in 1..Len(table) : table[k] # "invalid"}

KeyInv ==
    /\ lib \in KeyLib
    /\ ref = KeysIn(lib.table)
    /\ lib.invalid = Len(lib.table) - Cardinality(ref)
    /\ lib.index <= Len(lib.table) + 1
    /\ Len(lib.table) <= lib.size

LEMMA InUseCounted ==
  ASSUME NEW table \in Seq(Entries)
  PROVE  /\ IsFiniteSet(KeysIn(table)) /\ Cardinality(KeysIn(table)) \in Nat
         /\ Len(table) - Cardinality(KeysIn(table)) # 0 => Free(table, 1) # {}
<1>1. Len(table) \in Nat
  OBVIOUS
<1>2. IsFiniteSet(1..Len(table)) /\ Cardinality(1..Len(table)) = Len(table)
  BY <1>1, FS_Interval
<1>3. KeysIn(table) \subseteq 1..Len(table)
  BY DEF KeysIn
<1>4. IsFiniteSet(KeysIn(table)) /\ Cardinality(KeysIn(table)) \in Nat
  BY <1>2, <1>3, FS_Subset, FS_CardinalityType
<1>5. Free(table, 1) = {} => KeysIn(table) = 1..Len(table)
  BY DEF Free, KeysIn
<1> QED BY <1>1, <1>2, <1>4, <1>5

\* A place of the table is given out, given back, or added.
LEMMA KeyTaken ==
  ASSUME NEW table \in Seq(Entries), NEW i \in 1..Len(table), table[i] = "invalid",
         NEW d \in Entries \ {"invalid"}
  PROVE  LET t == [table EXCEPT ![i] = d]
         IN  /\ t \in Seq(Entries) /\ Len(t) = Len(table)
             /\ KeysIn(t) = KeysIn(table) \cup {i}
             /\ Cardinality(KeysIn(t)) = Cardinality(KeysIn(table)) + 1
<1> DEFINE t == [table EXCEPT ![i] = d]
<1>1. Len(table) \in Nat /\ DOMAIN table = 1..Len(table)
  OBVIOUS
<1>2. t \in Seq(Entries) /\ Len(t) = Len(table) /\ t[i] = d
        /\ \A k \in 1..Len(table) : k # i => t[k] = table[k]
  BY <1>1
<1> HIDE DEF t
<1>3. KeysIn(t) = KeysIn(table) \cup {i} /\ i \notin KeysIn(table)
  BY <1>2 DEF KeysIn
<1>4. Cardinality(KeysIn(t)) = Cardinality(KeysIn(table)) + 1
  BY <1>3, InUseCounted, FS_AddElement
<1> QED BY <1>2, <1>3, <1>4 DEF t

LEMMA KeyGiven ==
  ASSUME NEW table \in Seq(Entries), NEW i \in KeysIn(table)
  PROVE  LET t == [table EXCEPT ![i] = "invalid"]
         IN  /\ t \in Seq(Entries) /\ Len(t) = Len(table)
             /\ KeysIn(t) = KeysIn(table) \ {i}
             /\ Cardinality(KeysIn(t)) = Cardinality(KeysIn(table)) - 1
<1> DEFINE t == [table EXCEPT ![i] = "invalid"]
<1>1. Len(table) \in Nat /\ DOMAIN table = 1..Len(table) /\ i \in 1..Len(table)
  BY DEF KeysIn
<1>2. "invalid" \in Entries
  BY DEF Entries
<1>3. t \in Seq(Entries) /\ Len(t) = Len(table) /\ t[i] = "invalid"
        /\ \A k \in 1..Len(table) : k # i => t[k] = table[k]
  BY <1>1, <1>2
<1> HIDE DEF t
<1>4. KeysIn(t) = KeysIn(table) \ {i}
  BY <1>3 DEF KeysIn
<1>5. Cardinality(KeysIn(t)) = Cardinality(KeysIn(table)) - 1
  BY <1>4, InUseCounted, FS_RemoveElement
<1> QED BY <1>3, <1>4, <1>5 DEF t

LEMMA KeyAdded ==
  ASSUME NEW table \in Seq(Entries), NEW d \in Entries \ {"invalid"}
  PROVE  LET t == Append(table, d)
         IN  /\ t \in Seq(Entries) /\ Len(t) = Len(table) + 1
             /\ KeysIn(t) = KeysIn(table) \cup {Len(table) + 1}
             /\ Cardinality(KeysIn(t)) = Cardinality(KeysIn(table)) + 1
<1> DEFINE t == Append(table, d)
           n == Len(table)
<1>1. n \in Nat
  OBVIOUS
<1>2. t \in Seq(Entries) /\ Len(t) = n + 1 /\ t[n + 1] = d /\ \A k \in 1..n : t[k] = table[k]
  OBVIOUS
<1>3. 1..(n + 1) = (1..n) \cup {n + 1} /\ n + 1 \notin 1..n
  BY <1>1
<1> HIDE DEF t
<1>4. KeysIn(t) = KeysIn(table) \cup {n + 1} /\ n + 1 \notin KeysIn(table)
  BY <1>2, <1>3 DEF KeysIn
<1>5. Cardinality(KeysIn(t)) = Cardinality(KeysIn(table)) + 1
  BY <1>4, InUseCounted, FS_AddElement
<1> QED BY <1>2, <1>4, <1>5 DEF t

LEMMA KeyFacts ==
  ASSUME KeyInv
  PROVE  /\ lib.table \in Seq(Entries) /\ lib.size \in Nat /\ lib.invalid \in Nat
         /\ lib.index \in Nat /\ lib.index > 0 /\ Len(lib.table) \in Nat
         /\ IsFiniteSet(ref) /\ Cardinality(ref) \in Nat /\ ref = KeysIn(lib.table)
         /\ lib.invalid = Len(lib.table) - Cardinality(ref)
         /\ lib.index <= Len(lib.table) + 1 /\ Len(lib.table) <= lib.size
<1>1. lib.table \in Seq(Entries) /\ lib.size \in Nat /\ lib.invalid \in Nat /\ lib.index \in Nat \ {0}
  BY DEF KeyInv, KeyLib
<1>2. Len(lib.table) \in Nat
  BY <1>1
<1> QED BY <1>1, <1>2, InUseCounted DEF KeyInv

LEMMA KeyPack ==
  ASSUME KeyInv, NEW t \in Seq(Entries), NEW s \in Nat, NEW v \in Int, NEW x \in Nat \ {0},
         lib' = [kind |-> KeyKind, table |-> t, size |-> s, invalid |-> v, index |-> x],
         ref' = KeysIn(t), v = Len(t) - Cardinality(KeysIn(t)), v >= 0,
         x <= Len(t) + 1, Len(t) <= s
  PROVE  KeyInv'
<1>1. v \in Nat
  OBVIOUS
<1>2. lib' \in KeyLib
  BY <1>1 DEF KeyLib
<1> QED BY <1>2 DEF KeyInv, KeyLib


LEMMA KeyCreateStep ==
  ASSUME KeyInv, NEW d \in Entries \ {"invalid"}, KeyCreate(d)
  PROVE  KeyInv'
<1> DEFINE table == lib.table
           n == Len(table)
           full == lib.size = n
           search == full /\ lib.invalid > ManyInvalid /\ lib.invalid > lib.size \div 8
           from == IF Free(table, lib.index) # {} THEN lib.index ELSE 1
           i == Min(Free(table, from))
<1>0. n \in Nat /\ table \in Seq(Entries)
  BY KeyFacts
<1>1. CASE (Free(table, lib.index) # {} \/ search) /\ Becomes(TakesDeleted(lib, i, d), ref \cup {i})
  <2>1. Free(table, 1) # {} \/ Free(table, lib.index) # {}
    <3>1. search => lib.invalid # 0
      BY KeyFacts, KeysAssumption
    <3> QED BY <1>1, <3>1, KeyFacts, InUseCounted
  <2>2. Free(table, from) # {} /\ from \in Nat \ {0}
    BY <2>1, KeyFacts
  <2>3. Free(table, from) \in SUBSET Nat
    BY <1>0, <2>2 DEF Free
  <2> HIDE DEF from
  <2>4. i \in Free(table, from)
    BY <2>2, <2>3, Smallest
  <2>5. i \in 1..n /\ table[i] = "invalid"
    BY <1>0, <2>2, <2>4 DEF Free
  <2> HIDE DEF i
  <2> DEFINE t == [table EXCEPT ![i] = d]
  <2>6. t \in Seq(Entries) /\ Len(t) = n /\ KeysIn(t) = KeysIn(table) \cup {i}
          /\ Cardinality(KeysIn(t)) = Cardinality(KeysIn(table)) + 1
    BY <1>0, <2>5, KeyTaken
  <2>7. lib' = [lib EXCEPT !.table = t, !.index = i + 1, !.invalid = @ - 1] /\ ref' = ref \cup {i}
    BY <1>1 DEF TakesDeleted, Becomes
  <2> HIDE DEF t
  <2>8. lib' = [kind |-> KeyKind, table |-> t, size |-> lib.size, invalid |-> lib.invalid - 1,
          index |-> i + 1]
    BY <2>7 DEF KeyInv, KeyLib
  <2>9. lib.invalid # 0
    <3>1. Free(table, 1) # {}
      BY <1>0, <2>5 DEF Free
    <3>2. KeysIn(table) \subseteq (1..n) \ {i}
      BY <2>5 DEF KeysIn
    <3>3. IsFiniteSet(1..n) /\ Cardinality(1..n) = n
      BY <1>0, FS_Interval
    <3>4. Cardinality(KeysIn(table)) < n
      <4>1. KeysIn(table) \subseteq 1..n /\ KeysIn(table) # 1..n
        BY <2>5, <3>2
      <4> QED BY <3>3, <4>1, FS_Subset, FS_CardinalityType
    <3> QED BY <3>4, KeyFacts
  <2>10. lib.invalid - 1 = Len(t) - Cardinality(KeysIn(t)) /\ lib.invalid - 1 >= 0
           /\ lib.invalid - 1 \in Int
    BY <2>6, <2>9, KeyFacts
  <2>11. i + 1 \in Nat \ {0} /\ i + 1 <= Len(t) + 1 /\ Len(t) <= lib.size
    BY <1>0, <2>5, <2>6, KeyFacts
  <2>12. ref' = KeysIn(t)
    BY <2>6, <2>7, KeyFacts
  <2> QED BY <2>6, <2>8, <2>10, <2>11, <2>12, KeyFacts, KeyPack
<1>2. CASE /\ Free(table, lib.index) = {} /\ ~search
           /\ Becomes([lib EXCEPT !.table = Append(@, d), !.index = n + 2,
                          !.size = IF ~full THEN @ ELSE IF @ = 0 THEN FirstSize ELSE 2 * @],
                      ref \cup {n + 1})
  <2> DEFINE t == Append(table, d)
             s == IF ~full THEN lib.size ELSE IF lib.size = 0 THEN FirstSize ELSE 2 * lib.size
  <2>1. t \in Seq(Entries) /\ Len(t) = n + 1 /\ KeysIn(t) = KeysIn(table) \cup {n + 1}
          /\ Cardinality(KeysIn(t)) = Cardinality(KeysIn(table)) + 1
    BY <1>0, KeyAdded
  <2>2. s \in Nat /\ n + 1 <= s
    BY <1>0, KeyFacts, KeysAssumption
  <2>3. lib' = [lib EXCEPT !.table = t, !.index = n + 2, !.size = s] /\ ref' = ref \cup {n + 1}
    BY <1>2 DEF Becomes
  <2> HIDE DEF t, s
  <2>4. lib' = [kind |-> KeyKind, table |-> t, size |-> s, invalid |-> lib.invalid, index |-> n + 2]
    BY <2>3 DEF KeyInv, KeyLib
  <2>5. lib.invalid = Len(t) - Cardinality(KeysIn(t)) /\ lib.invalid >= 0 /\ lib.invalid \in Int
    BY <2>1, KeyFacts
  <2>6. n + 2 \in Nat \ {0} /\ n + 2 <= Len(t) + 1 /\ Len(t) <= s
    BY <1>0, <2>1, <2>2
  <2>7. ref' = KeysIn(t)
    BY <2>1, <2>3, KeyFacts
  <2> QED BY <2>1, <2>2, <2>4, <2>5, <2>6, <2>7, KeyPack
<1> QED BY <1>1, <1>2 DEF KeyCreate

LEMMA KeyDeleteStep ==
  ASSUME KeyInv, NEW k \in ref, KeyDelete(k)
  PROVE  KeyInv'
<1> DEFINE t == [lib.table EXCEPT ![k] = "invalid"]
<1>1. t \in Seq(Entries) /\ Len(t) = Len(lib.table) /\ KeysIn(t) = KeysIn(lib.table) \ {k}
        /\ Cardinality(KeysIn(t)) = Cardinality(KeysIn(lib.table)) - 1
  BY KeyFacts, KeyGiven
<1>2. lib' = [lib EXCEPT !.table = t, !.invalid = @ + 1] /\ ref' = ref \ {k}
  BY DEF KeyDelete, Becomes
<1> HIDE DEF t
<1>3. lib' = [kind |-> KeyKind, table |-> t, size |-> lib.size, invalid |-> lib.invalid + 1,
              index |-> lib.index]
  BY <1>2 DEF KeyInv, KeyLib
<1>4. lib.invalid + 1 = Len(t) - Cardinality(KeysIn(t)) /\ lib.invalid + 1 >= 0 /\ lib.invalid + 1 \in Int
        /\ lib.index \in Nat \ {0} /\ lib.index <= Len(t) + 1 /\ Len(t) <= lib.size
  BY <1>1, KeyFacts
<1>5. ref' = KeysIn(t)
  BY <1>1, <1>2, KeyFacts
<1> QED BY <1>1, <1>3, <1>4, <1>5, KeyFacts, KeyPack

LEMMA KeyInitInv == KeyInit => KeyInv
<1> SUFFICES ASSUME KeyInit PROVE KeyInv
  OBVIOUS
<1>1. lib = [kind |-> KeyKind, table |-> <<>>, size |-> 0, invalid |-> 0, index |-> 1] /\ ref = {}
  BY DEF KeyInit
<1>2. KeysIn(<<>>) = {} /\ Cardinality({}) = 0
  BY FS_EmptySet DEF KeysIn
<1> QED BY <1>1, <1>2 DEF KeyInv, KeyLib

LEMMA KeyStepInv == KeyInv /\ [KeyNext]_vars => KeyInv'
<1> SUFFICES ASSUME KeyInv, [KeyNext]_vars PROVE KeyInv'
  OBVIOUS
<1>1. CASE KeyNext
  BY <1>1, KeyCreateStep, KeyDeleteStep DEF KeyNext
<1>2. CASE UNCHANGED vars
  BY <1>2 DEF vars, KeyInv, KeyLib
<1> QED BY <1>1, <1>2

LEMMA KeyInvAgrees == KeyInv => KeysAgree
<1> SUFFICES ASSUME KeyInv PROVE KeysAgree
  OBVIOUS
<1>1. DOMAIN lib.table = 1..Len(lib.table)
  BY KeyFacts
<1> QED BY <1>1, KeyFacts DEF KeysAgree, KeysIn

-----------------------------------------------------------------------------
(***************************************************************************)
(* The numbers together: the kind of the structure stays.                  *)
(***************************************************************************)
NumbersInv == BitInv \/ KeyInv \/ SpaceInv \/ ThreadInv

LEMMA KindsOf ==
  /\ BitInv => lib.kind = "bits"
  /\ KeyInv => lib.kind = "keys"
  /\ SpaceInv => lib.kind = SpaceKind
  /\ ThreadInv => lib.kind = "threads"
BY DEF BitInv, KeyInv, SpaceInv, ThreadInv, KeyLib, BitKind, KeyKind, ThreadKind, Threading

\* Whatever the sizes of the arrays and tables, however much was given out and
\* in whatever order: a number is given out once until it comes back, a search
\* finds one when there is one, and what was given out designates its object.
THEOREM NumbersHold == NumbersSpec => []NumbersAgree
<1>1. NumbersInit => NumbersInv
  BY BitInitInv, KeyInitInv, SpaceInitInv, ThreadInitInv DEF NumbersInit, NumbersInv
<1>2. NumbersInv /\ [NumbersNext]_vars => NumbersInv'
  <2> SUFFICES ASSUME NumbersInv, [NumbersNext]_vars PROVE NumbersInv'
    OBVIOUS
  <2>1. CASE BitInv
    <3>1. [BitNext]_vars
      BY <2>1, KindsOf DEF NumbersNext, KeyNext, SpaceNext, ThreadNext, KeyKind, SpaceKind, ThreadKind
    <3> QED BY <2>1, <3>1, BitStepInv DEF NumbersInv
  <2>2. CASE KeyInv
    <3>1. [KeyNext]_vars
      BY <2>2, KindsOf DEF NumbersNext, BitNext, SpaceNext, ThreadNext, BitKind, SpaceKind, ThreadKind
    <3> QED BY <2>2, <3>1, KeyStepInv DEF NumbersInv
  <2>3. CASE SpaceInv
    <3>1. [SpaceNext]_vars
      BY <2>3, KindsOf DEF NumbersNext, BitNext, KeyNext, ThreadNext, BitKind, KeyKind, SpaceKind,
        ThreadKind
    <3> QED BY <2>3, <3>1, SpaceStepInv DEF NumbersInv
  <2>4. CASE ThreadInv
    <3>1. [ThreadNext]_vars
      BY <2>4, KindsOf DEF NumbersNext, BitNext, KeyNext, SpaceNext, BitKind, KeyKind, SpaceKind
    <3> QED BY <2>4, <3>1, ThreadStepInv DEF NumbersInv
  <2> QED BY <2>1, <2>2, <2>3, <2>4 DEF NumbersInv
<1>3. NumbersInv => NumbersAgree
  <2> SUFFICES ASSUME NumbersInv PROVE NumbersAgree
    OBVIOUS
  <2>1. CASE BitInv
    <3>1. KeysAgree /\ SpaceAgrees /\ ThreadsKnown
      BY <2>1, KindsOf DEF KeysAgree, SpaceAgrees, ThreadsKnown, KeyKind, SpaceKind, ThreadKind
    <3> QED BY <2>1, <3>1, BitInvAgrees DEF NumbersAgree
  <2>2. CASE KeyInv
    <3>1. BitsAgree /\ SpaceAgrees /\ ThreadsKnown
      BY <2>2, KindsOf DEF BitsAgree, SpaceAgrees, ThreadsKnown, BitKind, SpaceKind, ThreadKind
    <3> QED BY <2>2, <3>1, KeyInvAgrees DEF NumbersAgree
  <2>3. CASE SpaceInv
    <3>1. BitsAgree /\ KeysAgree /\ ThreadsKnown
      BY <2>3, KindsOf DEF BitsAgree, KeysAgree, ThreadsKnown, BitKind, KeyKind, SpaceKind, ThreadKind
    <3> QED BY <2>3, <3>1, SpaceInvAgrees DEF NumbersAgree
  <2>4. CASE ThreadInv
    <3>1. BitsAgree /\ KeysAgree /\ SpaceAgrees
      BY <2>4, KindsOf DEF BitsAgree, KeysAgree, SpaceAgrees, BitKind, KeyKind, SpaceKind
    <3> QED BY <2>4, <3>1, ThreadInvAgrees DEF NumbersAgree
  <2> QED BY <2>1, <2>2, <2>3, <2>4 DEF NumbersInv
<1>4. NumbersSpec => []NumbersInv
  BY <1>1, <1>2, PTL DEF NumbersSpec
<1> QED BY <1>3, <1>4, PTL

-----------------------------------------------------------------------------
(***************************************************************************)
(* Capability slots.                                                       *)
(***************************************************************************)
CapDescs == [alloced : SUBSET SlotNos, lock : CapThreads \cup {NoOne}, known : BOOLEAN]
CapPlaces == {"idle", "pluck", "new", "find", "mark", "last", "unlink", "announce", "link", "free",
              "discard"}
CapPointers == CapPages \cup {NoOne}

CapLib ==
    [kind : {CapKind}, lock : CapThreads \cup {NoOne}, head : CapPointers,
     next : [CapPages -> CapPointers], prevp : [CapPages -> CapPointers \cup {"nonempty"}],
     desc : [CapPages -> CapDescs],
     pc : [CapThreads -> CapPlaces], area : [CapThreads -> CapPointers],
     slot : [CapThreads -> Nat], failed : BOOLEAN]

\* The places of a call that has a slot in hand.
HandPlaces == {"last", "unlink", "announce", "link", "free"}

\* A call that looks for a slot has the cappage's lock, and the slot it has
\* found is still free.
LookingOK(D, P, A, S) ==
    \A t \in CapThreads :
        /\ P[t] \in {"find", "mark"} => A[t] \in CapPages /\ D[A[t]].lock = t
        /\ P[t] = "mark" => S[t] \in SlotNos /\ S[t] \notin D[A[t]].alloced

\* The marks are those of the clients and of the calls, each of one of them.
MarksOK(D, P, A, S, R) ==
    /\ \A t \in CapThreads : P[t] \in HandPlaces =>
          A[t] \in CapPages /\ S[t] \in SlotNos /\ <<A[t], S[t]>> \notin R
    /\ \A t, u \in CapThreads :
          P[t] \in HandPlaces /\ P[u] \in HandPlaces /\ t # u => A[t] # A[u] \/ S[t] # S[u]
    /\ \A p \in CapPages, i \in SlotNos :
          i \in D[p].alloced <=>
             <<p, i>> \in R \/ \E t \in CapThreads : P[t] \in HandPlaces /\ A[t] = p /\ S[t] = i

CapOK(D, P, A, S, R) == LookingOK(D, P, A, S) /\ MarksOK(D, P, A, S, R)

\* Every thread is where it should be.
CapInv ==
    /\ lib \in CapLib
    /\ ref \in SUBSET (CapPages \X SlotNos)
    /\ CapOK(lib.desc, lib.pc, lib.area, lib.slot, ref)

\* A step of t: what becomes of its locals, the descriptors and the clients' slots.
CapWith(t, D, p, a, s, R) ==
    /\ lib' \in [kind : {CapKind}, lock : CapThreads \cup {NoOne}, head : CapPointers,
                 next : [CapPages -> CapPointers],
                 prevp : [CapPages -> CapPointers \cup {"nonempty"}], desc : {D},
                 pc : {[lib.pc EXCEPT ![t] = p]}, area : {[lib.area EXCEPT ![t] = a]},
                 slot : {[lib.slot EXCEPT ![t] = s]}, failed : BOOLEAN]
    /\ ref' = R

LEMMA CapFacts ==
  ASSUME CapInv
  PROVE  /\ lib \in CapLib /\ ref \in SUBSET (CapPages \X SlotNos)
         /\ CapOK(lib.desc, lib.pc, lib.area, lib.slot, ref)
         /\ lib.pc \in [CapThreads -> CapPlaces] /\ lib.area \in [CapThreads -> CapPointers]
         /\ lib.slot \in [CapThreads -> Nat] /\ lib.desc \in [CapPages -> CapDescs]
         /\ lib.head \in CapPointers /\ lib.next \in [CapPages -> CapPointers]
         /\ lib.prevp \in [CapPages -> CapPointers \cup {"nonempty"}]
         /\ NoOne \notin CapPages
BY SlotsAssumption DEF CapInv, CapLib

\* The invariant after a step, from what it says of the new values.
LEMMA CapClose ==
  ASSUME CapInv, NEW t \in CapThreads, NEW D \in [CapPages -> CapDescs], NEW p \in CapPlaces,
         NEW a \in CapPointers, NEW s \in Nat, NEW R \in SUBSET (CapPages \X SlotNos),
         CapWith(t, D, p, a, s, R),
         CapOK(D, [lib.pc EXCEPT ![t] = p], [lib.area EXCEPT ![t] = a], [lib.slot EXCEPT ![t] = s], R)
  PROVE  CapInv'
<1> DEFINE P == [lib.pc EXCEPT ![t] = p]
           A == [lib.area EXCEPT ![t] = a]
           S == [lib.slot EXCEPT ![t] = s]
<1>1. P \in [CapThreads -> CapPlaces] /\ A \in [CapThreads -> CapPointers] /\ S \in [CapThreads -> Nat]
  BY CapFacts
<1>2. CapOK(D, P, A, S, R)
  OBVIOUS
<1>3. /\ lib' \in [kind : {CapKind}, lock : CapThreads \cup {NoOne}, head : CapPointers,
                   next : [CapPages -> CapPointers],
                   prevp : [CapPages -> CapPointers \cup {"nonempty"}], desc : {D},
                   pc : {P}, area : {A}, slot : {S}, failed : BOOLEAN]
      /\ ref' = R
  BY DEF CapWith
<1> HIDE DEF P, A, S
<1>4. lib' \in CapLib
  BY <1>1, <1>3 DEF CapLib
<1>5. lib'.desc = D /\ lib'.pc = P /\ lib'.area = A /\ lib'.slot = S
  BY <1>3
<1> QED BY <1>2, <1>3, <1>4, <1>5 DEF CapInv

\* A step in which t has no slot in hand, before or after, and marks none; it
\* may lock a cappage whose lock is free, and look for a slot there.
LEMMA CapLooks ==
  ASSUME CapInv, NEW t \in CapThreads, NEW D \in [CapPages -> CapDescs], NEW p \in CapPlaces,
         NEW a \in CapPointers, NEW s \in Nat, CapWith(t, D, p, a, s, ref),
         lib.pc[t] \notin HandPlaces, p \notin HandPlaces,
         \A q \in CapPages : D[q].alloced = lib.desc[q].alloced,
         \A q \in CapPages : D[q].lock = lib.desc[q].lock \/ lib.desc[q].lock = NoOne,
         p \in {"find", "mark"} => a \in CapPages /\ D[a].lock = t,
         p = "mark" => s \in SlotNos /\ s \notin D[a].alloced
  PROVE  CapInv'
<1> DEFINE P == [lib.pc EXCEPT ![t] = p]
           A == [lib.area EXCEPT ![t] = a]
           S == [lib.slot EXCEPT ![t] = s]
<1>1. /\ P[t] = p /\ A[t] = a /\ S[t] = s
      /\ \A u \in CapThreads : u # t => P[u] = lib.pc[u] /\ A[u] = lib.area[u] /\ S[u] = lib.slot[u]
  BY CapFacts
<1> HIDE DEF P, A, S
<1>2. LookingOK(lib.desc, lib.pc, lib.area, lib.slot) /\ MarksOK(lib.desc, lib.pc, lib.area, lib.slot, ref)
  BY CapFacts DEF CapOK
<1>3. LookingOK(D, P, A, S)
  <2> SUFFICES ASSUME NEW u \in CapThreads
               PROVE  /\ P[u] \in {"find", "mark"} => A[u] \in CapPages /\ D[A[u]].lock = u
                      /\ P[u] = "mark" => S[u] \in SlotNos /\ S[u] \notin D[A[u]].alloced
    BY DEF LookingOK
  <2>1. CASE u = t
    BY <1>1, <2>1
  <2>2. CASE u # t
    <3>1. u # NoOne
      BY SlotsAssumption
    <3> QED BY <1>1, <1>2, <2>2, <3>1 DEF LookingOK
  <2> QED BY <2>1, <2>2
<1>4. MarksOK(D, P, A, S, ref)
  <2>1. \A u \in CapThreads : P[u] \in HandPlaces <=> lib.pc[u] \in HandPlaces
    BY <1>1
  <2>2. \A u \in CapThreads : lib.pc[u] \in HandPlaces => u # t
    OBVIOUS
  <2>3. \A u \in CapThreads : lib.pc[u] \in HandPlaces => A[u] = lib.area[u] /\ S[u] = lib.slot[u]
    BY <1>1, <2>2
  <2> QED BY <1>2, <2>1, <2>3 DEF MarksOK
<1>5. CapOK(D, P, A, S, ref)
  BY <1>3, <1>4 DEF CapOK
<1> QED BY <1>5, CapFacts, CapClose DEF P, A, S

LEMMA CapallocStep ==
  ASSUME CapInv, NEW t \in CapThreads, Capalloc(t)
  PROVE  CapInv'
<1>1. lib.pc[t] = "idle" /\ ref' = ref
      /\ lib' = [Goto(lib, t, "pluck") EXCEPT !.lock = t, !.area[t] = lib.head]
  BY DEF Capalloc, Becomes
<1>2. CapWith(t, lib.desc, "pluck", lib.head, lib.slot[t], ref)
  BY <1>1, CapFacts DEF CapWith, Goto, CapLib
<1>3. lib.slot[t] \in Nat /\ "pluck" \in CapPlaces /\ lib.pc[t] \notin HandPlaces /\ "pluck" \notin HandPlaces
  BY <1>1, CapFacts DEF CapPlaces, HandPlaces
<1> QED BY <1>2, <1>3, CapFacts, CapLooks

\* What locking the cappage p does to the descriptors.
LEMMA CapLocked ==
  ASSUME CapInv, NEW t \in CapThreads, NEW p \in CapPages
  PROVE  LET D == [lib.desc EXCEPT ![p].lock = t]
         IN  /\ D \in [CapPages -> CapDescs] /\ D[p].lock = t
             /\ \A q \in CapPages : D[q].alloced = lib.desc[q].alloced
             /\ \A q \in CapPages : q # p => D[q].lock = lib.desc[q].lock
BY CapFacts DEF CapDescs

LEMMA CapPluckStep ==
  ASSUME CapInv, NEW t \in CapThreads, Pluck(t)
  PROVE  CapInv'
<1> DEFINE p == lib.area[t]
           D == [lib.desc EXCEPT ![p].lock = t]
<1>0. lib.pc[t] = "pluck" /\ ref' = ref
  BY DEF Pluck, Becomes
<1>1. /\ lib.slot[t] \in Nat /\ p \in CapPointers /\ lib.pc[t] \notin HandPlaces
      /\ {"pluck", "new", "find"} \subseteq CapPlaces \ HandPlaces
  BY <1>0, CapFacts DEF CapPlaces, HandPlaces
<1>2. CASE p = NoOne /\ lib' = [Goto(lib, t, "new") EXCEPT !.lock = NoOne]
  <2>1. CapWith(t, lib.desc, "new", p, lib.slot[t], ref)
    BY <1>0, <1>2, CapFacts DEF CapWith, Goto, CapLib
  <2> QED BY <1>1, <2>1, CapFacts, CapLooks
<1>3. CASE /\ p # NoOne /\ lib.desc[p].lock = NoOne
           /\ lib' = [Goto(lib, t, "find") EXCEPT !.lock = NoOne, !.desc[p].lock = t]
  <2>1. p \in CapPages
    BY <1>1, <1>3 DEF CapPointers
  <2>2. CapWith(t, D, "find", p, lib.slot[t], ref)
    BY <1>0, <1>3, CapFacts DEF CapWith, Goto, CapLib
  <2>3. /\ D \in [CapPages -> CapDescs] /\ D[p].lock = t
        /\ \A q \in CapPages : D[q].alloced = lib.desc[q].alloced
        /\ \A q \in CapPages : q # p => D[q].lock = lib.desc[q].lock
    BY <2>1, CapLocked
  <2>4. \A q \in CapPages : D[q].lock = lib.desc[q].lock \/ lib.desc[q].lock = NoOne
    BY <1>3, <2>3
  <2> HIDE DEF D
  <2> QED BY <1>1, <2>1, <2>2, <2>3, <2>4, CapLooks
<1>4. CASE p # NoOne /\ lib' = [lib EXCEPT !.area[t] = lib.next[p]]
  <2>1. p \in CapPages /\ lib.next[p] \in CapPointers
    BY <1>1, <1>4, CapFacts DEF CapPointers
  <2>2. CapWith(t, lib.desc, "pluck", lib.next[p], lib.slot[t], ref)
    BY <1>0, <1>4, <2>1, CapFacts DEF CapWith, CapLib
  <2> QED BY <1>1, <2>1, <2>2, CapFacts, CapLooks
<1> QED BY <1>2, <1>3, <1>4 DEF Pluck, Becomes

LEMMA NewAreaStep ==
  ASSUME CapInv, NEW t \in CapThreads, NewArea(t)
  PROVE  CapInv'
<1>1. PICK p \in CapPages :
        /\ lib.desc[p] = NoArea
        /\ Becomes([Goto(lib, t, "find") EXCEPT !.area[t] = p, !.desc[p].lock = t], ref)
  BY DEF NewArea
<1> DEFINE D == [lib.desc EXCEPT ![p].lock = t]
<1>2. /\ lib.slot[t] \in Nat /\ p \in CapPointers /\ lib.pc[t] \notin HandPlaces
      /\ "find" \in CapPlaces \ HandPlaces
  BY CapFacts DEF NewArea, CapPlaces, CapPointers, HandPlaces
<1>3. CapWith(t, D, "find", p, lib.slot[t], ref)
  BY <1>1, CapFacts DEF CapWith, Goto, CapLib, Becomes
<1>4. /\ D \in [CapPages -> CapDescs] /\ D[p].lock = t
      /\ \A q \in CapPages : D[q].alloced = lib.desc[q].alloced
      /\ \A q \in CapPages : q # p => D[q].lock = lib.desc[q].lock
  BY CapLocked
<1>5. \A q \in CapPages : D[q].lock = lib.desc[q].lock \/ lib.desc[q].lock = NoOne
  BY <1>1, <1>4 DEF NoArea
<1> HIDE DEF D
<1> QED BY <1>2, <1>3, <1>4, <1>5, CapLooks

LEMMA NoStorageStep ==
  ASSUME CapInv, NEW t \in CapThreads, NoStorage(t)
  PROVE  CapInv'
<1>1. lib.pc[t] = "new" /\ ref' = ref /\ lib' = Returns(lib, t)
  BY DEF NoStorage, Becomes
<1>2. CapWith(t, lib.desc, "idle", NoOne, 0, ref)
  BY <1>1, CapFacts DEF CapWith, Returns, CapLib
<1>3. NoOne \in CapPointers /\ "idle" \in CapPlaces /\ lib.pc[t] \notin HandPlaces /\ "idle" \notin HandPlaces
  BY <1>1 DEF CapPointers, CapPlaces, HandPlaces
<1> QED BY <1>2, <1>3, CapFacts, CapLooks

LEMMA FindSlotStep ==
  ASSUME CapInv, NEW t \in CapThreads, FindSlot(t)
  PROVE  CapInv'
<1> DEFINE p == lib.area[t]
           free == SlotNos \ lib.desc[p].alloced
<1>1. /\ lib.pc[t] = "find" /\ ref' = ref
      /\ lib' = IF free = {} THEN [lib EXCEPT !.failed = TRUE]
                ELSE [Goto(lib, t, "mark") EXCEPT !.slot[t] = Min(free)]
  BY DEF FindSlot, Becomes
<1>2. p \in CapPages /\ lib.desc[p].lock = t /\ p \in CapPointers
  BY <1>1, CapFacts DEF CapOK, LookingOK, CapPointers
<1>3. /\ lib.slot[t] \in Nat /\ lib.pc[t] \notin HandPlaces
      /\ {"find", "mark"} \subseteq CapPlaces \ HandPlaces
  BY <1>1, CapFacts DEF CapPlaces, HandPlaces
<1> HIDE DEF p
<1>4. CASE free = {}
  <2>0. /\ lib.pc = [lib.pc EXCEPT ![t] = "find"] /\ lib.area = [lib.area EXCEPT ![t] = p]
        /\ lib.slot = [lib.slot EXCEPT ![t] = lib.slot[t]] /\ lib' = [lib EXCEPT !.failed = TRUE]
    BY <1>1, <1>4, CapFacts DEF p
  <2>1. CapWith(t, lib.desc, "find", p, lib.slot[t], ref)
    BY <1>1, <2>0, CapFacts DEF CapWith, CapLib
  <2> QED BY <1>2, <1>3, <2>1, CapFacts, CapLooks
<1>5. CASE free # {}
  <2>1. free \in SUBSET Nat
    BY DEF SlotNos
  <2>2. Min(free) \in free
    BY <1>5, <2>1, Least
  <2> DEFINE n == Min(free)
  <2>3. n \in SlotNos /\ n \notin lib.desc[p].alloced /\ n \in Nat
    BY <2>1, <2>2
  <2>4. lib' = [Goto(lib, t, "mark") EXCEPT !.slot[t] = n]
    BY <1>1, <1>5
  <2> HIDE DEF n
  <2>5. CapWith(t, lib.desc, "mark", p, n, ref)
    BY <1>1, <2>3, <2>4, CapFacts DEF CapWith, Goto, CapLib, p
  <2> QED BY <1>2, <1>3, <2>3, <2>5, CapFacts, CapLooks
<1> QED BY <1>4, <1>5

LEMMA CapLockStep ==
  ASSUME CapInv, NEW t \in CapThreads,
         LockDescs(t, "last", "unlink") \/ LockDescs(t, "announce", "link")
  PROVE  CapInv'
<1>1. PICK from, to : LockDescs(t, from, to) /\ from \in {"last", "announce"} /\ to \in {"unlink", "link"}
  OBVIOUS
<1>2. lib.pc[t] = from /\ ref' = ref /\ lib' = [Goto(lib, t, to) EXCEPT !.lock = t]
  BY <1>1 DEF LockDescs, Becomes
<1> DEFINE P == [lib.pc EXCEPT ![t] = to]
<1>3. \A u \in CapThreads : /\ P[u] \in HandPlaces <=> lib.pc[u] \in HandPlaces
                            /\ u # t => P[u] = lib.pc[u]
  BY <1>1, <1>2, CapFacts DEF HandPlaces
<1>4. P[t] \notin {"find", "mark"}
  BY <1>1, CapFacts
<1> HIDE DEF P
<1>5. LookingOK(lib.desc, P, lib.area, lib.slot)
  BY <1>3, <1>4, CapFacts DEF CapOK, LookingOK
<1>6. MarksOK(lib.desc, P, lib.area, lib.slot, ref)
  BY <1>3, CapFacts DEF CapOK, MarksOK
<1>7. /\ lib.area = [lib.area EXCEPT ![t] = lib.area[t]] /\ lib.slot = [lib.slot EXCEPT ![t] = lib.slot[t]]
      /\ lib.area[t] \in CapPointers /\ lib.slot[t] \in Nat /\ to \in CapPlaces
  BY <1>1, CapFacts DEF CapPlaces
<1>8. CapWith(t, lib.desc, to, lib.area[t], lib.slot[t], ref)
  BY <1>2, CapFacts DEF CapWith, Goto, CapLib
<1>9. CapOK(lib.desc, P, [lib.area EXCEPT ![t] = lib.area[t]], [lib.slot EXCEPT ![t] = lib.slot[t]], ref)
  BY <1>5, <1>6, <1>7 DEF CapOK
<1> QED BY <1>7, <1>8, <1>9, CapFacts, CapClose DEF P

\* The slot that t has in hand becomes a client's.
LEMMA CapGiven ==
  ASSUME CapInv, NEW t \in CapThreads, lib.pc[t] \in HandPlaces,
         NEW D \in [CapPages -> CapDescs],
         \A q \in CapPages : D[q].alloced = lib.desc[q].alloced /\ D[q].lock = lib.desc[q].lock,
         CapWith(t, D, "idle", NoOne, 0, ref \cup {<<lib.area[t], lib.slot[t]>>})
  PROVE  CapInv'
<1> DEFINE P == [lib.pc EXCEPT ![t] = "idle"]
           A == [lib.area EXCEPT ![t] = NoOne]
           S == [lib.slot EXCEPT ![t] = 0]
           a == lib.area[t]
           s == lib.slot[t]
           R == ref \cup {<<a, s>>}
<1>1. /\ P[t] = "idle"
      /\ \A u \in CapThreads : u # t => P[u] = lib.pc[u] /\ A[u] = lib.area[u] /\ S[u] = lib.slot[u]
  BY CapFacts
<1>2. LookingOK(lib.desc, lib.pc, lib.area, lib.slot) /\ MarksOK(lib.desc, lib.pc, lib.area, lib.slot, ref)
  BY CapFacts DEF CapOK
<1>3. a \in CapPages /\ s \in SlotNos /\ <<a, s>> \notin ref
  BY <1>2 DEF MarksOK
<1>4. R \in SUBSET (CapPages \X SlotNos)
  BY <1>3, CapFacts
<1>5. \A p \in CapPages, i \in SlotNos : <<p, i>> \in R <=> <<p, i>> \in ref \/ (p = a /\ i = s)
  OBVIOUS
<1> HIDE DEF P, A, S, R, a, s
<1>6. LookingOK(D, P, A, S)
  BY <1>1, <1>2 DEF LookingOK
<1>7. MarksOK(D, P, A, S, R)
  <2>0. "idle" \notin HandPlaces
    BY DEF HandPlaces
  <2>1. \A u \in CapThreads : P[u] \in HandPlaces =>
          /\ u # t /\ lib.pc[u] \in HandPlaces /\ A[u] = lib.area[u] /\ S[u] = lib.slot[u]
          /\ A[u] \in CapPages /\ S[u] \in SlotNos /\ <<A[u], S[u]>> \notin ref /\ (A[u] # a \/ S[u] # s)
    BY <1>1, <1>2, <2>0 DEF MarksOK, a, s
  <2>2. \A u \in CapThreads : P[u] \in HandPlaces =>
          A[u] \in CapPages /\ S[u] \in SlotNos /\ <<A[u], S[u]>> \notin R
    BY <1>5, <2>1
  <2>3. ASSUME NEW u \in CapThreads, NEW w \in CapThreads,
               P[u] \in HandPlaces, P[w] \in HandPlaces, u # w
        PROVE  A[u] # A[w] \/ S[u] # S[w]
    <3>1. /\ lib.pc[u] \in HandPlaces /\ A[u] = lib.area[u] /\ S[u] = lib.slot[u]
          /\ lib.pc[w] \in HandPlaces /\ A[w] = lib.area[w] /\ S[w] = lib.slot[w]
      BY <2>1, <2>3
    <3> QED BY <1>2, <2>3, <3>1 DEF MarksOK
  <2>4. ASSUME NEW p \in CapPages, NEW i \in SlotNos
        PROVE  i \in D[p].alloced <=>
                 <<p, i>> \in R \/ \E u \in CapThreads : P[u] \in HandPlaces /\ A[u] = p /\ S[u] = i
    <3>1. i \in D[p].alloced <=>
            <<p, i>> \in ref \/ \E u \in CapThreads :
                                  lib.pc[u] \in HandPlaces /\ lib.area[u] = p /\ lib.slot[u] = i
      BY <1>2 DEF MarksOK
    <3>2. ASSUME NEW u \in CapThreads, lib.pc[u] \in HandPlaces, lib.area[u] = p, lib.slot[u] = i
          PROVE  <<p, i>> \in R \/ (P[u] \in HandPlaces /\ A[u] = p /\ S[u] = i)
      BY <1>1, <1>5, <3>2 DEF a, s
    <3>3. <<p, i>> \in R => i \in D[p].alloced
      BY <1>5, <3>1 DEF a, s
    <3> QED BY <1>5, <2>1, <3>1, <3>2, <3>3
  <2> QED BY <2>2, <2>3, <2>4 DEF MarksOK
<1>8. NoOne \in CapPointers /\ "idle" \in CapPlaces /\ 0 \in Nat
  BY DEF CapPointers, CapPlaces
<1>9. CapOK(D, P, A, S, R) /\ CapWith(t, D, "idle", NoOne, 0, R)
  BY <1>6, <1>7 DEF CapOK, R, a, s
<1> QED BY <1>4, <1>8, <1>9, CapClose DEF P, A, S

\* The pointers stay pointers.
LEMMA LinkTyped ==
  ASSUME NEW L \in CapLib, NEW p \in CapPages
  PROVE  /\ list_link(L, p) \in CapLib /\ list_link(L, p).desc = L.desc /\ list_link(L, p).pc = L.pc
         /\ list_link(L, p).area = L.area /\ list_link(L, p).slot = L.slot
<1> DEFINE v == [q \in CapPages |-> IF q = p THEN "nonempty" ELSE IF q = L.head THEN p ELSE L.prevp[q]]
           n == [L.next EXCEPT ![p] = L.head]
           M == [L EXCEPT !.next = n, !.head = p, !.prevp = v]
<1>1. list_link(L, p) = M
  BY DEF list_link
<1>2. /\ v \in [CapPages -> CapPointers \cup {"nonempty"}] /\ n \in [CapPages -> CapPointers]
      /\ p \in CapPointers
  BY DEF CapLib, CapPointers
<1> HIDE DEF v, n
<1>3. M \in CapLib /\ M.desc = L.desc /\ M.pc = L.pc /\ M.area = L.area /\ M.slot = L.slot
  BY <1>2 DEF CapLib
<1> QED BY <1>1, <1>3

LEMMA UnlinkTyped ==
  ASSUME NEW L \in CapLib, NEW p \in CapPages
  PROVE  /\ list_unlink(L, p) \in CapLib /\ list_unlink(L, p).desc = L.desc
         /\ list_unlink(L, p).pc = L.pc
         /\ list_unlink(L, p).area = L.area /\ list_unlink(L, p).slot = L.slot
<1> DEFINE from == L.prevp[p]
           to == L.next[p]
           h == IF from = "nonempty" THEN to ELSE L.head
           n == [q \in CapPages |-> IF q = from THEN to ELSE L.next[q]]
           v == [q \in CapPages |-> IF q = to THEN from ELSE L.prevp[q]]
           M == [L EXCEPT !.head = h, !.next = n, !.prevp = v]
<1>1. list_unlink(L, p) = M
  BY DEF list_unlink
<1>2. /\ v \in [CapPages -> CapPointers \cup {"nonempty"}] /\ n \in [CapPages -> CapPointers]
      /\ h \in CapPointers
  BY DEF CapLib
<1> HIDE DEF v, n, h
<1>3. M \in CapLib /\ M.desc = L.desc /\ M.pc = L.pc /\ M.area = L.area /\ M.slot = L.slot
  BY <1>2 DEF CapLib
<1> QED BY <1>1, <1>3

\* A typed result, and what it has for the thread.
LEMMA CapResult ==
  ASSUME NEW t, NEW L \in CapLib, NEW R, lib' = L, ref' = R, NEW p, NEW a, NEW s,
         L.pc = [lib.pc EXCEPT ![t] = p], L.area = [lib.area EXCEPT ![t] = a],
         L.slot = [lib.slot EXCEPT ![t] = s]
  PROVE  CapWith(t, L.desc, p, a, s, R)
BY DEF CapWith, CapLib

LEMMA UnlinkFullStep ==
  ASSUME CapInv, NEW t \in CapThreads, UnlinkFull(t)
  PROVE  CapInv'
<1> DEFINE p == lib.area[t]
           L == [Returns(lib, t) EXCEPT !.lock = NoOne]
           M == IF Full(lib.desc[p]) THEN list_unlink(L, p) ELSE L
<1>1. lib.pc[t] = "unlink" /\ lib' = M /\ ref' = ref \cup {<<p, lib.slot[t]>>}
  BY DEF UnlinkFull, Becomes
<1>2. lib.pc[t] \in HandPlaces
  BY <1>1 DEF HandPlaces
<1>3. p \in CapPages
  BY <1>2, CapFacts DEF CapOK, MarksOK
<1>4. /\ L \in CapLib /\ L.desc = lib.desc /\ L.pc = [lib.pc EXCEPT ![t] = "idle"]
      /\ L.area = [lib.area EXCEPT ![t] = NoOne] /\ L.slot = [lib.slot EXCEPT ![t] = 0]
  BY CapFacts DEF Returns, CapLib, CapPlaces, CapPointers
<1> HIDE DEF L
<1>5. /\ M \in CapLib /\ M.desc = lib.desc /\ M.pc = [lib.pc EXCEPT ![t] = "idle"]
      /\ M.area = [lib.area EXCEPT ![t] = NoOne] /\ M.slot = [lib.slot EXCEPT ![t] = 0]
  BY <1>3, <1>4, UnlinkTyped
<1> HIDE DEF M
<1>6. CapWith(t, lib.desc, "idle", NoOne, 0, ref \cup {<<p, lib.slot[t]>>})
  <2> DEFINE R == ref \cup {<<p, lib.slot[t]>>}
  <2>1. ref' = R
    BY <1>1
  <2> HIDE DEF R
  <2>2. CapWith(t, M.desc, "idle", NoOne, 0, R)
    BY <1>1, <1>5, <2>1, CapResult
  <2> QED BY <1>5, <2>2 DEF R
<1> QED BY <1>2, <1>6, CapFacts, CapGiven

LEMMA AnnounceStep ==
  ASSUME CapInv, NEW t \in CapThreads, Announce(t)
  PROVE  CapInv'
<1> DEFINE p == lib.area[t]
           D == [lib.desc EXCEPT ![p].known = TRUE]
           L == [Returns(lib, t) EXCEPT !.lock = NoOne, !.desc[p].known = TRUE]
           M == list_link(L, p)
<1>1. lib.pc[t] = "link" /\ lib' = M /\ ref' = ref \cup {<<p, lib.slot[t]>>}
  BY DEF Announce, Becomes
<1>2. lib.pc[t] \in HandPlaces
  BY <1>1 DEF HandPlaces
<1>3. p \in CapPages
  BY <1>2, CapFacts DEF CapOK, MarksOK
<1>4. /\ D \in [CapPages -> CapDescs]
      /\ \A q \in CapPages : D[q].alloced = lib.desc[q].alloced /\ D[q].lock = lib.desc[q].lock
  <2> DEFINE d == [lib.desc[p] EXCEPT !.known = TRUE]
  <2>1. lib.desc[p] \in CapDescs
    BY <1>3, CapFacts
  <2>2. d \in CapDescs /\ d.alloced = lib.desc[p].alloced /\ d.lock = lib.desc[p].lock
    BY <2>1 DEF CapDescs
  <2>3. D = [lib.desc EXCEPT ![p] = d]
    BY <1>3, CapFacts
  <2> HIDE DEF d, D
  <2> QED BY <1>3, <2>2, <2>3, CapFacts
<1>5. L = [Returns(lib, t) EXCEPT !.lock = NoOne, !.desc = D]
  BY CapFacts DEF Returns, CapLib
<1> HIDE DEF D, L
<1>6. /\ L \in CapLib /\ L.desc = D /\ L.pc = [lib.pc EXCEPT ![t] = "idle"]
      /\ L.area = [lib.area EXCEPT ![t] = NoOne] /\ L.slot = [lib.slot EXCEPT ![t] = 0]
  BY <1>4, <1>5, CapFacts DEF Returns, CapLib, CapPlaces, CapPointers
<1>7. /\ M \in CapLib /\ M.desc = D /\ M.pc = [lib.pc EXCEPT ![t] = "idle"]
      /\ M.area = [lib.area EXCEPT ![t] = NoOne] /\ M.slot = [lib.slot EXCEPT ![t] = 0]
  BY <1>3, <1>6, LinkTyped
<1> HIDE DEF M
<1>8. CapWith(t, D, "idle", NoOne, 0, ref \cup {<<p, lib.slot[t]>>})
  <2> DEFINE R == ref \cup {<<p, lib.slot[t]>>}
  <2>1. ref' = R
    BY <1>1
  <2> HIDE DEF R
  <2>2. CapWith(t, M.desc, "idle", NoOne, 0, R)
    BY <1>1, <1>7, <2>1, CapResult
  <2> QED BY <1>7, <2>2 DEF R
<1> QED BY <1>2, <1>4, <1>8, CapGiven

\* The client gives the slot c, and the call of t has it in hand.
LEMMA CapFreeStep ==
  ASSUME CapInv, NEW t \in CapThreads, NEW c \in ref, CapFree(t, c)
  PROVE  CapInv'
<1> DEFINE P == [lib.pc EXCEPT ![t] = "free"]
           A == [lib.area EXCEPT ![t] = c[1]]
           S == [lib.slot EXCEPT ![t] = c[2]]
           R == ref \ {c}
<1>1. /\ lib.pc[t] = "idle" /\ ref' = ref \ {c}
      /\ lib' = [Goto(lib, t, "free") EXCEPT !.lock = t, !.area[t] = c[1], !.slot[t] = c[2]]
  BY DEF CapFree, Becomes
<1>2. c = <<c[1], c[2]>> /\ c[1] \in CapPages /\ c[2] \in SlotNos /\ c[2] \in Nat /\ c[1] \in CapPointers
  BY CapFacts DEF SlotNos, CapPointers
<1>3. CapWith(t, lib.desc, "free", c[1], c[2], R)
  BY <1>1, <1>2, CapFacts DEF CapWith, Goto, CapLib
<1>4. /\ P[t] = "free" /\ A[t] = c[1] /\ S[t] = c[2]
      /\ \A u \in CapThreads : u # t => P[u] = lib.pc[u] /\ A[u] = lib.area[u] /\ S[u] = lib.slot[u]
  BY CapFacts
<1>5. LookingOK(lib.desc, lib.pc, lib.area, lib.slot) /\ MarksOK(lib.desc, lib.pc, lib.area, lib.slot, ref)
  BY CapFacts DEF CapOK
<1>6. /\ \A p \in CapPages, i \in SlotNos :
            <<p, i>> \in R <=> <<p, i>> \in ref /\ ~(p = c[1] /\ i = c[2])
      /\ <<c[1], c[2]>> \in ref /\ R \in SUBSET (CapPages \X SlotNos)
  BY <1>2, CapFacts
<1>7. "free" \in HandPlaces /\ "idle" \notin HandPlaces /\ "free" \in CapPlaces
  BY DEF HandPlaces, CapPlaces
<1> HIDE DEF P, A, S, R
<1>8. LookingOK(lib.desc, P, A, S)
  BY <1>4, <1>5 DEF LookingOK
<1>9. MarksOK(lib.desc, P, A, S, R)
  <2>1. \A u \in CapThreads : P[u] \in HandPlaces /\ u # t =>
          /\ lib.pc[u] \in HandPlaces /\ A[u] = lib.area[u] /\ S[u] = lib.slot[u]
          /\ A[u] \in CapPages /\ S[u] \in SlotNos /\ <<A[u], S[u]>> \notin ref
    BY <1>4, <1>5 DEF MarksOK
  <2>2. \A u \in CapThreads : P[u] \in HandPlaces =>
          A[u] \in CapPages /\ S[u] \in SlotNos /\ <<A[u], S[u]>> \notin R
    BY <1>2, <1>4, <1>6, <2>1
  <2>3. \A u \in CapThreads : P[u] \in HandPlaces /\ u # t => A[u] # c[1] \/ S[u] # c[2]
    BY <1>6, <2>1
  <2>4. ASSUME NEW u \in CapThreads, NEW w \in CapThreads,
               P[u] \in HandPlaces, P[w] \in HandPlaces, u # w
        PROVE  A[u] # A[w] \/ S[u] # S[w]
    <3>1. CASE u # t /\ w # t
      <4>1. /\ lib.pc[u] \in HandPlaces /\ A[u] = lib.area[u] /\ S[u] = lib.slot[u]
            /\ lib.pc[w] \in HandPlaces /\ A[w] = lib.area[w] /\ S[w] = lib.slot[w]
        BY <2>1, <2>4, <3>1
      <4> QED BY <1>5, <2>4, <4>1 DEF MarksOK
    <3>2. CASE u = t \/ w = t
      BY <1>4, <2>3, <2>4, <3>2
    <3> QED BY <3>1, <3>2
  <2>5. ASSUME NEW p \in CapPages, NEW i \in SlotNos
        PROVE  i \in lib.desc[p].alloced <=>
                 <<p, i>> \in R \/ \E u \in CapThreads : P[u] \in HandPlaces /\ A[u] = p /\ S[u] = i
    <3>1. i \in lib.desc[p].alloced <=>
            <<p, i>> \in ref \/ \E u \in CapThreads :
                                  lib.pc[u] \in HandPlaces /\ lib.area[u] = p /\ lib.slot[u] = i
      BY <1>5 DEF MarksOK
    <3>2. ASSUME NEW u \in CapThreads, lib.pc[u] \in HandPlaces, lib.area[u] = p, lib.slot[u] = i
          PROVE  P[u] \in HandPlaces /\ A[u] = p /\ S[u] = i
      BY <1>1, <1>4, <1>7, <3>2
    <3>3. ASSUME NEW u \in CapThreads, P[u] \in HandPlaces, A[u] = p, S[u] = i
          PROVE  i \in lib.desc[p].alloced
      <4>1. CASE u = t
        BY <1>4, <1>6, <3>1, <3>3, <4>1
      <4>2. CASE u # t
        BY <2>1, <3>1, <3>3, <4>2
      <4> QED BY <4>1, <4>2
    <3>4. <<p, i>> \in ref => <<p, i>> \in R \/ (P[t] \in HandPlaces /\ A[t] = p /\ S[t] = i)
      BY <1>4, <1>6, <1>7
    <3>5. <<p, i>> \in R => <<p, i>> \in ref
      BY <1>6
    <3> QED BY <3>1, <3>2, <3>3, <3>4, <3>5
  <2> QED BY <2>2, <2>4, <2>5 DEF MarksOK
<1>10. CapOK(lib.desc, P, A, S, R)
  BY <1>8, <1>9 DEF CapOK
<1> QED BY <1>2, <1>3, <1>6, <1>7, <1>10, CapFacts, CapClose DEF P, A, S

\* The slot that t has found is marked: t has it in hand, or its client gets it.
LEMMA CapMarked ==
  ASSUME CapInv, NEW t \in CapThreads, lib.pc[t] = "mark", NEW D \in [CapPages -> CapDescs],
         NEW p \in CapPages, NEW s \in SlotNos, p = lib.area[t], s = lib.slot[t],
         \A q \in CapPages : q # p => D[q].alloced = lib.desc[q].alloced /\ D[q].lock = lib.desc[q].lock,
         D[p].alloced = lib.desc[p].alloced \cup {s},
         NEW to \in CapPlaces, NEW a \in CapPointers, NEW n \in Nat,
         NEW R \in SUBSET (CapPages \X SlotNos), CapWith(t, D, to, a, n, R),
         \/ to \in HandPlaces /\ a = p /\ n = s /\ R = ref
         \/ to = "idle" /\ R = ref \cup {<<p, s>>}
  PROVE  CapInv'
<1> DEFINE P == [lib.pc EXCEPT ![t] = to]
           A == [lib.area EXCEPT ![t] = a]
           S == [lib.slot EXCEPT ![t] = n]
<1>1. /\ P[t] = to /\ A[t] = a /\ S[t] = n
      /\ \A u \in CapThreads : u # t => P[u] = lib.pc[u] /\ A[u] = lib.area[u] /\ S[u] = lib.slot[u]
  BY CapFacts
<1>2. LookingOK(lib.desc, lib.pc, lib.area, lib.slot) /\ MarksOK(lib.desc, lib.pc, lib.area, lib.slot, ref)
  BY CapFacts DEF CapOK
<1>3. lib.desc[p].lock = t /\ s \notin lib.desc[p].alloced
  BY <1>2 DEF LookingOK
<1>4. "mark" \notin HandPlaces /\ "idle" \notin HandPlaces /\ to \notin {"find", "mark"}
  BY DEF HandPlaces
<1>5. \A q \in CapPages, i \in SlotNos : i \in D[q].alloced <=>
        i \in lib.desc[q].alloced \/ (q = p /\ i = s)
  OBVIOUS
<1>6. \A q \in CapPages, i \in SlotNos : <<q, i>> \in R <=>
        <<q, i>> \in ref \/ (to = "idle" /\ q = p /\ i = s)
  <2>1. CASE to \in HandPlaces /\ R = ref
    BY <1>4, <2>1
  <2>2. CASE to = "idle" /\ R = ref \cup {<<p, s>>}
    BY <2>2
  <2> QED BY <2>1, <2>2
<1> HIDE DEF P, A, S
<1>7. LookingOK(D, P, A, S)
  <2> SUFFICES ASSUME NEW u \in CapThreads
               PROVE  /\ P[u] \in {"find", "mark"} => A[u] \in CapPages /\ D[A[u]].lock = u
                      /\ P[u] = "mark" => S[u] \in SlotNos /\ S[u] \notin D[A[u]].alloced
    BY DEF LookingOK
  <2>1. CASE u = t
    BY <1>1, <1>4, <2>1
  <2>2. CASE u # t
    BY <1>1, <1>2, <1>3, <2>2 DEF LookingOK
  <2> QED BY <2>1, <2>2
<1>8. MarksOK(D, P, A, S, R)
  <2>1. \A u \in CapThreads : P[u] \in HandPlaces /\ u # t =>
          /\ lib.pc[u] \in HandPlaces /\ A[u] = lib.area[u] /\ S[u] = lib.slot[u]
          /\ A[u] \in CapPages /\ S[u] \in SlotNos /\ <<A[u], S[u]>> \notin ref
          /\ S[u] \in lib.desc[A[u]].alloced
    BY <1>1, <1>2 DEF MarksOK
  <2>2. \A u \in CapThreads : P[u] \in HandPlaces /\ u # t => A[u] # p \/ S[u] # s
    BY <1>3, <2>1
  <2>3. P[t] \in HandPlaces => A[t] = p /\ S[t] = s /\ to # "idle" /\ <<p, s>> \notin ref
    <3>1. <<p, s>> \notin ref
      BY <1>2, <1>3 DEF MarksOK
    <3> QED BY <1>1, <1>4, <3>1
  <2>4. \A u \in CapThreads : P[u] \in HandPlaces =>
          A[u] \in CapPages /\ S[u] \in SlotNos /\ <<A[u], S[u]>> \notin R
    <3>1. \A u \in CapThreads : P[u] \in HandPlaces =>
            A[u] \in CapPages /\ S[u] \in SlotNos /\ <<A[u], S[u]>> \notin ref
      BY <2>1, <2>3
    <3> QED BY <1>6, <2>2, <2>3, <3>1
  <2>5. ASSUME NEW u \in CapThreads, NEW w \in CapThreads,
               P[u] \in HandPlaces, P[w] \in HandPlaces, u # w
        PROVE  A[u] # A[w] \/ S[u] # S[w]
    <3>1. CASE u # t /\ w # t
      <4>1. /\ lib.pc[u] \in HandPlaces /\ A[u] = lib.area[u] /\ S[u] = lib.slot[u]
            /\ lib.pc[w] \in HandPlaces /\ A[w] = lib.area[w] /\ S[w] = lib.slot[w]
        BY <2>1, <2>5, <3>1
      <4> QED BY <1>2, <2>5, <4>1 DEF MarksOK
    <3>2. CASE u = t \/ w = t
      BY <2>2, <2>3, <2>5, <3>2
    <3> QED BY <3>1, <3>2
  <2>6. ASSUME NEW q \in CapPages, NEW i \in SlotNos
        PROVE  i \in D[q].alloced <=>
                 <<q, i>> \in R \/ \E u \in CapThreads : P[u] \in HandPlaces /\ A[u] = q /\ S[u] = i
    <3>1. i \in lib.desc[q].alloced <=>
            <<q, i>> \in ref \/ \E u \in CapThreads :
                                  lib.pc[u] \in HandPlaces /\ lib.area[u] = q /\ lib.slot[u] = i
      BY <1>2 DEF MarksOK
    <3>2. ASSUME NEW u \in CapThreads, lib.pc[u] \in HandPlaces, lib.area[u] = q, lib.slot[u] = i
          PROVE  P[u] \in HandPlaces /\ A[u] = q /\ S[u] = i
      BY <1>1, <1>4, <3>2
    <3>3. ASSUME NEW u \in CapThreads, P[u] \in HandPlaces, A[u] = q, S[u] = i
          PROVE  i \in D[q].alloced
      <4>1. CASE u = t
        BY <1>5, <2>3, <3>3, <4>1
      <4>2. CASE u # t
        BY <1>5, <2>1, <3>3, <4>2
      <4> QED BY <4>1, <4>2
    <3>4. q = p /\ i = s => <<q, i>> \in R \/ (P[t] \in HandPlaces /\ A[t] = q /\ S[t] = i)
      BY <1>1, <1>6
    <3>5. <<q, i>> \in R => i \in D[q].alloced
      BY <1>5, <1>6, <3>1
    <3>6. <<q, i>> \in ref => <<q, i>> \in R
      BY <1>6
    <3> QED BY <1>5, <3>1, <3>2, <3>3, <3>4, <3>5, <3>6
  <2> QED BY <2>4, <2>5, <2>6 DEF MarksOK
<1>9. CapOK(D, P, A, S, R)
  BY <1>7, <1>8 DEF CapOK
<1> QED BY <1>9, CapClose DEF P, A, S

LEMMA MarkSlotStep ==
  ASSUME CapInv, NEW t \in CapThreads, MarkSlot(t)
  PROVE  CapInv'
<1> DEFINE p == lib.area[t]
           s == lib.slot[t]
           d == [lib.desc[p] EXCEPT !.alloced = @ \cup {s}, !.lock = NoOne]
           D == [lib.desc EXCEPT ![p] = d]
           L == [lib EXCEPT !.desc[p] = d]
<1>1. lib.pc[t] = "mark"
  BY DEF MarkSlot
<1>2. p \in CapPages /\ s \in SlotNos /\ p \in CapPointers /\ s \in Nat
  BY <1>1, CapFacts DEF CapOK, LookingOK, CapPointers, SlotNos
<1>3. d \in CapDescs /\ d.alloced = lib.desc[p].alloced \cup {s}
  <2>1. lib.desc[p] \in CapDescs
    BY <1>2, CapFacts
  <2> QED BY <1>2, <2>1 DEF CapDescs
<1>4. /\ D \in [CapPages -> CapDescs] /\ D[p].alloced = lib.desc[p].alloced \cup {s}
      /\ \A q \in CapPages : q # p => D[q].alloced = lib.desc[q].alloced /\ D[q].lock = lib.desc[q].lock
  BY <1>2, <1>3, CapFacts
<1>5. \/ lib' = Goto(L, t, "last") /\ ref' = ref
      \/ lib' = Goto(L, t, "announce") /\ ref' = ref
      \/ lib' = Returns(L, t) /\ ref' = ref \cup {<<p, s>>}
  BY DEF MarkSlot, Becomes
<1>6. L = [lib EXCEPT !.desc = D]
  BY CapFacts DEF CapLib
<1>7. /\ {"last", "announce"} \subseteq CapPlaces \cap HandPlaces /\ "idle" \in CapPlaces
      /\ NoOne \in CapPointers /\ 0 \in Nat
  BY DEF CapPlaces, HandPlaces, CapPointers
<1> HIDE DEF d, D, L
<1>8. ASSUME NEW to \in {"last", "announce"}, lib' = Goto(L, t, to), ref' = ref
      PROVE  CapInv'
  <2>1. lib.area = [lib.area EXCEPT ![t] = p] /\ lib.slot = [lib.slot EXCEPT ![t] = s]
    BY CapFacts
  <2>2. CapWith(t, D, to, p, s, ref)
    BY <1>4, <1>6, <1>8, <2>1, CapFacts DEF CapWith, Goto, CapLib
  <2> QED BY <1>1, <1>2, <1>4, <1>7, <2>2, CapFacts, CapMarked
<1>9. ASSUME lib' = Returns(L, t), ref' = ref \cup {<<p, s>>}
      PROVE  CapInv'
  <2>1. CapWith(t, D, "idle", NoOne, 0, ref')
    BY <1>4, <1>6, <1>9, CapFacts DEF CapWith, Returns, CapLib
  <2>2. ref \cup {<<p, s>>} \in SUBSET (CapPages \X SlotNos)
    BY <1>2, CapFacts
  <2> DEFINE R == ref \cup {<<p, s>>}
  <2>3. CapWith(t, D, "idle", NoOne, 0, R) /\ R \in SUBSET (CapPages \X SlotNos)
    BY <1>9, <2>1, <2>2
  <2> QED BY <1>1, <1>2, <1>4, <1>7, <2>3, CapMarked
<1> QED BY <1>5, <1>8, <1>9

\* The slot in hand is cleared under the free lock of its cappage.
LEMMA CapCleared ==
  ASSUME CapInv, NEW t \in CapThreads, lib.pc[t] \in HandPlaces, NEW D \in [CapPages -> CapDescs],
         NEW p \in CapPages, NEW s \in SlotNos, p = lib.area[t], s = lib.slot[t],
         lib.desc[p].lock = NoOne,
         \A q \in CapPages : q # p => D[q].alloced = lib.desc[q].alloced /\ D[q].lock = lib.desc[q].lock,
         D[p].alloced = lib.desc[p].alloced \ {s},
         NEW to \in {"idle", "discard"}, CapWith(t, D, to, NoOne, 0, ref)
  PROVE  CapInv'
<1> DEFINE P == [lib.pc EXCEPT ![t] = to]
           A == [lib.area EXCEPT ![t] = NoOne]
           S == [lib.slot EXCEPT ![t] = 0]
<1>1. /\ P[t] = to
      /\ \A u \in CapThreads : u # t => P[u] = lib.pc[u] /\ A[u] = lib.area[u] /\ S[u] = lib.slot[u]
  BY CapFacts
<1>2. LookingOK(lib.desc, lib.pc, lib.area, lib.slot) /\ MarksOK(lib.desc, lib.pc, lib.area, lib.slot, ref)
  BY CapFacts DEF CapOK
<1>3. to \notin HandPlaces /\ to \notin {"find", "mark"} /\ to \in CapPlaces
  BY DEF HandPlaces, CapPlaces
<1>4. \A q \in CapPages, i \in SlotNos : i \in D[q].alloced <=>
        i \in lib.desc[q].alloced /\ ~(q = p /\ i = s)
  OBVIOUS
<1> HIDE DEF P, A, S
<1>5. LookingOK(D, P, A, S)
  <2> SUFFICES ASSUME NEW u \in CapThreads
               PROVE  /\ P[u] \in {"find", "mark"} => A[u] \in CapPages /\ D[A[u]].lock = u
                      /\ P[u] = "mark" => S[u] \in SlotNos /\ S[u] \notin D[A[u]].alloced
    BY DEF LookingOK
  <2>1. CASE u = t
    BY <1>1, <1>3, <2>1
  <2>2. CASE u # t
    <3>1. u # NoOne
      BY SlotsAssumption
    <3> QED BY <1>1, <1>2, <2>2, <3>1 DEF LookingOK
  <2> QED BY <2>1, <2>2
<1>6. MarksOK(D, P, A, S, ref)
  <2>1. \A u \in CapThreads : P[u] \in HandPlaces =>
          /\ u # t /\ lib.pc[u] \in HandPlaces /\ A[u] = lib.area[u] /\ S[u] = lib.slot[u]
          /\ A[u] \in CapPages /\ S[u] \in SlotNos /\ <<A[u], S[u]>> \notin ref
          /\ (A[u] # p \/ S[u] # s) /\ S[u] \in lib.desc[A[u]].alloced
    BY <1>1, <1>2, <1>3 DEF MarksOK
  <2>2. ASSUME NEW u \in CapThreads, NEW w \in CapThreads,
               P[u] \in HandPlaces, P[w] \in HandPlaces, u # w
        PROVE  A[u] # A[w] \/ S[u] # S[w]
    <3>1. /\ lib.pc[u] \in HandPlaces /\ A[u] = lib.area[u] /\ S[u] = lib.slot[u]
          /\ lib.pc[w] \in HandPlaces /\ A[w] = lib.area[w] /\ S[w] = lib.slot[w]
      BY <2>1, <2>2
    <3> QED BY <1>2, <2>2, <3>1 DEF MarksOK
  <2>3. ASSUME NEW q \in CapPages, NEW i \in SlotNos
        PROVE  i \in D[q].alloced <=>
                 <<q, i>> \in ref \/ \E u \in CapThreads : P[u] \in HandPlaces /\ A[u] = q /\ S[u] = i
    <3>1. i \in lib.desc[q].alloced <=>
            <<q, i>> \in ref \/ \E u \in CapThreads :
                                  lib.pc[u] \in HandPlaces /\ lib.area[u] = q /\ lib.slot[u] = i
      BY <1>2 DEF MarksOK
    <3>2. <<p, s>> \notin ref
      BY <1>2 DEF MarksOK
    <3>3. ASSUME NEW u \in CapThreads, lib.pc[u] \in HandPlaces, lib.area[u] = q, lib.slot[u] = i
          PROVE  (q = p /\ i = s) \/ (P[u] \in HandPlaces /\ A[u] = q /\ S[u] = i)
      BY <1>1, <3>3
    <3>4. ASSUME NEW u \in CapThreads, P[u] \in HandPlaces, A[u] = q, S[u] = i
          PROVE  i \in D[q].alloced
      BY <1>4, <2>1, <3>4
    <3>5. <<q, i>> \in ref => i \in D[q].alloced
      BY <1>4, <3>1, <3>2
    <3> QED BY <1>4, <3>1, <3>3, <3>4, <3>5
  <2> QED BY <2>1, <2>2, <2>3 DEF MarksOK
<1>7. CapOK(D, P, A, S, ref)
  BY <1>5, <1>6 DEF CapOK
<1>8. NoOne \in CapPointers /\ 0 \in Nat
  BY DEF CapPointers
<1> QED BY <1>3, <1>7, <1>8, CapFacts, CapClose DEF P, A, S

LEMMA FreeSlotStep ==
  ASSUME CapInv, NEW t \in CapThreads, FreeSlot(t)
  PROVE  CapInv'
<1> DEFINE p == lib.area[t]
           s == lib.slot[t]
           d == [lib.desc[p] EXCEPT !.alloced = @ \ {s}]
           e == [d EXCEPT !.lock = t]
           L == [Returns(lib, t) EXCEPT !.lock = NoOne, !.desc[p] = d]
           M == [Goto(L, t, "discard") EXCEPT !.desc[p].lock = t]
           D == [lib.desc EXCEPT ![p] = d]
           E == [lib.desc EXCEPT ![p] = e]
<1>1. lib.pc[t] = "free" /\ lib.desc[p].lock = NoOne /\ ref' = ref
  BY DEF FreeSlot, Becomes
<1>2. lib.pc[t] \in HandPlaces /\ {"idle", "discard"} \subseteq CapPlaces /\ NoOne \in CapPointers
  BY <1>1 DEF HandPlaces, CapPlaces, CapPointers
<1>3. p \in CapPages /\ s \in SlotNos
  BY <1>2, CapFacts DEF CapOK, MarksOK
<1>4. /\ d \in CapDescs /\ d.alloced = lib.desc[p].alloced \ {s}
      /\ e \in CapDescs /\ e.alloced = lib.desc[p].alloced \ {s}
  <2>0. lib.desc[p] \in CapDescs
    BY <1>3, CapFacts
  <2>1. d \in CapDescs /\ d.alloced = lib.desc[p].alloced \ {s}
    BY <1>3, <2>0 DEF CapDescs
  <2> HIDE DEF d
  <2>2. e \in CapDescs /\ e.alloced = d.alloced
    BY <2>1 DEF CapDescs
  <2> QED BY <2>1, <2>2
<1>5. /\ D \in [CapPages -> CapDescs] /\ D[p].alloced = lib.desc[p].alloced \ {s}
      /\ \A q \in CapPages : q # p => D[q].alloced = lib.desc[q].alloced /\ D[q].lock = lib.desc[q].lock
      /\ E \in [CapPages -> CapDescs] /\ E[p].alloced = lib.desc[p].alloced \ {s}
      /\ \A q \in CapPages : q # p => E[q].alloced = lib.desc[q].alloced /\ E[q].lock = lib.desc[q].lock
  BY <1>3, <1>4, CapFacts
<1>6. L = [Returns(lib, t) EXCEPT !.lock = NoOne, !.desc = D]
  BY CapFacts DEF Returns, CapLib
<1>7. E = [D EXCEPT ![p].lock = t]
  BY <1>3, CapFacts
<1>8. /\ L \in CapLib /\ L.desc = D /\ L.pc = [lib.pc EXCEPT ![t] = "idle"]
      /\ L.area = [lib.area EXCEPT ![t] = NoOne] /\ L.slot = [lib.slot EXCEPT ![t] = 0]
  <2> HIDE DEF D, L
  <2> QED BY <1>2, <1>5, <1>6, CapFacts DEF Returns, CapLib
<1>9. M = [L EXCEPT !.pc[t] = "discard", !.desc = E]
  <2> HIDE DEF D, E, L
  <2> QED BY <1>7, <1>8 DEF Goto, CapLib
<1>10. [L.pc EXCEPT ![t] = "discard"] = [lib.pc EXCEPT ![t] = "discard"]
  <2> HIDE DEF D, E, L
  <2> QED BY <1>8, CapFacts
<1>11. /\ M \in CapLib /\ M.desc = E /\ M.pc = [lib.pc EXCEPT ![t] = "discard"]
       /\ M.area = [lib.area EXCEPT ![t] = NoOne] /\ M.slot = [lib.slot EXCEPT ![t] = 0]
  <2> HIDE DEF D, E, L, M
  <2> QED BY <1>2, <1>5, <1>8, <1>9, <1>10, CapFacts DEF CapLib
<1> DEFINE Ends(X) == /\ X \in CapLib /\ X.desc = D /\ X.pc = [lib.pc EXCEPT ![t] = "idle"]
                      /\ X.area = [lib.area EXCEPT ![t] = NoOne] /\ X.slot = [lib.slot EXCEPT ![t] = 0]
           Goes(X) == /\ X \in CapLib /\ X.desc = E /\ X.pc = [lib.pc EXCEPT ![t] = "discard"]
                      /\ X.area = [lib.area EXCEPT ![t] = NoOne] /\ X.slot = [lib.slot EXCEPT ![t] = 0]
<1>12. \/ lib' = list_link(L, p)
       \/ lib' = L
       \/ lib' = [M EXCEPT !.failed = TRUE]
       \/ lib' = list_unlink(M, p)
  BY DEF FreeSlot, Becomes
<1> HIDE DEF D, E, L, M, d, e
<1>13. Ends(list_link(L, p)) /\ Ends(L)
  BY <1>3, <1>8, LinkTyped
<1>14. Goes(list_unlink(M, p))
  BY <1>3, <1>11, UnlinkTyped
<1>15. Goes([M EXCEPT !.failed = TRUE])
  BY <1>11 DEF CapLib
<1>16. CASE lib' \in CapLib /\ Ends(lib')
  <2>1. CapWith(t, D, "idle", NoOne, 0, ref)
    BY <1>1, <1>16 DEF CapWith, CapLib
  <2> QED BY <1>1, <1>2, <1>3, <1>5, <2>1, CapCleared
<1>17. CASE lib' \in CapLib /\ Goes(lib')
  <2>1. CapWith(t, E, "discard", NoOne, 0, ref)
    BY <1>1, <1>17 DEF CapWith, CapLib
  <2> QED BY <1>1, <1>2, <1>3, <1>5, <2>1, CapCleared
<1> QED BY <1>12, <1>13, <1>14, <1>15, <1>16, <1>17

LEMMA DiscardStep ==
  ASSUME CapInv, NEW t \in CapThreads, Discard(t)
  PROVE  CapInv'
<1>1. lib' = [lib EXCEPT !.failed = TRUE] /\ ref' = ref
  BY DEF Discard, Becomes
<1>2. /\ lib' \in CapLib /\ lib'.desc = lib.desc /\ lib'.pc = lib.pc /\ lib'.area = lib.area
      /\ lib'.slot = lib.slot
  BY <1>1, CapFacts DEF CapLib
<1> QED BY <1>1, <1>2 DEF CapInv

LEMMA CapStart ==
  ASSUME CapInit
  PROVE  CapInv
<1>1. /\ lib.kind = CapKind /\ lib.lock = NoOne /\ lib.head = NoOne
      /\ lib.next = [p \in CapPages |-> NoOne] /\ lib.prevp = [p \in CapPages |-> NoOne]
      /\ lib.desc = [p \in CapPages |-> NoArea] /\ lib.pc = [t \in CapThreads |-> "idle"]
      /\ lib.area = [t \in CapThreads |-> NoOne] /\ lib.slot = [t \in CapThreads |-> 0]
      /\ lib.failed = FALSE /\ ref = {}
  BY DEF CapInit
<1>2. NoArea \in CapDescs /\ NoArea.alloced = {}
  BY DEF NoArea, CapDescs
<1>3. lib \in CapLib
  BY <1>2 DEF CapInit, CapLib, CapPlaces, CapPointers
<1>4. /\ \A t \in CapThreads : lib.pc[t] = "idle" /\ "idle" \notin HandPlaces
      /\ \A p \in CapPages : lib.desc[p].alloced = {}
  BY <1>1, <1>2 DEF HandPlaces
<1>5. LookingOK(lib.desc, lib.pc, lib.area, lib.slot)
  BY <1>4 DEF LookingOK
<1>6. MarksOK(lib.desc, lib.pc, lib.area, lib.slot, ref)
  BY <1>1, <1>4 DEF MarksOK
<1> QED BY <1>1, <1>3, <1>5, <1>6 DEF CapInv, CapOK

LEMMA CapStepInv ==
  ASSUME CapInv, [CapNext]_vars
  PROVE  CapInv'
<1>1. CASE UNCHANGED vars
  BY <1>1 DEF CapInv, vars
<1>2. CASE CapNext
  <2>1. PICK t \in CapThreads :
          \/ Capalloc(t) \/ Pluck(t)
          \/ NewArea(t) \/ NoStorage(t) \/ FindSlot(t) \/ MarkSlot(t)
          \/ LockDescs(t, "last", "unlink") \/ UnlinkFull(t)
          \/ LockDescs(t, "announce", "link") \/ Announce(t)
          \/ \E c \in ref : CapFree(t, c)
          \/ FreeSlot(t) \/ Discard(t)
    BY <1>2 DEF CapNext
  <2>2. CASE Capalloc(t) \/ Pluck(t) \/ NewArea(t) \/ NoStorage(t) \/ FindSlot(t) \/ MarkSlot(t)
    BY <2>2, CapallocStep, CapPluckStep, NewAreaStep, NoStorageStep, FindSlotStep, MarkSlotStep
  <2>3. CASE LockDescs(t, "last", "unlink") \/ LockDescs(t, "announce", "link")
    BY <2>3, CapLockStep
  <2>4. CASE UnlinkFull(t) \/ Announce(t) \/ FreeSlot(t) \/ Discard(t)
    BY <2>4, UnlinkFullStep, AnnounceStep, FreeSlotStep, DiscardStep
  <2>5. CASE \E c \in ref : CapFree(t, c)
    BY <2>5, CapFreeStep
  <2> QED BY <2>1, <2>2, <2>3, <2>4, <2>5
<1> QED BY <1>1, <1>2

LEMMA CapInvAgrees ==
  ASSUME CapInv
  PROVE  CapsAgree
<1>1. \A t \in CapThreads : t \in Handling <=> lib.pc[t] \in HandPlaces
  BY DEF Handling, HandPlaces
<1>2. Handling \subseteq CapThreads
  BY DEF Handling
<1>3. MarksOK(lib.desc, lib.pc, lib.area, lib.slot, ref)
  BY CapFacts DEF CapOK
<1>4. \A t \in Handling : InHand(t) \notin ref
  BY <1>1, <1>2, <1>3 DEF MarksOK, InHand
<1>5. \A t, u \in Handling : t # u => InHand(t) # InHand(u)
  BY <1>1, <1>2, <1>3 DEF MarksOK, InHand
<1>6. \A p \in CapPages, i \in SlotNos :
        i \in lib.desc[p].alloced <=> <<p, i>> \in ref \/ \E t \in Handling : InHand(t) = <<p, i>>
  <2> SUFFICES ASSUME NEW p \in CapPages, NEW i \in SlotNos
               PROVE  i \in lib.desc[p].alloced <=>
                        <<p, i>> \in ref \/ \E t \in Handling : InHand(t) = <<p, i>>
    OBVIOUS
  <2>1. i \in lib.desc[p].alloced <=>
          <<p, i>> \in ref \/ \E t \in CapThreads :
                                lib.pc[t] \in HandPlaces /\ lib.area[t] = p /\ lib.slot[t] = i
    BY <1>3 DEF MarksOK
  <2>2. \A t \in CapThreads : InHand(t) = <<p, i>> <=> lib.area[t] = p /\ lib.slot[t] = i
    BY DEF InHand
  <2> QED BY <1>1, <1>2, <2>1, <2>2
<1> QED BY <1>4, <1>5, <1>6 DEF CapsAgree

\* In every state of the allocator, for any number of threads, cappages and
\* slots: a slot that is marked belongs to one client or is in the hands of one
\* call, whatever the calls between capalloc's unlock and unlink (capalloc.c:216)
\* do to the list.
THEOREM CapsHold == CapSpec => []CapsAgree
<1>1. CapInit => CapInv
  BY CapStart
<1>2. CapInv /\ [CapNext]_vars => CapInv'
  BY CapStepInv
<1>3. CapInv => CapsAgree
  BY CapInvAgrees
<1> QED BY <1>1, <1>2, <1>3, PTL DEF CapSpec

=============================================================================
