------------------------------- MODULE Frames --------------------------------
(***************************************************************************)
(* Who is charged for the physical memory (viengoos/object.c, pager.c,     *)
(* ager.c, memory.c, activity.c): each frame in use is claimed by one      *)
(* activity and is on the list its descriptor calls for; the pager turns   *)
(* frames into eviction candidates, clean candidates are reused, the ager  *)
(* collects the reference bits and takes shared frames back from their     *)
(* users.                                                                  *)
(*                                                                         *)
(* Every frame holds a page.  The order inside a list is left out: where   *)
(* the code takes the first or the last element, the model takes any.  An  *)
(* age is active or not; there is no disk, so nothing cleans a dirty frame.*)
(* Each action is a handler of the server or a visit of the ager, both of  *)
(* which hold kernel_lock.  The ager's batch is one frame.                 *)
(***************************************************************************)
EXTENDS Integers, FiniteSets, SequencesExt

CONSTANTS
    Frames,           \* the frames of memory
    Activities,       \* the activities
    Parent,           \* the parent of each activity, None for the root
    Mortal,           \* the activities that may be destroyed
    Policies,         \* the policies capabilities carry
    Goals,            \* the goals of collections that an activity is told about
    FreeAllocations,  \* what it may allocate meanwhile (1000 in the code)
    BadKarma,         \* how often it is then collected from (8 in the code)
    None

Priorities == {"low", "lru", "high"}

ASSUME FramesAssumption ==
    /\ IsFiniteSet(Frames) /\ IsFiniteSet(Activities)
    /\ Parent \in [Activities -> Activities \cup {None}]
    /\ Mortal \subseteq {a \in Activities : \A b \in Activities : Parent[b] # a}
    /\ \A a \in Mortal : Parent[a] # None
    /\ Policies \subseteq [discardable : BOOLEAN, priority : Priorities]
    /\ \A g \in Goals : g \in Nat /\ g >= 2
    /\ FreeAllocations \in Nat \ {0} /\ BadKarma \in Nat \ {0}
    /\ None \notin Activities \cup Frames

\* activity_for_each_ancestor: the activity and those above it.
Above[a \in Activities] ==
    {b \in Activities :
        \A S \in SUBSET Activities :
            a \in S /\ (\A c \in S : Parent[c] # None => Parent[c] \in S) => b \in S}

VARIABLES
    desc,        \* object_descs: the descriptor of each frame
    lists,       \* the lists of frames of each activity
    act,         \* the counters of each activity
    laundry,     \* dirty candidates, to be written out
    available,   \* clean or discardable candidates, to be reused
    alive,       \* the activities not yet destroyed
    mapped,      \* the hardware: frames mapped to users
    written,     \* the hardware: frames with the written bit set
    modified,    \* history: frames written to since they were set up
    reply,       \* the frame of a fault whose reply is not sent, or None
    failed       \* whether an assertion of activity_destroy stopped the kernel

vars == <<desc, lists, act, laundry, available, alive, mapped, written, modified, reply, failed>>

Unused == [live |-> FALSE, activity |-> None, eviction_candidate |-> FALSE,
           dirty |-> FALSE, discardable |-> FALSE, priority |-> "lru",
           active |-> FALSE, mapped |-> FALSE, shared |-> FALSE, floating |-> FALSE]

\* priorities is a tree in the code.
ListNames == {"priorities", "active", "inactive", "eviction_clean", "eviction_dirty"}

Idle == [frames_local |-> 0, frames_total |-> 0, frames_pending_eviction |-> 0,
         frames_excluded |-> 0, free_goal |-> 0, free_allocations |-> 0,
         free_initial_allocation |-> 0, free_bad_karma |-> 0]

Init ==
    /\ desc = [f \in Frames |-> Unused]
    /\ lists = [a \in Activities |-> [l \in ListNames |-> {}]]
    /\ act = [a \in Activities |-> Idle]
    /\ laundry = {} /\ available = {}
    /\ alive = Activities
    /\ mapped = {} /\ written = {} /\ modified = {}
    /\ reply = None
    /\ failed = FALSE

(***************************************************************************)
(* The part of the state a handler changes step by step.                   *)
(***************************************************************************)
Now == [desc |-> desc, lists |-> lists, act |-> act, laundry |-> laundry,
        available |-> available, mapped |-> mapped, written |-> written]

Becomes(s) ==
    /\ desc' = s.desc /\ lists' = s.lists /\ act' = s.act
    /\ laundry' = s.laundry /\ available' = s.available
    /\ mapped' = s.mapped /\ written' = s.written

\* The candidates that have to be written out before they can be reused.
Precious(d) == d.dirty /\ ~d.discardable

\* The list of its owner that a descriptor calls for.
ListOf(d) ==
    IF d.eviction_candidate THEN IF Precious(d) THEN "eviction_dirty" ELSE "eviction_clean"
    ELSE IF d.priority # "lru" THEN "priorities"
    ELSE IF d.active THEN "active" ELSE "inactive"

-----------------------------------------------------------------------------
(* Accounting. *)

\* activity_charge: n frames for a and, in the totals, for those above it.
Charge(A, a, n) ==
    [x \in Activities |->
        [A[x] EXCEPT !.frames_local = IF x = a THEN @ + n ELSE @,
                     !.frames_total = IF x \in Above[a] THEN @ + n ELSE @]]

Pending(A, a, n) ==
    [x \in Activities |->
        [A[x] EXCEPT !.frames_pending_eviction = IF x \in Above[a] THEN @ + n ELSE @]]

Exclude(A, a, n) ==
    [x \in Activities |->
        [A[x] EXCEPT !.frames_excluded = IF x \in Above[a] THEN @ + n ELSE @]]

\* Mutant: the exclusion outlives the goal.
MetGoal_StaysExcluded(A, a) ==
    IF A[a].free_goal = 0 THEN A
    ELSE IF A[a].free_goal > 1 THEN [A EXCEPT ![a].free_goal = @ - 1]
    ELSE [A EXCEPT ![a] = [@ EXCEPT !.free_goal = 0, !.free_allocations = 0]]

\* The activity gave up a frame.
MetGoal(A, a) ==
    IF A[a].free_goal = 0 THEN A
    ELSE IF A[a].free_goal > 1 THEN [A EXCEPT ![a].free_goal = @ - 1]
    ELSE Exclude([A EXCEPT ![a] = [@ EXCEPT !.free_goal = 0, !.free_allocations = 0]],
                 a, 0 - A[a].free_initial_allocation)

\* The activity got a frame: it runs out of the allocations it was allowed.
UsedAllocation(A, a) ==
    LET karma == IF A[a].free_goal # 0 THEN BadKarma ELSE A[a].free_bad_karma
    IN  IF A[a].free_allocations = 0 THEN A
        ELSE IF A[a].free_allocations > 1 THEN [A EXCEPT ![a].free_allocations = @ - 1]
        ELSE Exclude([A EXCEPT ![a] = [@ EXCEPT !.free_allocations = 0, !.free_goal = 0,
                                                !.free_bad_karma = karma]],
                     a, 0 - A[a].free_initial_allocation)

-----------------------------------------------------------------------------
(* object_desc_claim *)

\* A change of owner, or the rescue of a clean candidate, moves the charge.
Moves(d, b) == b # d.activity \/ (d.eviction_candidate /\ ~Precious(d))

(***************************************************************************)
(* The frame leaves its old owner's lists.  The list is the one its        *)
(* descriptor calls for, which is why the two must never disagree.         *)
(***************************************************************************)
Disconnect(s, f, b) ==
    LET d == s.desc[f]
        a == d.activity
        dirty == d.eviction_candidate /\ Precious(d)
        clean == d.eviction_candidate /\ ~Precious(d)
        A == IF dirty THEN Pending(s.act, a, -1) ELSE s.act
        C == IF b # a /\ ~clean THEN Charge(A, a, -1) ELSE A
    IN  [s EXCEPT !.lists[a][ListOf(d)] = @ \ {f},
                  !.act = IF Moves(d, b) THEN MetGoal(C, a) ELSE C,
                  !.laundry = IF dirty THEN @ \ {f} ELSE @,
                  !.available = IF clean THEN @ \ {f} ELSE @]

\* The frame joins the lists of its new owner, as active.
Connect(s, f, b, policy) ==
    LET d == s.desc[f]
        e == [d EXCEPT !.priority = policy.priority, !.discardable = policy.discardable,
                       !.active = TRUE, !.eviction_candidate = FALSE, !.activity = b]
    IN  [s EXCEPT !.lists[b][ListOf(e)] = @ \cup {f},
                  !.act = IF Moves(d, b) THEN UsedAllocation(Charge(@, b, 1), b) ELSE @,
                  !.desc[f] = e]

\* object_desc_claim; b is None when the frame is given up.
Claim(s, b, f, policy) ==
    LET d == s.desc[f]
        left == IF d.activity = None THEN s ELSE Disconnect(s, f, b)
    IN  IF d.activity = b /\ ~d.eviction_candidate /\ d.priority = policy.priority
        THEN [s EXCEPT !.desc[f].discardable = policy.discardable]
        ELSE IF b = None THEN left
        ELSE Connect(left, f, b, policy)

-----------------------------------------------------------------------------
(* object_desc_unmap, object_desc_flush, object_find_soft *)

Unmap(s, f) ==
    IF ~s.desc[f].mapped THEN s
    ELSE [s EXCEPT !.desc[f] = [s.desc[f] EXCEPT !.mapped = FALSE, !.dirty = @ \/ f \in s.written],
                   !.mapped = @ \ {f}, !.written = @ \ {f}]

\* Also asks for the status bits of mappings object_desc_unmap left alone.  The
\* pager does not ask for those of a frame that is dirty and referenced, where
\* they tell nothing new.
Flush(s, f) ==
    LET t == Unmap(s, f)
    IN  [t EXCEPT !.desc[f].dirty = @ \/ f \in t.written, !.written = @ \ {f}]

\* object_find_soft of a frame that holds an object.
Find(s, a, f, policy) ==
    LET d == s.desc[f]
    IN  IF \/ ~d.active
           \/ d.activity # a /\ d.floating
           \/ d.eviction_candidate
        THEN [Claim(s, a, f, policy) EXCEPT !.desc[f].floating = FALSE]
        ELSE IF d.activity # a THEN [s EXCEPT !.desc[f].shared = TRUE]
        ELSE s

PolicyOf(d) == [discardable |-> d.discardable, priority |-> d.priority]

\* cap_shootdown of a capability that designates the page.
Shootdown(s, a, f) == Unmap(Find(s, a, f, PolicyOf(s.desc[f])), f)

\* memory_object_destroy: the frame is nobody's.
Release(s, a, f) ==
    LET t == Shootdown(s, a, f)
    IN  [Claim(t, None, f, PolicyOf(t.desc[f])) EXCEPT !.desc[f] = Unused]

\* The server handles one message at a time, after it sent the last reply.
Serving(a) == ~failed /\ reply = None /\ a \in alive

-----------------------------------------------------------------------------
(* memory_frame_allocate and memory_object_alloc *)

\* A frame of the free pool or, when that is empty, an available one.
Reusable(f) ==
    \/ ~desc[f].live
    \/ f \in available /\ \A g \in Frames : desc[g].live

\* A page gets a frame.  The new descriptor is all zero until it is claimed.
FrameAlloc(a, f, policy) ==
    /\ Serving(a)
    /\ Reusable(f)
    /\ LET s == IF desc[f].live THEN Release(Now, a, f) ELSE Now
           t == [s EXCEPT !.desc[f] = [Unused EXCEPT !.live = TRUE],
                          !.written = @ \ {f}]
       IN  Becomes(Claim(t, a, f, policy))
    /\ modified' = modified \ {f}
    /\ UNCHANGED <<alive, reply, failed>>

\* folio_object_alloc with cap_void, or RM_object_discard.
FrameFree(a, f, policy) ==
    /\ Serving(a) /\ desc[f].live
    /\ Becomes(Release(Find(Now, a, f, policy), a, f))
    /\ modified' = modified \ {f}
    /\ UNCHANGED <<alive, reply, failed>>

\* folio_object_alloc: the page is cleared and starts a new life.
Realloc(a, f, policy) ==
    /\ Serving(a) /\ desc[f].live
    /\ LET s == Flush(Shootdown(Find(Now, a, f, policy), a, f), f)
           t == Claim([s EXCEPT !.desc[f].dirty = FALSE], a, f, policy)
       IN  Becomes([t EXCEPT !.desc[f].shared = FALSE])
    /\ modified' = modified \ {f}
    /\ UNCHANGED <<alive, reply, failed>>

\* Any handler that looks the page up.
Lookup(a, f, policy) ==
    /\ Serving(a) /\ desc[f].live
    /\ Becomes(Find(Now, a, f, policy))
    /\ UNCHANGED <<modified, alive, reply, failed>>

\* RM_cap_rubout of a capability that designates the page.
CapRubout(a, f, policy) ==
    /\ Serving(a) /\ desc[f].live
    /\ Becomes(Unmap(Find(Now, a, f, policy), f))
    /\ UNCHANGED <<modified, alive, reply, failed>>

\* RM_cap_copy with a new policy: only the claimant sets the priority.
SetPolicy(a, f, policy) ==
    /\ Serving(a) /\ desc[f].live
    /\ LET s == Find(Now, a, f, policy)
           d == s.desc[f]
           p == [discardable |-> policy.discardable,
                 priority |-> IF d.activity = a THEN policy.priority ELSE d.priority]
       IN  Becomes(Claim(s, d.activity, f, p))
    /\ UNCHANGED <<modified, alive, reply, failed>>

-----------------------------------------------------------------------------
(* Page faults and the users' accesses. *)

\* The fault handler notes the mapping before its reply makes it.
Fault(a, f, policy) ==
    /\ Serving(a) /\ desc[f].live
    /\ LET s == [Find(Now, a, f, policy) EXCEPT !.desc[f].mapped = TRUE]
       IN  Becomes(s)
    /\ reply' = f
    /\ UNCHANGED <<modified, alive, failed>>

\* The reply, sent with kernel_lock released, maps the page.  The ager may have
\* visited the frame since the handler ended.
SendReply ==
    /\ ~failed /\ reply # None
    /\ mapped' = mapped \cup {reply}
    /\ reply' = None
    /\ UNCHANGED <<desc, lists, act, laundry, available, written, modified, alive, failed>>

\* A user writes to the page.
UserWrite(f) ==
    /\ ~failed /\ f \in mapped
    /\ written' = written \cup {f}
    /\ modified' = modified \cup {f}
    /\ UNCHANGED <<desc, lists, act, laundry, available, alive, mapped, reply, failed>>

-----------------------------------------------------------------------------
(* The ager. *)

\* The lists after frame f of activity a was found to be active, or not.
Moved(a, f, active) ==
    [lists EXCEPT ![a] = [l \in ListNames |->
        IF l = "active" THEN IF active THEN @[l] \cup {f} ELSE @[l] \ {f}
        ELSE IF l = "inactive" THEN IF active THEN @[l] \ {f} ELSE @[l] \cup {f}
        ELSE @[l]]]

\* Mutant: the dirty bit is only kept for frames that were active.
AgerVisit_ActiveOnly(f, period, referenced, ages) ==
    LET d == desc[f]
        w == f \in written
        active == referenced \/ (d.active /\ ~ages)
    IN  /\ ~failed /\ d.live /\ ~d.eviction_candidate
        /\ w => referenced
        /\ desc' = [desc EXCEPT ![f] =
                       [d EXCEPT !.active = active, !.dirty = @ \/ (w /\ d.active),
                                 !.mapped = @ /\ ~(period /\ d.shared),
                                 !.floating = @ \/ (period /\ d.shared)]]
        /\ lists' = IF d.priority = "lru" THEN Moved(d.activity, f, active) ELSE lists
        /\ mapped' = IF period /\ d.shared THEN mapped \ {f} ELSE mapped
        /\ written' = written \ {f}
        /\ UNCHANGED <<act, laundry, available, modified, alive, reply, failed>>

(***************************************************************************)
(* ager_loop visits a frame.  In every eighth period (period) a shared     *)
(* frame is taken from its users and floats.  The hardware's bits are read *)
(* and cleared; a page is also referenced when the kernel itself looked at *)
(* it.  An unreferenced page may age to zero (ages).                       *)
(***************************************************************************)
AgerVisit(f, period, referenced, ages) ==
    LET d == desc[f]
        active == referenced \/ (d.active /\ ~ages)
        takes == period /\ d.shared
    IN  /\ ~failed /\ d.live /\ ~d.eviction_candidate
        /\ f \in written => referenced
        /\ desc' = [desc EXCEPT ![f] =
                       [d EXCEPT !.active = active, !.dirty = @ \/ f \in written,
                                 !.mapped = @ /\ ~takes, !.floating = @ \/ takes]]
        /\ lists' = IF d.priority = "lru" THEN Moved(d.activity, f, active) ELSE lists
        /\ mapped' = IF takes THEN mapped \ {f} ELSE mapped
        /\ written' = written \ {f}
        /\ UNCHANGED <<act, laundry, available, modified, alive, reply, failed>>

-----------------------------------------------------------------------------
(* The pager. *)

\* reclaim_from: one frame becomes a candidate.  A dirty one stays charged.
Evict(s, f) ==
    LET t == Flush(s, f)
        e == [t.desc[f] EXCEPT !.eviction_candidate = TRUE]
        a == e.activity
        u == [t EXCEPT !.desc[f] = e,
                       !.lists[a] = [l \in ListNames |-> IF l = ListOf(e) THEN @[l] \cup {f}
                                                         ELSE @[l] \ {f}]]
    IN  IF Precious(e) THEN [u EXCEPT !.laundry = @ \cup {f}, !.act = Pending(@, a, 1)]
        ELSE [u EXCEPT !.available = @ \cup {f}, !.act = Charge(@, a, -1)]

\* The frames of a list become candidates, one after the other.
EvictAll(s, list) ==
    LET at[i \in 0..Len(list)] == IF i = 0 THEN s ELSE Evict(at[i - 1], list[i])
    IN  at[Len(list)]

\* The order in which reclaim_from goes through a victim's frames.
Rank(f) ==
    LET d == desc[f]
    IN  IF d.priority = "low" THEN 1
        ELSE IF d.priority = "high" THEN 4
        ELSE IF d.active THEN 3 ELSE 2

\* What reclaim_from may take from the victim.
Yields(v) == lists[v]["priorities"] \cup lists[v]["active"] \cup lists[v]["inactive"]

\* pager_collect finds frames to take from the activity and those below it.
Excess(a) ==
    act[a].frames_total - act[a].frames_excluded - act[a].frames_pending_eviction > 0

\* pager_collect finds frames of the activity's own.  With children it may
\* be considered before them, and then only its own grace excludes it.
Chosen(v) ==
    /\ \A a \in Above[v] : Parent[a] # None => Excess(a)
    /\ \/ act[v].frames_local - act[v].frames_excluded - Cardinality(lists[v]["eviction_dirty"]) > 0
       \/ /\ \E b \in alive : Parent[b] = v
          /\ act[v].free_allocations = 0
          /\ act[v].frames_local - Cardinality(lists[v]["eviction_dirty"]) > 0

\* free_bad_karma is one less after each time the activity is chosen.
Forgiven(A, v) == [A EXCEPT ![v].free_bad_karma = IF @ = 0 THEN 0 ELSE @ - 1]

\* pager_collect takes the frames of the list from the victim, which has nobody
\* waiting for news about pressure, or has had its chance.
Reclaim(v, list) ==
    /\ \E a \in alive : Serving(a)
    /\ v \in alive /\ Chosen(v)
    /\ list # <<>>
    /\ \A i, j \in DOMAIN list : i < j => Rank(list[i]) <= Rank(list[j])
    /\ \A f \in ToSet(list), g \in Yields(v) \ ToSet(list) : Rank(f) <= Rank(g)
    /\ Becomes(EvictAll([Now EXCEPT !.act = Forgiven(@, v)], list))
    /\ UNCHANGED <<modified, alive, reply, failed>>

\* pager_collect asks the victim to free half of the goal instead.
AskToFree(v, goal) ==
    /\ \E a \in alive : Serving(a)
    /\ v \in alive /\ Chosen(v)
    /\ act[v].free_goal = 0 /\ act[v].free_bad_karma = 0
    /\ act' = Exclude([act EXCEPT ![v] = [@ EXCEPT !.free_goal = goal \div 2,
                                                   !.free_allocations = FreeAllocations,
                                                   !.free_initial_allocation = act[v].frames_local]],
                      v, act[v].frames_local)
    /\ UNCHANGED <<desc, lists, laundry, available, mapped, written, modified, alive, reply, failed>>

-----------------------------------------------------------------------------
(* activity_destroy *)

\* Mutant: active frames keep their age.
Inherit_KeepsAge(s, v, count) ==
    LET p == Parent[v]
        V == s.lists[v]
        from(l) == IF l = "inactive" THEN V["inactive"] \cup V["active"]
                   ELSE IF l = "active" THEN {} ELSE V[l]
    IN  [s EXCEPT
            !.desc = [f \in Frames |->
                IF s.desc[f].activity # v THEN s.desc[f]
                ELSE [s.desc[f] EXCEPT !.activity = p]],
            !.lists = [a \in Activities |->
                [l \in ListNames |-> IF a = v THEN {}
                                     ELSE IF a = p THEN s.lists[p][l] \cup from(l)
                                     ELSE s.lists[a][l]]],
            !.act = [a \in Activities |->
                IF a = v THEN Idle
                ELSE [s.act[a] EXCEPT !.frames_local = IF a = p THEN @ + count ELSE @]]]

\* The parent inherits the victim's frames, all of them inactive.
Inherit(s, v, count) ==
    LET p == Parent[v]
        V == s.lists[v]
        from(l) == IF l = "inactive" THEN V["inactive"] \cup V["active"]
                   ELSE IF l = "active" THEN {} ELSE V[l]
    IN  [s EXCEPT
            !.desc = [f \in Frames |->
                IF s.desc[f].activity # v THEN s.desc[f]
                ELSE [s.desc[f] EXCEPT !.activity = p,
                        !.active = @ /\ f \notin V["active"] \cup V["priorities"]]],
            !.lists = [a \in Activities |->
                [l \in ListNames |-> IF a = v THEN {}
                                     ELSE IF a = p THEN s.lists[p][l] \cup from(l)
                                     ELSE s.lists[a][l]]],
            !.act = [a \in Activities |->
                IF a = v THEN Idle
                ELSE [s.act[a] EXCEPT !.frames_local = IF a = p THEN @ + count ELSE @]]]

\* The pages of a list are freed, one after the other.
FreeAll(s, a, list) ==
    LET default == [discardable |-> FALSE, priority |-> "lru"]
        at[i \in 0..Len(list)] ==
            IF i = 0 THEN s ELSE Release(Find(at[i - 1], a, list[i], default), a, list[i])
    IN  at[Len(list)]

\* The pages of the victim's folios, in this list, are freed first.
ActivityDestroy(a, v, list) ==
    /\ Serving(a) /\ v \in alive /\ v \in Mortal /\ a # v
    /\ \A f \in ToSet(list) : desc[f].live
    /\ LET s == FreeAll(Now, a, list)
           V == s.lists[v]
           count == Cardinality(V["active"]) + Cardinality(V["priorities"]) + Cardinality(V["inactive"])
       IN  IF count = s.act[v].frames_local /\ count = s.act[v].frames_total
           THEN Becomes(Inherit(s, v, count)) /\ alive' = alive \ {v} /\ failed' = FALSE
           ELSE Becomes(s) /\ alive' = alive /\ failed' = TRUE
    /\ modified' = modified \ ToSet(list)
    /\ UNCHANGED reply

-----------------------------------------------------------------------------
Handler(a, f, policy) ==
    \/ FrameAlloc(a, f, policy)
    \/ FrameFree(a, f, policy)
    \/ Realloc(a, f, policy)
    \/ Lookup(a, f, policy)
    \/ CapRubout(a, f, policy)
    \/ SetPolicy(a, f, policy)
    \/ Fault(a, f, policy)

Next ==
    \/ \E a \in Activities, f \in Frames, policy \in Policies : Handler(a, f, policy)
    \/ SendReply
    \/ \E f \in Frames : UserWrite(f)
    \/ \E f \in Frames, period, referenced, ages \in BOOLEAN :
           AgerVisit(f, period, referenced, ages)
    \/ \E v \in Activities : \E list \in SetToAllKPermutations(Yields(v)) : Reclaim(v, list)
    \/ \E v \in Activities, goal \in Goals : AskToFree(v, goal)
    \/ \E a \in Activities, v \in Mortal, list \in SetToAllKPermutations(Frames) :
           ActivityDestroy(a, v, list)

Spec == Init /\ [][Next]_vars

-----------------------------------------------------------------------------
(* Properties. *)

Live == {f \in Frames : desc[f].live}
Below(a) == {b \in alive : a \in Above[b]}

\* The sum of the numbers n[b] of the b in S, counted.
Total(n, S) == Cardinality(UNION {{b} \X (1..n[b]) : b \in S})

Counters == {"frames_local", "frames_total", "frames_pending_eviction", "frames_excluded",
             "free_goal", "free_allocations", "free_initial_allocation", "free_bad_karma"}

(***************************************************************************)
(* The counters, unsigned in the code, are never taken below zero, and     *)
(* every frame in use is claimed by an activity that still exists.         *)
(***************************************************************************)
TypeOK ==
    /\ \A a \in Activities, c \in Counters : act[a][c] \in Nat
    /\ \A f \in Live : desc[f].activity \in alive

(***************************************************************************)
(* The rules written beside the list nodes of struct object_desc: a frame  *)
(* is on the one list that its owner, eviction_candidate, priority, dirty  *)
(* and discardable call for.  object_desc_claim unlinks it from that list  *)
(* without looking whether it is there.                                    *)
(***************************************************************************)
Attached ==
    /\ \A a \in alive, l \in ListNames :
          lists[a][l] = {f \in Live : desc[f].activity = a /\ ListOf(desc[f]) = l}
    /\ laundry = {f \in Live : ListOf(desc[f]) = "eviction_dirty"}
    /\ available = {f \in Live : ListOf(desc[f]) = "eviction_clean"}

(***************************************************************************)
(* The sum that object_desc_claim and reclaim_from assert: an activity     *)
(* pays for the frames on its lists, clean candidates excepted.            *)
(***************************************************************************)
FramesLocal ==
    \A a \in alive :
        act[a].frames_local = Cardinality(Yields(a)) + Cardinality(lists[a]["eviction_dirty"])

(***************************************************************************)
(* The totals are those of the activity and all below it, through every    *)
(* change of owner, eviction, rescue and inheritance.                      *)
(***************************************************************************)
TotalsAddUp ==
    \A a \in alive :
        /\ act[a].frames_total = Total([b \in Activities |-> act[b].frames_local], Below(a))
        /\ act[a].frames_pending_eviction =
               Total([b \in Activities |-> Cardinality(lists[b]["eviction_dirty"])], Below(a))

(***************************************************************************)
(* Frames are excluded from collection exactly for the activities that     *)
(* were asked to free memory and still have allocations left, and such an  *)
(* activity has a goal to meet and no bad karma.                           *)
(***************************************************************************)
GraceOK ==
    LET asked == {a \in alive : act[a].free_allocations # 0}
    IN  /\ \A a \in alive :
              act[a].frames_excluded =
                  Total([b \in Activities |-> act[b].free_initial_allocation], Below(a) \cap asked)
        /\ \A a \in alive : a \in asked <=> act[a].free_goal # 0
        /\ \A a \in asked : act[a].free_bad_karma = 0

(***************************************************************************)
(* "Eviction candidates are unmapped" (ager_loop): what reclaim_from took  *)
(* from its users stays out of their reach until a fault saves it.  It is  *)
(* not so when the ager takes a shared frame back before the reply to the  *)
(* fault on it is sent: the reply maps a frame that is not noted as mapped *)
(* and that nobody will unmap.                                             *)
(***************************************************************************)
CandidatesUnmapped ==
    \A f \in Live : desc[f].eviction_candidate => f \notin mapped

(***************************************************************************)
(* No write is forgotten, replies overtaken by the ager included: whoever  *)
(* reads and clears the hardware's bits (object_desc_unmap, _flush, the    *)
(* ager) keeps them, so that a page written to since it was set up is      *)
(* known as dirty or its bit is still to be read; a candidate is not noted *)
(* as mapped; and so a page that was written to and is offered for reuse   *)
(* may be discarded, or was written to since, through a mapping the kernel *)
(* does not know of.                                                       *)
(***************************************************************************)
NothingLost ==
    /\ \A f \in modified : desc[f].dirty \/ f \in written
    /\ \A f \in Live : desc[f].eviction_candidate => ~desc[f].mapped
    /\ \A f \in available \cap modified :
          desc[f].discardable \/ (f \in mapped \cap written /\ ~desc[f].mapped)

\* Lists, local counts and totals tell the same, whatever frames go through.
Accounting == Attached /\ FramesLocal /\ TotalsAddUp

\* So do the lists and what is excluded from collection, with no counter below
\* zero.
GraceAccounting == TypeOK /\ Attached /\ GraceOK
=============================================================================
