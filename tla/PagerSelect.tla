----------------------------- MODULE PagerSelect -----------------------------
(***************************************************************************)
(* Which activity has to give up memory: the children of an activity are   *)
(* kept in the order of their priority (activity_prepare,                  *)
(* activity_policy_update of viengoos/activity.c), and pager_collect       *)
(* (viengoos/pager.c) goes through them, and the activity itself, to find  *)
(* a victim.  One level of the tree: Self and its children.                *)
(*                                                                         *)
(* frames is what the code calls the effective frames of an activity: the  *)
(* ones it may yield, without those pending or excluded.  How many of them *)
(* were active in the last period is subtracted in the search, less and    *)
(* less of it as factor rises.                                             *)
(***************************************************************************)
EXTENDS Integers, Sequences, SequencesExt

CONSTANTS
    Self,          \* the activity whose level is looked at
    Children,      \* the activities that may be its children
    PriorityValues, \* values of policy.*.priority
    Weights,       \* values of policy.*.weight
    MaxFrames,     \* bound on the frames of each
    Active,        \* values of the active frames of the last period
    CollectGoals,  \* the goals of a collection
    Agreeing,      \* whether Self's two priorities are kept the same
    CapTypes       \* the types of the capabilities that policies are set with

ASSUME PagerSelectAssumption ==
    /\ Self \notin Children
    /\ PriorityValues \cup Weights \cup Active \subseteq Nat
    /\ PriorityValues # {} /\ Weights # {} /\ Active # {}
    /\ CollectGoals \subseteq Nat \ {0} /\ MaxFrames \in Nat /\ Agreeing \in BOOLEAN
    /\ CapTypes \subseteq {"activity", "activity_control"}

All == Children \cup {Self}

VARIABLES
    children,      \* the list of in-memory children, head first
    sibling,       \* policy.sibling_rel
    child,         \* policy.child_rel of Self
    frames,        \* effective frames
    active         \* ACTIVITY_STATS_LAST (...)->active

selectVars == <<children, sibling, child, frames, active>>

Policy == [priority : PriorityValues, weight : Weights]

Least(S) == CHOOSE x \in S : \A y \in S : x <= y
VoidPolicy == [priority |-> Least(PriorityValues), weight |-> Least(Weights)]

SelectInit ==
    /\ children = <<>>
    /\ sibling = [a \in All |-> VoidPolicy]
    /\ child = VoidPolicy
    /\ frames = [a \in All |-> 0]
    /\ active = [a \in All |-> Least(Active)]

-----------------------------------------------------------------------------
(* The list of children. *)

\* The first of some of the places 1..n, or n + 1; the last of them, or 0.
FirstOf(places, n) == IF places = {} THEN n + 1 ELSE Least(places)
LastOf(places) == IF places = {} THEN 0 ELSE CHOOSE x \in places : \A y \in places : y <= x

\* list_insert_after with the n-th element (the head of the list for 0).
InsertAfter(list, n, a) == InsertAt(list, n + 1, a)

\* activity_prepare: before the head if the priority is not lower, else
\* before the next one with a priority that is not higher.
Place(list, a) ==
    IF list = <<>> \/ sibling[a].priority >= sibling[list[1]].priority THEN 0
    ELSE FirstOf({i \in 2..Len(list) : sibling[list[i]].priority <= sibling[a].priority}, Len(list)) - 1

\* Where a is in the list.
PlaceOf(a) == CHOOSE i \in 1..Len(children) : children[i] = a

\* A child is created with the void policy.
Prepare(a) ==
    /\ a \notin ToSet(children)
    /\ sibling[a] = VoidPolicy
    /\ children' = InsertAfter(children, Place(children, a), a)
    /\ UNCHANGED <<sibling, child, frames, active>>

\* activity_deprepare; the object is gone and its frames are the parent's.
Deprepare(a) ==
    /\ a \in ToSet(children)
    /\ children' = RemoveAt(children, PlaceOf(a))
    /\ sibling' = [sibling EXCEPT ![a] = VoidPolicy]
    /\ frames' = [frames EXCEPT ![a] = 0]
    /\ active' = [active EXCEPT ![a] = Least(Active)]
    /\ UNCHANGED child

\* The places after which a child goes when its priority is raised and lowered
\* to p.
PrevOf(a, p) == LastOf({j \in 1..(PlaceOf(a) - 1) : sibling[children[j]].priority >= p})
NextOf(a, p) ==
    FirstOf({j \in (PlaceOf(a) + 1)..Len(children) : sibling[children[j]].priority <= p}, Len(children)) - 1

\* Mutant: a child whose priority was raised stays where it is.
Reordered_Stays(a, p) ==
    IF p >= sibling[a].priority THEN children
    ELSE InsertAfter(RemoveAt(children, PlaceOf(a)), NextOf(a, p) - 1, a)

\* activity_policy_update: the list when the child's priority becomes p.
Reordered(a, p) ==
    LET rest == RemoveAt(children, PlaceOf(a))
    IN  IF p = sibling[a].priority THEN children
        ELSE IF p > sibling[a].priority THEN InsertAfter(rest, PrevOf(a, p), a)
        ELSE InsertAfter(rest, NextOf(a, p) - 1, a)

\* RM_activity_policy changes how the child is treated among its siblings,
\* with whatever capability.
SetSibling(a, p) ==
    /\ a \in ToSet(children)
    /\ children' = Reordered(a, p.priority)
    /\ sibling' = [sibling EXCEPT ![a] = p]
    /\ UNCHANGED <<child, frames, active>>

\* The same for Self: both of its policies, child_rel only with a control
\* capability.
SetSelf(p, q, type) ==
    /\ Agreeing => p.priority = q.priority
    /\ p # child => type = "activity_control"
    /\ child' = p
    /\ sibling' = [sibling EXCEPT ![Self] = q]
    /\ UNCHANGED <<children, frames, active>>

\* Claims and the ager change what there is to take.
SetFrames(a, n, m) ==
    /\ a \in ToSet(children) \cup {Self}
    /\ frames' = [frames EXCEPT ![a] = n]
    /\ active' = [active EXCEPT ![a] = m]
    /\ UNCHANGED <<children, sibling, child>>

SelectNext ==
    \/ \E a \in Children : Prepare(a) \/ Deprepare(a)
    \/ \E a \in Children, p \in Policy : SetSibling(a, p)
    \/ \E p, q \in Policy, type \in CapTypes : SetSelf(p, q, type)
    \/ \E a \in All, n \in 0..MaxFrames, m \in Active : SetFrames(a, n, m)

SelectSpec == SelectInit /\ [][SelectNext]_selectVars

-----------------------------------------------------------------------------
(* pager_collect *)

\* The children from the tail, with Self before the first whose priority is
\* not lower than that of Self's own memory.
Candidates ==
    LET up == Reverse(children)
        above == {i \in 1..Len(up) : sibling[up[i]].priority >= child.priority}
    IN  InsertAfter(up, FirstOf(above, Len(up)) - 1, Self)

PolicyIn(a) == IF a = Self THEN child ELSE sibling[a]

\* Nobody considered yet.
Nobody == [victim |-> "none", frames |-> 0, policy |-> VoidPolicy,
           weight |-> 0, total |-> 0, done |-> FALSE, failed |-> "no"]

Switch(s, a, n) == [s EXCEPT !.victim = a, !.frames = n, !.policy = PolicyIn(a)]

\* The frames beyond the share of two that the weights give to one of them.
Beyond(n, weight, f, w) == n - (weight * f) \div w

\* Whether a, with n frames, is a better victim than the one so far.
Better(s, a, n) ==
    LET p == PolicyIn(a)
        f == n + s.frames
        w == p.weight + s.policy.weight
    IN  IF p.weight = s.policy.weight THEN n > s.frames
        ELSE Beyond(n, p.weight, f, w) > Beyond(s.frames, s.policy.weight, f, w)

\* Mutant: a higher priority does not end the search.
Process_NoEnd(s, a, n, goal) ==
    LET p == PolicyIn(a)
        t == [s EXCEPT !.weight = @ + p.weight, !.total = @ + n]
    IN  IF s.failed # "no" \/ n <= 0 \/ n <= goal \div 1000 THEN s
        ELSE IF s.victim = "none" \/ Better(s, a, n) THEN Switch(t, a, n) ELSE t

\* The nested function process, and the test of frames before each call.
Process(s, a, n, goal) ==
    LET p == PolicyIn(a)
        t == [s EXCEPT !.weight = @ + p.weight, !.total = @ + n]
    IN  IF s.done \/ s.failed # "no" \/ n <= 0 \/ n <= goal \div 1000 THEN s
        ELSE IF s.victim = "none" THEN Switch(t, a, n)
        ELSE IF p.priority < s.policy.priority THEN [s EXCEPT !.failed = "order"]
        ELSE IF sibling[a].priority > s.policy.priority THEN [s EXCEPT !.done = TRUE]
        ELSE IF sibling[a].priority # s.policy.priority THEN [s EXCEPT !.failed = "priority"]
        ELSE IF Better(s, a, n) THEN Switch(t, a, n) ELSE t

Factors == <<1, 3, 5, 7, 9, 11, 13, 15>>

Effective(a, factor) == frames[a] - active[a] \div 2^factor

\* One pass over the candidates.
Pass(goal, factor) ==
    LET list == Candidates
        state[j \in 0..Len(list)] ==
            IF j = 0 THEN Nobody
            ELSE Process(state[j - 1], list[j], Effective(list[j], factor), goal)
    IN  state[Len(list)]

\* One level of the search: factor rises until there is a victim.
Select(goal) ==
    LET done(k) == Pass(goal, Factors[k]).victim # "none" \/ k = Len(Factors)
        last == CHOOSE k \in 1..Len(Factors) : done(k) /\ \A j \in 1..(k - 1) : ~done(j)
    IN  Pass(goal, Factors[last])

\* The share of its group's frames that the victim keeps.
Share(s, goal) ==
    IF s.weight > 0 /\ s.total > goal THEN ((s.total - goal) * s.policy.weight) \div s.weight
    ELSE 0

ReclaimAmount(s, goal) == Least({s.frames - Share(s, goal), goal})

-----------------------------------------------------------------------------
\* "List of in-memory children, sorted highest priority first" (struct
\* activity), after any changes of priority.
ChildrenSorted ==
    \A i, j \in 1..Len(children) :
        i < j => sibling[children[i]].priority >= sibling[children[j]].priority

(***************************************************************************)
(* The victim is one of the lowest priority among those that have          *)
(* something to yield, and within that group none has more frames for the  *)
(* same weight.  If there is no victim, nobody has anything to yield.      *)
(***************************************************************************)
LowestGroupYields ==
    \A goal \in CollectGoals :
        LET s == Select(goal)
            able == {a \in ToSet(Candidates) : frames[a] > 0}
        IN  /\ s.victim = "none" => able = {}
            /\ (s.victim # "none" /\ \A a \in able : active[a] = 0) =>
                  \A a \in able :
                      /\ PolicyIn(a).priority >= s.policy.priority
                      /\ PolicyIn(a) = s.policy => frames[a] <= s.frames

\* assertx (activity_policy.priority >= victim_policy.priority): the
\* activities are gone through in the order of their priorities.
OrderAssertion == \A goal \in CollectGoals : Select(goal).failed # "order"

(***************************************************************************)
(* The assertion victim_frames >= share, and "We should never have         *)
(* selected a task from which we can free nothing!" of reclaim_from: the   *)
(* pairwise comparisons with rounded shares never elect a victim that has  *)
(* no more than its share.                                                 *)
(***************************************************************************)
SomethingToReclaim ==
    \A goal \in CollectGoals :
        LET s == Select(goal)
        IN  s.victim = Self /\ s.failed = "no" => ReclaimAmount(s, goal) > 0

\* The list is kept sorted and the search goes through it in that order.
ListOrder == ChildrenSorted /\ OrderAssertion

\* The right activity is chosen, and there is something to take from it.
VictimRight == LowestGroupYields /\ SomethingToReclaim
=============================================================================
