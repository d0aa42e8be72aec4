----------------------------- MODULE ObjectStore -----------------------------
(***************************************************************************)
(* Storage in viengoos: folios, the objects in them, the activities that   *)
(* pay for the folios, and the capabilities that name folios and objects   *)
(* (viengoos/object.c, activity.c, cap.c).  Every object has a version; a  *)
(* capability is valid while its version is the object's.  Deallocation    *)
(* bumps the version, and so revokes, without looking for them, all        *)
(* capabilities.  Destroying an activity frees its folios and destroys its *)
(* children, which may destroy further activities.                         *)
(*                                                                         *)
(* The handlers run under kernel_lock, each is one step.  The doubly       *)
(* linked lists of folios and children are sequences.  Threads and         *)
(* cappages are, here, like pages.                                         *)
(***************************************************************************)
EXTENDS Integers, FiniteSets, Sequences, TLC

CONSTANTS
    Folios,          \* the folios in core (numbers: bit_alloc takes the first)
    Indices,         \* the objects of a folio: 0..FOLIO_OBJECTS - 1
    BootFolio,       \* the first folio, in which the root activity is
    Slots,           \* the capability slots of the users
    Types,           \* the types of the objects they allocate; void frees
    Weakening,       \* whether they weaken capabilities
    Quotas,          \* values of policy.folios; 0 is no limit
    VersionLimit,    \* 2^CAP_VERSION_BITS
    MaxVersion,      \* bound: no version is bumped beyond it
    None

ASSUME StoreAssumption ==
    /\ Folios \subseteq Nat /\ BootFolio \in Folios
    /\ Indices \subseteq Nat /\ 0 \in Indices
    /\ Types \subseteq {"void", "page", "activity_control"}
    /\ Weakening \subseteq BOOLEAN
    /\ Quotas \subseteq Nat
    /\ VersionLimit \in Nat \ {0} /\ MaxVersion \in Nat
    /\ IsFiniteSet(Folios) /\ None \notin Folios \X Indices

VARIABLES
    version,         \* of every folio and object
    type,            \* of every folio and object; a free folio is void
    owner,           \* folio->activity
    folios,          \* activity->folios
    parent,          \* activity->parent
    children,        \* activity->children
    folio_count,     \* activity->folio_count
    quota,           \* activity->policy.folios
    cap              \* the capability in each slot

storage == <<version, type>>
activities == <<folios, parent, children, folio_count, quota>>
vars == <<version, type, owner, activities, cap>>

\* Object i of folio f, and, as the code numbers it, the folio itself.
Objects == Folios \X Indices
FolioOid(f) == <<f, -1>>
Oids == Objects \cup {FolioOid(f) : f \in Folios}
Root == <<BootFolio, 0>>

VoidCap == [oid |-> Root, version |-> 0, type |-> "void"]
Capability(o, v, t) == [oid |-> o, version |-> v, type |-> t]

\* cap_types_compatible, cap_type_weaken.
Compatible(t, u) == t = u \/ {t, u} \in {{"page", "rpage"}, {"activity", "activity_control"}}

Weaken(t) == IF t \in {"page", "rpage"} THEN "rpage"
             ELSE IF t \in {"activity", "activity_control"} THEN "activity" ELSE "void"

\* Mutant: the types are compared instead of the versions.
Valid_Type(c) == c.type # "void" /\ Compatible(c.type, type[c.oid])

\* cap_to_object: the object that a capability gives access to exists and
\* has the capability's version.
Valid(c) == /\ c.type # "void"
            /\ c.oid \in Objects => type[c.oid] # "void"
            /\ version[c.oid] = c.version

IsActivity(o) == type[o] = "activity_control"

LiveActivities == {o \in Objects : IsActivity(o)}

\* The root activity and the folio it is in, which folio_alloc gave to
\* nobody and folio_parent to the root: it is not in folio_count.
Init ==
    /\ version = [o \in Oids |-> 0]
    /\ type = [o \in Oids |-> IF o = FolioOid(BootFolio) THEN "folio"
                              ELSE IF o = Root THEN "activity_control" ELSE "void"]
    /\ owner = [f \in Folios |-> IF f = BootFolio THEN Root ELSE None]
    /\ folios = [o \in Objects |-> IF o = Root THEN <<BootFolio>> ELSE <<>>]
    /\ parent = [o \in Objects |-> None]
    /\ children = [o \in Objects |-> <<>>]
    /\ folio_count = [o \in Objects |-> 0]
    /\ quota = [o \in Objects |-> 0]
    /\ \E first \in Slots :
          cap = [s \in Slots |-> IF s = first THEN Capability(FolioOid(BootFolio), 0, "folio")
                                 ELSE VoidCap]
-----------------------------------------------------------------------------
\* activity_for_each_ancestor: a, its parent, and so on to the root.
Ancestors(a) ==
    {b \in Objects : \A T \in SUBSET Objects :
        a \in T /\ (\A c \in T : parent[c] \in T \cup {None}) => b \in T}

\* Object o is destroyed with the activities of T: it is the child of one, or
\* is stored in a folio of one.
GoesWith(o, T) ==
    \/ IsActivity(o) /\ parent[o] \in T
    \/ type[o] # "void" /\ owner[o[1]] \in T

\* What is destroyed with the objects of S: an activity takes with it its
\* children and all that is stored in its folios.
Doomed(S) ==
    {o \in Objects : \A T \in SUBSET Objects :
        S \subseteq T /\ (\A x \in Objects : GoesWith(x, T) => x \in T) => o \in T}

\* The folios that are freed with the activities of gone.
FoliosOf(gone) == {f \in Folios : owner[f] \in gone}

\* The next version, in a field of CAP_VERSION_BITS.
Bump(v) == (v + 1) % VersionLimit

\* What has a type to lose when the objects of gone and the folios of freed go.
Existing(gone, freed) ==
    {o \in gone : type[o] # "void"} \cup {FolioOid(f) : f \in freed}

\* Mutant: the version of a freed folio is not bumped.
VersionAfter_Objects(gone, freed) ==
    [o \in Oids |-> IF o \in Existing(gone, {}) THEN Bump(version[o]) ELSE version[o]]

\* folio_object_alloc for every object of gone and folio_free for every
\* folio of freed: versions and types.
VersionAfter(gone, freed) ==
    [o \in Oids |-> IF o \in Existing(gone, freed) THEN Bump(version[o]) ELSE version[o]]

TypeAfter(gone, freed) ==
    [o \in Oids |-> IF o \in Existing(gone, freed) THEN "void" ELSE type[o]]

\* The elements of seq that are not in out, in order.
Without(seq, out) ==
    LET kept[n \in 0..Len(seq)] ==
            IF n = 0 THEN <<>>
            ELSE IF seq[n] \in out THEN kept[n - 1] ELSE Append(kept[n - 1], seq[n])
    IN  kept[Len(seq)]

\* A list of an activity: empty if the activity goes (the object is zeroed),
\* without those that go otherwise.
ListAfter(list, gone, out) ==
    [a \in Objects |-> IF a \in gone THEN <<>> ELSE Without(list[a], out)]

\* folio_free credits the owner and its ancestors.
CountAfter(gone, freed) ==
    [a \in Objects |-> IF a \in gone THEN 0
                       ELSE folio_count[a]
                            - Cardinality({f \in freed : a \in Ancestors(owner[f])})]

\* The code panics if the root activity would go; what happens if the
\* caller p itself goes is not modelled.  Bound: versions.
MayFree(p, gone, freed) ==
    gone \cap {Root, p} = {} /\ \A o \in Existing(gone, freed) : version[o] < MaxVersion

\* What freeing the objects of gone and the folios of freed does to the
\* versions, to the folios and to the activities.
Free(gone, freed) ==
    /\ version' = VersionAfter(gone, freed)
    /\ owner' = [f \in Folios |-> IF f \in freed THEN None ELSE owner[f]]
    /\ folios' = ListAfter(folios, gone, freed)
    /\ folio_count' = CountAfter(gone, freed)
    /\ quota' = [a \in Objects |-> IF a \in gone THEN 0 ELSE quota[a]]

ParentAfter(gone) == [a \in Objects |-> IF a \in gone THEN None ELSE parent[a]]
-----------------------------------------------------------------------------
\* The check of the quotas that stops folio_alloc.
Exhausted(a) == quota[a] # 0 /\ folio_count[a] >= quota[a]

\* The ancestors of p that folio_alloc charges before one stops it, and the
\* ones it credits again then.
Charged(p) ==
    {a \in Ancestors(p) : \A b \in Ancestors(p) : Exhausted(b) => a \notin Ancestors(b)}

\* The loop that credits again goes from p to the one that stopped it.
Refunded(p) == Charged(p)

Add(S, n) == [a \in Objects |-> folio_count[a] + IF a \in S THEN n ELSE 0]

\* folio_alloc when the quota of p or of an ancestor is exhausted.
FolioAllocDenied(p) ==
    /\ \E a \in Ancestors(p) : Exhausted(a)
    /\ folio_count' = [a \in Objects |-> Add(Charged(p), 1)[a]
                                         - IF a \in Refunded(p) THEN 1 ELSE 0]
    /\ UNCHANGED <<storage, owner, folios, parent, children, quota, cap>>

\* Mutant: only the quota of the caller is looked at.
Allowed_Own(p) == ~Exhausted(p)

Allowed(p) == \A a \in Ancestors(p) : ~Exhausted(a)

\* RM_folio_alloc: charge p and its ancestors, take the first free folio,
\* give it to p (folio_parent), put a capability into slot s.
FolioAlloc(p, s) ==
    \E f \in Folios :
       /\ Allowed(p)
       /\ folio_count' = Add(Ancestors(p), 1)
       /\ type[FolioOid(f)] = "void"
       /\ \A g \in Folios : type[FolioOid(g)] = "void" => f <= g
       /\ type' = [type EXCEPT ![FolioOid(f)] = "folio"]
       /\ owner' = [owner EXCEPT ![f] = p]
       /\ folios' = [folios EXCEPT ![p] = <<f>> \o @]
       /\ cap' = [cap EXCEPT ![s] = Capability(FolioOid(f), version[FolioOid(f)], "folio")]
       /\ UNCHANGED <<version, parent, children, quota>>

\* The folio that the capability in slot s designates.
DesignatesFolio(s, f) == cap[s].oid = FolioOid(f) /\ Valid(cap[s])

\* RM_folio_free: p frees the folio that slot s designates.
FolioFree(p, s) ==
    \E f \in Folios :
       LET gone == Doomed({o \in Objects : o[1] = f /\ type[o] # "void"})
           freed == {f} \cup FoliosOf(gone)
       IN  /\ DesignatesFolio(s, f) /\ MayFree(p, gone, freed)
           /\ Free(gone, freed)
           /\ type' = TypeAfter(gone, freed)
           /\ parent' = ParentAfter(gone)
           /\ children' = ListAfter(children, gone, gone)
           /\ UNCHANGED cap

\* Mutant: a weak capability is one for a page.
Results_WeakPage(o, t, v, s, weak) ==
    IF t = "void" THEN cap
    ELSE [cap EXCEPT ![s] = Capability(o, v, IF weak THEN "rpage" ELSE t)]

\* The slot that RM_folio_object_alloc fills, with a strong or a weak capability.
Results(o, t, v, s, weak) ==
    IF t = "void" THEN cap
    ELSE [cap EXCEPT ![s] = Capability(o, v, IF weak THEN Weaken(t) ELSE t)]

\* Mutant: a new activity is not entered with its parent.
ChildrenWith_Unlisted(list, p, o) == list

\* activity_create enters the activity o with its parent p.
ChildrenWith(list, p, o) == [list EXCEPT ![p] = <<o>> \o @]

\* RM_folio_object_alloc: p frees object i of the folio that slot s
\* designates and allocates it again with type t; a new activity is a child
\* of p; slot r, if any, gets the capability.
FolioObjectAlloc(p, s, i, t, r, weak) ==
    \E f \in Folios :
       LET o == <<f, i>>
           gone == Doomed({o})
           freed == FoliosOf(gone)
           rest == ListAfter(children, gone, gone)
           create == t = "activity_control"
       IN  /\ DesignatesFolio(s, f) /\ MayFree(p, gone, freed)
           /\ Free(gone, freed)
           /\ type' = [TypeAfter(gone, freed) EXCEPT ![o] = t]
           /\ parent' = [ParentAfter(gone) EXCEPT ![o] = IF create THEN p ELSE None]
           /\ children' = IF create THEN ChildrenWith(rest, p, o) ELSE rest
           /\ cap' \in {cap, Results(o, t, version'[o], r, weak)}

\* RM_activity_policy with ACTIVITY_POLICY_STORAGE_SET: no check of the count.
ActivityPolicy(p, q) ==
    /\ quota' = [quota EXCEPT ![p] = q]
    /\ UNCHANGED <<storage, owner, folios, parent, children, folio_count, cap>>

\* RM_cap_copy: the source need not be valid.
CapCopy(s, r, weak) ==
    /\ cap' = [cap EXCEPT ![r] = IF weak THEN [cap[s] EXCEPT !.type = Weaken(@)] ELSE cap[s]]
    /\ UNCHANGED <<storage, owner, activities>>

\* RM_cap_rubout.
CapRubout(s) ==
    /\ cap' = [cap EXCEPT ![s] = VoidCap]
    /\ UNCHANGED <<storage, owner, activities>>

\* cap_to_object clears a capability that it finds to be stale.
CapClear(s) ==
    /\ cap[s].type # "void" /\ ~Valid(cap[s])
    /\ cap' = [cap EXCEPT ![s].type = "void"]
    /\ UNCHANGED <<storage, owner, activities>>

Call(p) ==
    \/ FolioAllocDenied(p)
    \/ \E q \in Quotas : ActivityPolicy(p, q)
    \/ \E s \in Slots :
          \/ FolioAlloc(p, s)
          \/ FolioFree(p, s)
          \/ CapRubout(s)
          \/ CapClear(s)
          \/ \E r \in Slots, weak \in Weakening :
                \/ CapCopy(s, r, weak)
                \/ \E i \in Indices, t \in Types :
                      FolioObjectAlloc(p, s, i, t, r, weak)

Next == \E p \in LiveActivities : Call(p)

Spec == Init /\ [][Next]_vars
-----------------------------------------------------------------------------
CapTypes == {"void", "page", "rpage", "activity", "activity_control", "folio"}

\* Versions fit their bit field, counts are not negative, lists hold ids.
TypeOK ==
    /\ version \in [Oids -> 0..(VersionLimit - 1)]
    /\ type \in [Oids -> {"void", "page", "activity_control", "folio"}]
    /\ owner \in [Folios -> Objects \cup {None}]
    /\ folios \in [Objects -> Seq(Folios)]
    /\ parent \in [Objects -> Objects \cup {None}]
    /\ children \in [Objects -> Seq(Objects)]
    /\ folio_count \in [Objects -> Nat]
    /\ quota \in [Objects -> Quotas \cup {0}]
    /\ cap \in [Slots -> [oid : Oids, version : 0..(VersionLimit - 1), type : CapTypes]]

(***************************************************************************)
(* "We know that if an object's type is void then there are no extant      *)
(* pointers to it" (folio_object_alloc, which therefore does not bump the  *)
(* version of a void object), and the same for free folios.                *)
(***************************************************************************)
VoidUnreferenced ==
    \A s \in Slots : cap[s].type # "void" /\ type[cap[s].oid] = "void" =>
        cap[s].version # version[cap[s].oid]

\* cap_to_object's assertion: a capability that gives access to an object
\* is of the object's type.
TypesCompatible ==
    \A s \in Slots : Valid(cap[s]) => Compatible(cap[s].type, type[cap[s].oid])

(***************************************************************************)
(* The point of object versioning (viengoos/object.h): a capability that   *)
(* was revoked never becomes valid again, however often its object, or the *)
(* folio the object is in, is freed and allocated.                         *)
(***************************************************************************)
RevokedForGood ==
    [][\A s \in Slots : cap[s].type # "void" /\ ~Valid(cap[s]) /\ cap'[s] = cap[s]
                        => ~Valid(cap[s])']_vars

NoDuplicates(seq) == \A m, n \in DOMAIN seq : seq[m] = seq[n] => m = n

(***************************************************************************)
(* "If O was destroyed, it should have been removed from its respective    *)
(* activity's allocation list" (activity_destroy): the lists of folios and *)
(* of children hold exactly what belongs to the activity.                  *)
(***************************************************************************)
ListsComplete ==
    \A a \in Objects :
       /\ NoDuplicates(folios[a]) /\ NoDuplicates(children[a])
       /\ {folios[a][n] : n \in DOMAIN folios[a]} = {f \in Folios : owner[f] = a}
       /\ {children[a][n] : n \in DOMAIN children[a]} = {c \in LiveActivities : parent[c] = a}
       /\ ~IsActivity(a) => folios[a] = <<>> /\ children[a] = <<>>

\* "Number of folios allocated to this activity (including children)": the
\* first folio apart, which was there before the root activity.
FolioCount ==
    \A a \in LiveActivities :
       folio_count[a] = Cardinality({f \in Folios \ {BootFolio} :
                                       owner[f] # None /\ a \in Ancestors(owner[f])})

\* An allocation does not take any activity beyond its quota, whoever of
\* its descendants allocates.
QuotaKept ==
    [][\A a \in Objects : folio_count'[a] > folio_count[a] =>
          quota[a] = 0 \/ folio_count'[a] <= quota[a]]_vars

(***************************************************************************)
(* activity_destroy's assertion that the victim is not dying: destroying   *)
(* an activity, its folios and its children never comes back to it.        *)
(***************************************************************************)
NoReentry ==
    \A a \in LiveActivities \ {Root} :
       a \notin Doomed({o \in Objects : GoesWith(o, {a})})

\* Through the destruction of whole subtrees the activities and what belongs to
\* them stay a tree, with lists and counts that agree.
TreeOK == ListsComplete /\ FolioCount /\ NoReentry

\* The slots are alike to TLC.
Symmetry == Permutations(Slots)
=============================================================================
