------------------------------ MODULE CapAlloc -------------------------------
(***************************************************************************)
(* The allocator of capability slots of libhurd-mm (capalloc.c).  A        *)
(* cappage has Slots slots; the ones with a free slot are on the list      *)
(* nonempty, kept as the code keeps it: head, next, and prevp, the pointer *)
(* to the pointer to the element, either the head or another's next.       *)
(* cappage_descs_lock protects the list and the tree of cappages, a        *)
(* cappage's lock its slots.  Between capalloc's dropping the lock of a    *)
(* cappage it has filled and its unlinking the cappage, other calls see a  *)
(* full cappage on the list, and may link it a second time.                *)
(*                                                                         *)
(* Assertions are compiled in, as they are by default, those of libpthread *)
(* too: the one that fails stops the program.  ref is the set of slots     *)
(* that clients own.                                                       *)
(***************************************************************************)
EXTENDS LibState

CONSTANTS
    CapThreads,     \* the threads that allocate and free slots
    CapPages,       \* bound: the cappages that storage_alloc can provide
    Slots,          \* CAPPAGE_SLOTS
    NoOne           \* nobody holds a lock, no cappage

ASSUME SlotsAssumption ==
    /\ Slots \in Nat /\ Slots > 1
    /\ NoOne \notin CapThreads /\ NoOne \notin CapPages /\ "nonempty" \notin CapPages

CapKind == "caps"
SlotNos == 0..(Slots - 1)

\* The descriptor of a cappage that there is not.
NoArea == [alloced |-> {}, lock |-> NoOne, known |-> FALSE]

\* failed: an assertion was violated.
CapInit ==
    /\ lib = [kind |-> CapKind, lock |-> NoOne, head |-> NoOne,
              next |-> [p \in CapPages |-> NoOne], prevp |-> [p \in CapPages |-> NoOne],
              desc |-> [p \in CapPages |-> NoArea],
              pc |-> [t \in CapThreads |-> "idle"], area |-> [t \in CapThreads |-> NoOne],
              slot |-> [t \in CapThreads |-> 0], failed |-> FALSE]
    /\ ref = {}

\* Whether all slots of a cappage are in use, or none.
Full(d) == d.alloced = SlotNos
Unused(d) == d.alloced = {}

Goto(L, t, label) == [L EXCEPT !.pc[t] = label]

\* The call returns, and its locals are gone.
Returns(L, t) == [L EXCEPT !.pc[t] = "idle", !.area[t] = NoOne, !.slot[t] = 0]

\* list_link, of a cappage that may be linked already.
list_link(L, p) ==
    [L EXCEPT !.next[p] = L.head, !.head = p,
              !.prevp = [q \in CapPages |-> IF q = p THEN "nonempty"
                                           ELSE IF q = L.head THEN p ELSE @[q]]]

\* list_unlink, of a cappage that may be unlinked already.
list_unlink(L, p) ==
    LET from == L.prevp[p]
        to == L.next[p]
    IN  [L EXCEPT !.head = IF from = "nonempty" THEN to ELSE @,
                  !.next = [q \in CapPages |-> IF q = from THEN to ELSE @[q]],
                  !.prevp = [q \in CapPages |-> IF q = to THEN from ELSE @[q]]]

-----------------------------------------------------------------------------
\* capalloc takes cappage_descs_lock, and pluck begins with the head.
Capalloc(t) ==
    /\ lib.pc[t] = "idle"
    /\ lib.lock = NoOne
    /\ Becomes([Goto(lib, t, "pluck") EXCEPT !.lock = t, !.area[t] = lib.head], ref)

\* Mutant: pluck takes the first cappage, whoever has its lock.
Pluck_NoTry(t) ==
    LET p == lib.area[t]
    IN  /\ lib.pc[t] = "pluck"
        /\ \/ p = NoOne /\ Becomes([Goto(lib, t, "new") EXCEPT !.lock = NoOne], ref)
           \/ p # NoOne
              /\ Becomes([Goto(lib, t, "find") EXCEPT !.lock = NoOne, !.desc[p].lock = t], ref)

\* A round of pluck: the cappage is taken if its lock is free, or else the next
\* one is tried.
Pluck(t) ==
    LET p == lib.area[t]
    IN  /\ lib.pc[t] = "pluck"
        /\ \/ p = NoOne /\ Becomes([Goto(lib, t, "new") EXCEPT !.lock = NoOne], ref)
           \/ /\ p # NoOne /\ lib.desc[p].lock = NoOne
              /\ Becomes([Goto(lib, t, "find") EXCEPT !.lock = NoOne, !.desc[p].lock = t], ref)
           \/ p # NoOne /\ lib.desc[p].lock # NoOne
              /\ Becomes([lib EXCEPT !.area[t] = lib.next[p]], ref)

\* No cappage could be plucked: one is allocated, known to this thread only.
NewArea(t) ==
    /\ lib.pc[t] = "new"
    /\ \E p \in CapPages :
          /\ lib.desc[p] = NoArea
          /\ Becomes([Goto(lib, t, "find") EXCEPT !.area[t] = p, !.desc[p].lock = t], ref)

\* There is no storage for a cappage: capalloc gives up.
NoStorage(t) ==
    /\ lib.pc[t] = "new"
    /\ Becomes(Returns(lib, t), ref)

\* bit_alloc looks for a free slot, which must exist.
FindSlot(t) ==
    LET free == SlotNos \ lib.desc[lib.area[t]].alloced
    IN  /\ lib.pc[t] = "find"
        /\ Becomes(IF free = {} THEN [lib EXCEPT !.failed = TRUE]
                   ELSE [Goto(lib, t, "mark") EXCEPT !.slot[t] = Min(free)], ref)

\* The slot is marked and the cappage's lock dropped.  A cappage that is full
\* now is taken off the list afterwards; a new one is announced.
MarkSlot(t) ==
    LET p == lib.area[t]
        d == [lib.desc[p] EXCEPT !.alloced = @ \cup {lib.slot[t]}, !.lock = NoOne]
        L == [lib EXCEPT !.desc[p] = d]
    IN  /\ lib.pc[t] = "mark"
        /\ IF Full(d) THEN Becomes(Goto(L, t, "last"), ref)
           ELSE IF ~d.known THEN Becomes(Goto(L, t, "announce"), ref)
           ELSE Becomes(Returns(L, t), ref \cup {<<p, lib.slot[t]>>})

\* pthread_mutex_lock of cappage_descs_lock, where capalloc goes on.
LockDescs(t, from, to) ==
    /\ lib.pc[t] = from
    /\ lib.lock = NoOne
    /\ Becomes([Goto(lib, t, to) EXCEPT !.lock = t], ref)

\* Both locks are held again: the cappage is unlinked if it is still full.
UnlinkFull(t) ==
    LET p == lib.area[t]
        L == [Returns(lib, t) EXCEPT !.lock = NoOne]
    IN  /\ lib.pc[t] = "unlink"
        /\ lib.desc[p].lock = NoOne
        /\ Becomes(IF Full(lib.desc[p]) THEN list_unlink(L, p) ELSE L,
                   ref \cup {<<p, lib.slot[t]>>})

\* A new cappage is linked and entered in the tree.
Announce(t) ==
    LET p == lib.area[t]
        L == [Returns(lib, t) EXCEPT !.lock = NoOne, !.desc[p].known = TRUE]
    IN  /\ lib.pc[t] = "link"
        /\ Becomes(list_link(L, p), ref \cup {<<p, lib.slot[t]>>})

-----------------------------------------------------------------------------
\* The client gives a slot back: from here on it does not own it.
CapFree(t, c) ==
    /\ lib.pc[t] = "idle"
    /\ lib.lock = NoOne
    /\ Becomes([Goto(lib, t, "free") EXCEPT !.lock = t, !.area[t] = c[1], !.slot[t] = c[2]],
               ref \ {c})

\* capfree under both locks.  A cappage that was full is linked.  One without
\* slots in use goes if the list has another one, and its lock stays held.
FreeSlot(t) ==
    LET p == lib.area[t]
        d == [lib.desc[p] EXCEPT !.alloced = @ \ {lib.slot[t]}]
        L == [Returns(lib, t) EXCEPT !.lock = NoOne, !.desc[p] = d]
        D == [Goto(L, t, "discard") EXCEPT !.desc[p].lock = t]
    IN  /\ lib.pc[t] = "free"
        /\ lib.desc[p].lock = NoOne
        /\ \/ Full(lib.desc[p]) /\ Becomes(list_link(L, p), ref)
           \/ ~Full(lib.desc[p]) /\ ~Unused(d) /\ Becomes(L, ref)
           \/ /\ ~Full(lib.desc[p]) /\ Unused(d) /\ lib.head = NoOne
              /\ Becomes([D EXCEPT !.failed = TRUE], ref)
           \/ /\ ~Full(lib.desc[p]) /\ Unused(d)
              /\ lib.head # NoOne /\ lib.next[lib.head] = NoOne
              /\ Becomes(L, ref)
           \/ /\ ~Full(lib.desc[p]) /\ Unused(d)
              /\ lib.head # NoOne /\ lib.next[lib.head] # NoOne
              /\ Becomes(list_unlink(D, p), ref)

\* The rest of capfree: the storage is freed, and cappage_descs_lock, which
\* this thread has dropped already, is unlocked again.  pthread_mutex_unlock
\* asserts that the caller owns the lock.
Discard(t) ==
    /\ lib.pc[t] = "discard"
    /\ Becomes([lib EXCEPT !.failed = TRUE], ref)

CapNext ==
    /\ lib.kind = CapKind
    /\ ~lib.failed
    /\ \E t \in CapThreads :
          \/ Capalloc(t) \/ Pluck(t)
          \/ NewArea(t) \/ NoStorage(t) \/ FindSlot(t) \/ MarkSlot(t)
          \/ LockDescs(t, "last", "unlink") \/ UnlinkFull(t)
          \/ LockDescs(t, "announce", "link") \/ Announce(t)
          \/ \E c \in ref : CapFree(t, c)
          \/ FreeSlot(t) \/ Discard(t)

CapSpec == CapInit /\ [][CapNext]_vars

-----------------------------------------------------------------------------
\* The threads that have a slot in hand: marked in capalloc and not returned
\* yet, or passed to capfree and not cleared yet.
Handling == {t \in CapThreads : lib.pc[t] \in {"last", "unlink", "announce", "link", "free"}}

InHand(t) == <<lib.area[t], lib.slot[t]>>

\* Whatever the calls in the window between unlock and unlink do to the list,
\* and until an assertion stops the program: a slot that is marked is owned by
\* one client or is in the hands of one call, so that none is handed out twice
\* and none is forgotten.
CapsAgree ==
    lib.kind = CapKind =>
        /\ \A p \in CapPages, i \in SlotNos :
              i \in lib.desc[p].alloced
                 <=> <<p, i>> \in ref \/ \E t \in Handling : InHand(t) = <<p, i>>
        /\ \A t \in Handling : InHand(t) \notin ref
        /\ \A t, u \in Handling : t # u => InHand(t) # InHand(u)
=============================================================================
