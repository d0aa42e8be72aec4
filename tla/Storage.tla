------------------------------- MODULE Storage -------------------------------
(***************************************************************************)
(* The allocator of objects of libhurd-mm (storage.c).  A folio holds      *)
(* FolioObjects objects.  Its descriptor has the set of objects in use,    *)
(* the number of free ones, a mode and a lock; the ones with a free object *)
(* are on one of three lists.  storage_descs_lock protects the lists and   *)
(* is taken before a descriptor's lock.  The shadow of a folio, which      *)
(* describes its objects, is itself an object: of the same folio, or, for  *)
(* a folio that was full when the program started, of another.             *)
(*                                                                         *)
(* ref is the set of objects that clients own.  The calls that a call      *)
(* makes itself to build page tables stand for calls of another thread.    *)
(* The slab of descriptors and its reserve are not modelled.               *)
(***************************************************************************)
EXTENDS LibState

CONSTANTS
    StorageThreads,     \* the threads that allocate and free objects
    FolioObjects,       \* FOLIO_OBJECTS
    LowWater,           \* FREE_PAGES_LOW_WATER
    Serialize,          \* FREE_PAGES_SERIALIZE
    MaxFolios,          \* bound: the folios that can exist, named 1..MaxFolios
    MaxCalls,           \* bound: the calls of the clients
    CountModulus,       \* the number of values of free_count
    NoThread            \* nobody holds a lock

ASSUME FolioAssumption ==
    /\ FolioObjects \in Nat /\ FolioObjects > 2
    /\ MaxFolios \in Nat /\ MaxFolios > 1 /\ CountModulus \in Nat \ {0}
    /\ NoThread \notin StorageThreads

StorageKind == "storage"
Objects == 0..(FolioObjects - 1)
Lists == {"allocing", "freeing", "short"}
Expectancies == {"ephemeral", "long"}
NoObject == <<0, 0>>

\* storage_init and as_init: folio 1 was full of objects of the program when
\* it started, and its shadow is an object of folio 2.
StorageInit ==
    /\ lib = [kind |-> StorageKind,
              desc |-> <<[alloced |-> Objects, free |-> 0, mode |-> "allocing",
                          lock |-> NoThread, shadow |-> <<2, 1>>],
                         [alloced |-> {0, 1}, free |-> FolioObjects - 2, mode |-> "allocing",
                          lock |-> NoThread, shadow |-> <<2, 0>>]>>,
              list |-> [l \in Lists |-> IF l = "allocing" THEN <<2>> ELSE <<>>],
              lock |-> NoThread, low |-> NoThread, do_serialize |-> FALSE,
              free_count |-> FolioObjects - 2, calls |-> 0,
              pc |-> [t \in StorageThreads |-> "idle"],
              force |-> [t \in StorageThreads |-> FALSE],
              expect |-> [t \in StorageThreads |-> "long"],
              object |-> [t \in StorageThreads |-> NoObject]]
    /\ ref = {<<1, i>> : i \in Objects}

-----------------------------------------------------------------------------
Go(S, t, label) == [S EXCEPT !.pc[t] = label]
Listed(S) == UNION {Range(S.list[l]) : l \in Lists}
Unlinked(list, f) ==
    [l \in Lists |-> IF f \notin Range(list[l]) THEN list[l]
                     ELSE RemoveAt(list[l], CHOOSE i \in DOMAIN list[l] : list[l][i] = f)]
LinkedTo(list, l, f) == [list EXCEPT ![l] = <<f>> \o @]

\* Additions to free_count wrap.
Plus(n, d) == (n + CountModulus + d) % CountModulus
Count(S, d) == [S EXCEPT !.free_count = Plus(@, d)]

\* storage_alloc begins.
StorageAlloc(t, e) ==
    /\ lib.pc[t] = "idle"
    /\ lib.calls < MaxCalls
    /\ Becomes([Go(lib, t, "check") EXCEPT !.calls = @ + 1, !.expect[t] = e, !.force[t] = FALSE], ref)

\* storage_check_reserve_internal returns: there is a reserve, or the thread
\* may hold as_rwlock, with which it cannot allocate a folio.
ReserveReturns(t) ==
    /\ lib.pc[t] = "check"
    /\ \/ ~lib.force[t] /\ lib.free_count > LowWater
       \/ lib.free_count > 0
    /\ Becomes(Go(lib, t, "pluck"), ref)

\* It goes on to allocate a folio.  If there is little left, one thread at a
\* time does.  The objects are counted before the folio exists.
ReserveFolio(t) ==
    LET serial == lib.do_serialize \/ lib.free_count < Serialize
        S == Go(Count(lib, FolioObjects), t, "folio")
    IN  /\ lib.pc[t] = "check"
        /\ lib.force[t] \/ lib.free_count <= LowWater
        /\ \/ ~serial /\ Becomes(S, ref)
           \/ /\ serial /\ lib.low = NoThread
              /\ Becomes([S EXCEPT !.low = t, !.do_serialize = TRUE], ref)

\* The folio is there, with an object of its own as shadow (shadow_setup), and
\* becomes available on the list that the expectancy asks for.
LinkFolio(t) ==
    LET S == [Go(Count(lib, -1), t, "pluck") EXCEPT
                 !.low = IF @ = t THEN NoThread ELSE @,
                 !.do_serialize = IF lib.low = t THEN FALSE ELSE @]
        ephemeral == lib.expect[t] = "ephemeral"
        new(f) == [alloced |-> {0}, free |-> FolioObjects - 1, lock |-> NoThread,
                   mode |-> IF ephemeral THEN "short" ELSE "allocing", shadow |-> <<f, 0>>]
    IN  /\ lib.pc[t] = "folio"
        /\ lib.lock = NoThread
        /\ 1..MaxFolios # DOMAIN lib.desc
        /\ LET f == Min(1..MaxFolios \ DOMAIN lib.desc) IN
           Becomes([S EXCEPT !.desc = [g \in DOMAIN lib.desc \cup {f} |->
                                          IF g = f THEN new(f) ELSE lib.desc[g]],
                             !.list = LinkedTo(@, IF ephemeral THEN "short" ELSE "allocing", f)], ref)

\* Descriptor j of the i-th list, in this order, is the first whose lock is
\* free.
IsFirst(order, i, j) ==
    LET Free(k, n) == lib.desc[lib.list[order[k]][n]].lock = NoThread
    IN  /\ Free(i, j)
        /\ \A n \in 1..(j - 1) : ~Free(i, n)
        /\ \A k \in 1..(i - 1) : \A n \in DOMAIN lib.list[order[k]] : ~Free(k, n)

\* The lists' lock is kept to take the descriptor off when it is full.
KeepsLock(d) == d.free = 1

\* A descriptor for something long-lived moves to its list, if it is not on it.
Plucked(t, f) ==
    LET moves == lib.expect[t] = "long" /\ f \notin Range(lib.list["allocing"])
    IN  [Go(lib, t, "take") EXCEPT
            !.desc[f].lock = t, !.object[t] = <<f, 0>>,
            !.list = IF moves THEN LinkedTo(Unlinked(@, f), "allocing", f) ELSE @,
            !.lock = IF KeepsLock(lib.desc[f]) THEN t ELSE NoThread]

\* pluck.  If there is no descriptor, the search begins again with a new folio.
PluckDesc(t) ==
    LET order == IF lib.expect[t] = "ephemeral" THEN <<"short", "allocing", "freeing">>
                                                ELSE <<"allocing", "freeing", "short">>
    IN  /\ lib.pc[t] = "pluck"
        /\ lib.lock = NoThread
        /\ \/ \E i \in 1..3 : \E j \in DOMAIN lib.list[order[i]] :
                 IsFirst(order, i, j) /\ Becomes(Plucked(t, lib.list[order[i]][j]), ref)
           \/ /\ \A f \in Listed(lib) : lib.desc[f].lock # NoThread
              /\ Becomes([Go(lib, t, "check") EXCEPT !.force[t] = TRUE], ref)

\* Mutant: the descriptor of a full folio stays on its list.
OffList_Never(list, f) == list

\* The lists without the descriptor of a full folio.
OffList(list, f) == Unlinked(list, f)

\* The object is taken, and a descriptor without free objects off its list.
TakeObject(t) ==
    LET f == lib.object[t][1]
        d == lib.desc[f]
        i == Min(Objects \ d.alloced)
        mode == IF d.free = 1 /\ d.mode = "allocing" THEN "stable" ELSE d.mode
        used == [d EXCEPT !.alloced = @ \cup {i}, !.free = @ - 1, !.mode = mode, !.lock = NoThread]
        S == [Go(Count(lib, -1), t, "idle") EXCEPT
                 !.desc[f] = used,
                 !.list = IF d.free = 1 THEN OffList(@, f) ELSE @,
                 !.lock = IF d.free = 1 THEN NoThread ELSE @,
                 !.object[t] = NoObject]
    IN  /\ lib.pc[t] = "take"
        /\ d.alloced # Objects
        /\ Becomes(S, ref \cup {<<f, i>>})

-----------------------------------------------------------------------------
\* storage_free_ of an object, counted before any lock is taken.
StorageFree(t, o) ==
    /\ lib.pc[t] = "idle"
    /\ lib.calls < MaxCalls
    /\ Becomes([Go(Count(lib, 1), t, "free") EXCEPT !.calls = @ + 1, !.object[t] = o], ref \ {o})

\* The folio has no objects but its own shadow.
Emptied(f, d) ==
    \/ d.free = FolioObjects
    \/ d.free = FolioObjects - 1 /\ d.shadow[1] = f

\* An empty folio is freed if there is a reserve without it, and a shadow in
\* another folio next, as by storage_free.
FreeFolio(t, f, d) ==
    LET S == [Count(lib, -FolioObjects) EXCEPT
                 !.list = Unlinked(@, f), !.desc = [g \in DOMAIN lib.desc \ {f} |-> lib.desc[g]],
                 !.object[t] = NoObject]
    IN  IF d.shadow[1] = f THEN Go(S, t, "idle")
        ELSE [Go(Count(S, 1), t, "free") EXCEPT !.object[t] = d.shadow]

\* A folio that stays: one that was full returns to a list, the short-lived
\* one if its mode is the constant LONG_LIVED_ALLOCING, which has the value of
\* STORAGE_EPHEMERAL; a stable one that is half free is to be freed.
KeepFolio(t, f, d) ==
    LET freeing == d.free # 1 /\ d.mode = "stable" /\ d.free > FolioObjects \div 2
        to == IF d.mode = "allocing" THEN "short" ELSE "allocing"
        kept == [d EXCEPT !.lock = t, !.mode = IF freeing THEN "freeing" ELSE @]
    IN  [Go(lib, t, "clear") EXCEPT
            !.desc[f] = kept,
            !.list = IF d.free = 1 THEN LinkedTo(@, to, f)
                     ELSE IF freeing THEN LinkedTo(Unlinked(@, f), "freeing", f) ELSE @]

\* storage_free_ with both locks.
FreeObject(t) ==
    LET f == lib.object[t][1]
        d == [lib.desc[f] EXCEPT !.free = @ + 1]
        spare == Plus(lib.free_count, -FolioObjects) > LowWater
    IN  /\ lib.pc[t] = "free"
        /\ lib.lock = NoThread /\ lib.desc[f].lock = NoThread
        /\ \/ Emptied(f, d) /\ spare /\ Becomes(FreeFolio(t, f, d), ref)
           \/ ~(Emptied(f, d) /\ spare) /\ Becomes(KeepFolio(t, f, d), ref)

\* The object is cleared; the descriptor is still locked.
ClearObject(t) ==
    LET o == lib.object[t]
        cleared == [lib.desc[o[1]] EXCEPT !.alloced = @ \ {o[2]}, !.lock = NoThread]
    IN  /\ lib.pc[t] = "clear"
        /\ Becomes([Go(lib, t, "idle") EXCEPT !.desc[o[1]] = cleared, !.object[t] = NoObject], ref)

StorageNext ==
    /\ lib.kind = StorageKind
    /\ \E t \in StorageThreads :
          \/ \E e \in Expectancies : StorageAlloc(t, e)
          \/ ReserveReturns(t) \/ ReserveFolio(t) \/ LinkFolio(t)
          \/ PluckDesc(t) \/ TakeObject(t)
          \/ \E o \in ref : StorageFree(t, o)
          \/ FreeObject(t) \/ ClearObject(t)

StorageSpec == StorageInit /\ [][StorageNext]_vars

-----------------------------------------------------------------------------
\* The objects that are in use without being a client's: the shadows of the
\* folios, and the objects that are being freed.
Internal ==
    {lib.desc[f].shadow : f \in DOMAIN lib.desc}
        \cup {lib.object[t] : t \in {u \in StorageThreads : lib.pc[u] \in {"free", "clear"}}}

\* Whatever the order in which threads allocate and free: an object in use
\* belongs to a folio that exists, and an object that is not in use to nobody;
\* a descriptor on a list has a free object ("Folio full but on a list!"), and
\* one with a free object is on exactly one list, once, and is taken off it only
\* under the lock of the lists.
StorageAgrees ==
    lib.kind = StorageKind =>
        /\ \A o \in ref : o[1] \in DOMAIN lib.desc /\ o[2] \in lib.desc[o[1]].alloced
        /\ \A f \in DOMAIN lib.desc : \A i \in lib.desc[f].alloced : <<f, i>> \in ref \cup Internal
        /\ \A f \in DOMAIN lib.desc :
              lib.desc[f].lock = NoThread =>
                  /\ lib.desc[f].free = Cardinality(Objects \ lib.desc[f].alloced)
                  /\ lib.desc[f].free > 0 <=> f \in Listed(lib)
        /\ \A l, m \in Lists :
              IsInjective(lib.list[l]) /\ (l # m => Range(lib.list[l]) \cap Range(lib.list[m]) = {})
        /\ \A t \in StorageThreads :
              lib.pc[t] = "take" =>
                  LET d == lib.desc[lib.object[t][1]]
                  IN  d.alloced # Objects /\ (d.free = 1 => lib.lock = t)
=============================================================================
