-------------------------------- MODULE Maps ---------------------------------
(***************************************************************************)
(* The memory of a program as libhurd-mm keeps it: maps (map.c), each of   *)
(* which shows a part of a pager (pager.c, anonymous.c), and the calls     *)
(* that change them (mmap.c, mprotect.c, madvise.c), made by threads that  *)
(* also touch the memory and handle the faults that this raises.           *)
(*                                                                         *)
(* An address is the number of a page.  maps is the tree of maps; the list *)
(* of a pager's maps is those of the tree and those that a thread is about *)
(* to destroy.  space is what as_alloc has given out, slot what the        *)
(* address space holds for each page, store the storage: its content or    *)
(* that it was discarded.  ref is the memory as the program understands    *)
(* it: for each page its access and content, or NoPage.                    *)
(*                                                                         *)
(* The tree of a pager's storage has no lock of its own: fault works on it *)
(* under anon->lock, mdestroy under pager->lock, advise under maps_lock.   *)
(* Where two of them meet, where a fault goes on in a pager that was freed *)
(* and where an assertion fails, the program has stopped: nothing is known *)
(* of it any more.  stale are the pages that a call has changed while a    *)
(* fault was under way there, so that the fault goes on with a map as it   *)
(* was (map.c:364).                                                        *)
(*                                                                         *)
(* All calls are given multiples of the page size; of the flags of         *)
(* anonymous_pager_alloc only ANONYMOUS_FIXED is used.                     *)
(***************************************************************************)
EXTENDS LibState

CONSTANTS
    MapThreads,
    Touchers,               \* the threads that touch the memory
    LastAddress,            \* addresses are 1..LastAddress
    Pagers,                 \* the anonymous pagers that may exist, numbers
    Accesses,               \* the protections given to mmap and mprotect
    Hints,                  \* the addresses that mmap is asked for
    MaxMapCalls,            \* bound: calls that change the maps
    NoPage,                 \* an address that is not mapped
    NoHolder                \* a lock that is free

MapKind == "maps"
MapAddresses == 1..LastAddress
NoSlot == [page |-> 0, rw |-> FALSE]
NoPager == [live |-> FALSE, length |-> 0, fill |-> FALSE, lock |-> NoHolder,
            storage |-> [o \in 0..LastAddress - 1 |-> 0]]
AtEase == [kind |-> "idle"]

MapInit ==
    /\ lib = [kind |-> MapKind, maps |-> {}, pagers |-> [p \in Pagers |-> NoPager],
              space |-> {}, slot |-> [a \in MapAddresses |-> NoSlot],
              store |-> [s \in MapAddresses |-> "free"], op |-> [t \in MapThreads |-> AtEase],
              calls |-> 0, segv |-> <<>>, stale |-> {}, stopped |-> FALSE]
    /\ ref = [a \in MapAddresses |-> NoPage]

Covers(m, a) == m.start <= a /\ a < m.start + m.length
MapsWithin(ms, r) == {m \in ms : \E a \in r : Covers(m, a)}
MapAt(ms, a) == CHOOSE m \in ms : Covers(m, a)

\* The maps that threads have disconnected and not destroyed yet.
Doomed == UNION {lib.op[t].todo : t \in {u \in MapThreads : lib.op[u].kind = "unmap"}}

\* The list of maps of pager p.
MapsOf(p) == {m \in lib.maps \cup Doomed : m.pager = p}

\* The pages of the region r in which a thread takes a fault.
Faulting(r) == {lib.op[t].page : t \in {u \in MapThreads : lib.op[u].kind = "fault"}} \cap r

\* Who works on the storage tree of pager p: faults, and a call that destroys a
\* map, which holds the pager's lock.
InFault(p) == \E t \in MapThreads :
    lib.op[t].kind = "fault" /\ lib.op[t].pager = p /\ lib.op[t].stage = "tree"
InDestroy(p) == \E t \in MapThreads :
    lib.op[t].kind = "unmap" /\ \E m \in lib.op[t].now : m.pager = p

Stopped == [lib EXCEPT !.stopped = TRUE]

IdleThread(t) == lib.op[t].kind = "idle"

-----------------------------------------------------------------------------
\* Mutant: the second part keeps the offset of the first one.
SplitMap_SameOffset(m, n) ==
    {[m EXCEPT !.length = n], [m EXCEPT !.start = @ + n, !.length = @ - n]}

\* map_split: the map and its second part, which begins n pages later.
SplitMap(m, n) ==
    {[m EXCEPT !.length = n],
     [m EXCEPT !.start = @ + n, !.length = @ - n, !.offset = @ + n]}

\* The map that crosses the address a, if there is one, is split there.
CutAt(ms, a) ==
    UNION {IF m.start < a /\ Covers(m, a) THEN SplitMap(m, a - m.start) ELSE {m} : m \in ms}

\* munmap and mprotect split the maps of ms that reach out of the region.
Carve(ms, r) == CutAt(CutAt(ms, Min(r)), Max(r) + 1)

-----------------------------------------------------------------------------
\* storage_free: the objects are gone, and with them the slots that name them.
FreeStorage(L, ids) ==
    [L EXCEPT !.store = [s \in MapAddresses |-> IF s \in ids THEN "free" ELSE @[s]],
              !.slot = [a \in MapAddresses |-> IF @[a].page \in ids THEN NoSlot ELSE @[a]]]

\* mdestroy: the storage behind the map is freed, that of the whole pager when
\* this is its last map; and the map's addresses.
MapStorageFreed(L, m, last) ==
    LET pg == L.pagers[m.pager]
        os == {o \in DOMAIN pg.storage : last \/ (m.offset <= o /\ o < m.offset + m.length)}
        ids == {pg.storage[o] : o \in os} \ {0}
    IN  [FreeStorage(L, ids) EXCEPT
            !.pagers[m.pager].storage = [o \in DOMAIN @ |-> IF o \in os THEN 0 ELSE @[o]],
            !.space = {a \in @ : ~Covers(m, a)}]

\* map_destroy: with its last map the pager is destroyed as well, by its
\* no_refs function, destroy.
MapDestroyed(L, m, last) ==
    LET D == MapStorageFreed(L, m, last)
    IN  IF last THEN [D EXCEPT !.pagers[m.pager] = NoPager] ELSE D

-----------------------------------------------------------------------------
FreeRuns(n) ==
    {a \in MapAddresses : a + n - 1 <= LastAddress /\ (a..a + n - 1) \cap lib.space = {}}

\* The rest of anonymous_pager_alloc at the chosen address: the pager is
\* initialised and its map is installed.
Installed(L, p, a, n, access, fill) ==
    [L EXCEPT !.pagers[p] = [NoPager EXCEPT !.live = TRUE, !.length = n, !.fill = fill],
              !.maps = @ \cup {[start |-> a, length |-> n, pager |-> p, offset |-> 0,
                                access |-> access]},
              !.space = @ \cup a..a + n - 1]

Shown(r, access, fill) ==
    [a \in MapAddresses |->
        IF a \in r THEN [access |-> access, content |-> IF fill THEN "fill" ELSE "zero"]
        ELSE ref[a]]

\* anonymous_pager_alloc.  hint is 0 for none.  When the place of the hint is
\* not free another one is chosen, unless the hint is mandatory.
PagerAlloc(L, hint, n, access, fixed, fill) ==
    LET unused == {p \in Pagers : ~L.pagers[p].live}
        places == IF hint \in FreeRuns(n) THEN {hint}
                  ELSE IF fixed THEN {} ELSE FreeRuns(n)
    IN  /\ unused # {}
        /\ IF places = {} THEN Becomes(L, ref)
           ELSE \E a \in places :
                   Becomes(Installed(L, Min(unused), a, n, access, fill),
                           Shown(a..a + n - 1, access, fill))

Called(t) ==
    /\ IdleThread(t)
    /\ lib.calls < MaxMapCalls

Counted == [lib EXCEPT !.calls = @ + 1]

\* The access that mmap gives for a protection: it tests PROT_READ for both.
MmapAccess(prot) == IF "r" \in prot THEN {"r", "w"} ELSE {}

\* mmap without MAP_FIXED.
Mmap(t, hint, n, prot) ==
    /\ Called(t)
    /\ PagerAlloc(Counted, hint, n, MmapAccess(prot), FALSE, FALSE)

\* anonymous_pager_alloc with a fill function and discardable storage.
AllocWithFill(t, n) ==
    /\ Called(t)
    /\ PagerAlloc(Counted, 0, n, {"r", "w"}, FALSE, TRUE)

\* The first part of munmap, under maps_lock: all maps in the region are
\* disconnected and put on a list.  then is what mmap does afterwards.
Unmapping(t, r, then) ==
    LET cut == Carve(MapsWithin(lib.maps, r), r)
        gone == {m \in cut : m.start \in r}
        maps == (lib.maps \ MapsWithin(lib.maps, r)) \cup (cut \ gone)
    IN  Becomes([Counted EXCEPT !.maps = maps, !.stale = @ \cup Faulting(r),
                                !.op[t] = [kind |-> "unmap", todo |-> gone, now |-> {},
                                           then |-> then]],
                [a \in MapAddresses |-> IF a \in r THEN NoPage ELSE ref[a]])

Munmap(t, r) ==
    /\ Called(t)
    /\ MapsWithin(lib.maps, r) # {}
    /\ Unmapping(t, r, <<>>)

\* mmap with MAP_FIXED unmaps what is there.
MmapFixed(t, r, prot) ==
    /\ Called(t)
    /\ Unmapping(t, r, <<Min(r), Cardinality(r), MmapAccess(prot)>>)

\* The second part of munmap: the maps of the list are destroyed, each under
\* the lock of its pager, which does not keep faults off the storage tree.
DestroyBegin(t) ==
    /\ lib.op[t].kind = "unmap" /\ lib.op[t].now = {}
    /\ \E m \in lib.op[t].todo :
        /\ ~InDestroy(m.pager)
        /\ Becomes(IF InFault(m.pager) THEN Stopped ELSE [lib EXCEPT !.op[t].now = {m}], ref)

DestroyOne(t) ==
    /\ lib.op[t].kind = "unmap"
    /\ \E m \in lib.op[t].now :
        Becomes(MapDestroyed([lib EXCEPT !.op[t].todo = @ \ {m}, !.op[t].now = {}],
                             m, MapsOf(m.pager) = {m}), ref)

UnmapDone(t) ==
    /\ lib.op[t].kind = "unmap" /\ lib.op[t].todo = {}
    /\ lib.op[t].then = <<>>
    /\ Becomes([lib EXCEPT !.op[t] = AtEase], ref)

\* mmap goes on after munmap; there may be no more room at the address.
MmapFixedDone(t) ==
    /\ lib.op[t].kind = "unmap" /\ lib.op[t].todo = {}
    /\ lib.op[t].then # <<>>
    /\ LET args == lib.op[t].then
       IN  PagerAlloc([lib EXCEPT !.op[t] = AtEase], args[1], args[2], args[3], TRUE, FALSE)

\* anonymous_pager_destroy and pager_deinit: with anon->lock, which is never
\* released, all maps but the last one are destroyed under maps_lock.  A map
\* that another call has disconnected violates an assertion.
PagerDestroy(t, p) ==
    /\ Called(t)
    /\ lib.pagers[p].live /\ lib.pagers[p].lock = NoHolder /\ ~InDestroy(p)
    /\ \/ \E m \in MapsOf(p) : m \notin lib.maps /\ Becomes(Stopped, ref)
       \/ /\ MapsOf(p) \subseteq lib.maps
          /\ \E m \in MapsOf(p) :
              LET others == MapsOf(p) \ {m}
                  Destroy(d, L) == MapDestroyed(L, d, FALSE)
                  pages == {a \in MapAddresses : \E d \in MapsOf(p) : Covers(d, a)}
              IN  Becomes(FoldSet(Destroy,
                                  [Counted EXCEPT !.maps = @ \ MapsOf(p),
                                                  !.stale = @ \cup Faulting(pages),
                                                  !.pagers[p].lock = t,
                                                  !.op[t] = [kind |-> "unmap", todo |-> {m},
                                                             now |-> {}, then |-> <<>>]],
                                  others),
                          [a \in MapAddresses |-> IF a \in pages THEN NoPage ELSE ref[a]])

-----------------------------------------------------------------------------
\* mprotect reduces the access of the map m: what its pages' slots allow is
\* weakened, or they are cleared when no access is left.
Weakened(L, m, access) ==
    LET reduced == \E x \in m.access : x \notin access
    IN  [L EXCEPT !.slot = [a \in MapAddresses |->
            IF ~reduced \/ ~Covers(m, a) \/ @[a].page = 0 THEN @[a]
            ELSE IF access = {} THEN NoSlot ELSE [@[a] EXCEPT !.rw = FALSE]]]

\* mprotect, all of it under maps_lock.  A map that has the access already is
\* not split.
Mprotect(t, r, access) ==
    LET others == {m \in MapsWithin(lib.maps, r) : m.access # access}
        cut == Carve(others, r)
        inside == {m \in cut : m.start \in r}
        changed == {[m EXCEPT !.access = access] : m \in inside}
        Weaken(m, L) == Weakened(L, m, access)
    IN  /\ Called(t)
        /\ others # {}
        /\ Becomes(FoldSet(Weaken,
                           [Counted EXCEPT !.maps = ((@ \ others) \cup (cut \ inside)) \cup changed,
                                           !.stale = @ \cup Faulting(r)],
                           inside),
                   [a \in MapAddresses |-> IF a \in r /\ ref[a] # NoPage
                                        THEN [ref[a] EXCEPT !.access = access] ELSE ref[a]])

\* madvise with MADV_DONTNEED, and advise of the pager: the kernel discards the
\* content of the storage that there is, without the discarded bit.  advise
\* goes through the storage tree without the pager's locks.
Madvise(t, r) ==
    LET shown == {m \in lib.maps : \E a \in r : Covers(m, a)}
        ids == UNION {{lib.pagers[m.pager].storage[m.offset + a - m.start] :
                         a \in {x \in r : Covers(m, x)}} : m \in shown} \ {0}
        dropped == {s \in ids : lib.store[s] # "discarded"}
        meets == \E m \in shown : InFault(m.pager) \/ InDestroy(m.pager)
    IN  /\ Called(t)
        /\ \/ meets /\ Becomes(Stopped, ref)
           \/ /\ ~meets /\ ids # {}
              /\ Becomes([Counted EXCEPT !.store =
                             [s \in MapAddresses |-> IF s \in dropped THEN "zero" ELSE @[s]]],
                         [a \in MapAddresses |-> IF a \in r /\ ref[a] # NoPage
                                              THEN [ref[a] EXCEPT !.content = "zero"] ELSE ref[a]])

\* The kernel reclaims a page of a discardable pager.
DiscardPage(s) ==
    /\ lib.store[s] = "fill"
    /\ Becomes([lib EXCEPT !.store[s] = "discarded"], ref)

-----------------------------------------------------------------------------
Valid(a) == lib.slot[a].page # 0 /\ lib.store[lib.slot[a].page] # "discarded"
Allowed(a, w) == Valid(a) /\ (w => lib.slot[a].rw)

\* A thread writes to a page that it may write to.  Programs only read what a
\* fill function has produced.
Write(t, a) ==
    /\ IdleThread(t)
    /\ Allowed(a, TRUE) /\ lib.store[lib.slot[a].page] = "zero"
    /\ ref[a] # NoPage => ref[a].content = "zero"
    /\ Becomes([lib EXCEPT !.store[lib.slot[a].page] = "data"],
               [ref EXCEPT ![a] = IF @ = NoPage THEN @ ELSE [@ EXCEPT !.content = "data"]])

Permits(access, w) == access # {} /\ (w => "w" \in access)

\* map_fault: the map is looked up under maps_lock, and what the pager needs is
\* remembered.  Without a map that permits the access there is a signal.
FaultFind(t, a, w) ==
    LET found == {m \in lib.maps : Covers(m, a)}
        m == MapAt(lib.maps, a)
    IN  /\ IdleThread(t)
        /\ ~Allowed(a, w)
        /\ Becomes(IF found = {} \/ ~Permits(m.access, w)
                   THEN [lib EXCEPT !.segv = <<a, w>>]
                   ELSE [lib EXCEPT !.op[t] =
                            [kind |-> "fault", page |-> a, pager |-> m.pager,
                             offset |-> m.offset + (a - m.start), ro |-> "w" \notin m.access,
                             discarded |-> lib.slot[a].page # 0
                                             /\ lib.store[lib.slot[a].page] = "discarded",
                             stage |-> "found", store |-> 0]], ref)

\* storage_alloc.  Any storage would do.
FreeStores == {s \in MapAddresses : lib.store[s] = "free"}
TakeStorage(a) == IF a \in FreeStores THEN a ELSE Min(FreeStores)

\* fault of anonymous.c takes anon->lock and begins with the storage tree.  The
\* pager that map_fault has found may be gone by now, or be another one.
FaultEnter(t) ==
    LET op == lib.op[t]
        pg == lib.pagers[op.pager]
    IN  /\ op.kind = "fault" /\ op.stage = "found"
        /\ pg.lock = NoHolder
        /\ Becomes(IF pg.live /\ op.offset < pg.length /\ ~InDestroy(op.pager)
                   THEN [lib EXCEPT !.op[t].stage = "tree", !.pagers[op.pager].lock = t]
                   ELSE Stopped, ref)

\* The pages other than a that show what pager p has at offset o.
ShownAt(p, o, a) ==
    {b \in MapAddresses \ {a} : \E m \in lib.maps : m.pager = p /\ Covers(m, b) /\ m.offset + b - m.start = o}

\* fault up to the fill function: the storage is found or allocated, and
\* installed; that of a discarded page is only marked usable.
FaultServe(t) ==
    LET op == lib.op[t]
        pg == lib.pagers[op.pager]
        old == pg.storage[op.offset]
        s == IF old # 0 THEN old ELSE TakeStorage(op.page)
        usable == IF old = 0 \/ (op.discarded /\ lib.store[s] = "discarded") THEN "zero"
                  ELSE lib.store[s]
        slot == IF op.discarded THEN lib.slot[op.page] ELSE [page |-> s, rw |-> ~op.ro]
        served == [lib EXCEPT !.pagers[op.pager].storage[op.offset] = s,
                              !.store[s] = usable,
                              !.slot[op.page] = slot,
                              !.stale = @ \cup ShownAt(op.pager, op.offset, op.page)]
    IN  /\ op.kind = "fault" /\ op.stage = "tree"
        /\ Becomes(IF (op.discarded /\ (old = 0 \/ ~pg.fill)) \/ (old = 0 /\ FreeStores = {})
                   THEN Stopped
                   ELSE IF pg.fill
                   THEN [served EXCEPT !.op[t].stage = "fill", !.op[t].store = s]
                   ELSE [served EXCEPT !.op[t] = AtEase, !.pagers[op.pager].lock = NoHolder], ref)

\* The fill function has produced the content, in storage that a call may have
\* freed meanwhile, and the locks are released.
FaultFill(t) ==
    LET op == lib.op[t]
    IN  /\ op.kind = "fault" /\ op.stage = "fill"
        /\ Becomes(IF lib.pagers[op.pager].storage[op.offset] # op.store THEN Stopped
                   ELSE [lib EXCEPT !.store[op.store] = "fill",
                                    !.pagers[op.pager].lock = NoHolder,
                                    !.op[t] = AtEase], ref)

Regions == {a..b : <<a, b>> \in {x \in MapAddresses \X MapAddresses : x[1] <= x[2]}}

MapNext ==
    /\ lib.kind = MapKind
    /\ lib.segv = <<>> /\ ~lib.stopped
    /\ \/ \E t \in MapThreads :
            \/ DestroyBegin(t) \/ DestroyOne(t) \/ UnmapDone(t) \/ MmapFixedDone(t)
            \/ FaultEnter(t) \/ FaultServe(t) \/ FaultFill(t)
            \/ \E hint \in {0} \cup Hints, n \in 1..LastAddress, prot \in Accesses :
                  Mmap(t, hint, n, prot)
            \/ \E n \in 1..LastAddress : AllocWithFill(t, n)
            \/ \E p \in Pagers : PagerDestroy(t, p)
            \/ \E r \in Regions : Munmap(t, r) \/ Madvise(t, r)
            \/ \E r \in Regions, access \in Accesses : MmapFixed(t, r, access) \/ Mprotect(t, r, access)
       \/ \E t \in Touchers, a \in MapAddresses :
            Write(t, a) \/ \E w \in BOOLEAN : FaultFind(t, a, w)
       \/ \E s \in MapAddresses : DiscardPage(s)

-----------------------------------------------------------------------------
StorageFor(a) ==
    LET m == MapAt(lib.maps, a) IN lib.pagers[m.pager].storage[m.offset + a - m.start]

\* A page that the program has is shown by one map with its access, and its
\* storage, if there is any, is in use.
PageShown(a) ==
    LET m == MapAt(lib.maps, a)
        pg == lib.pagers[m.pager]
    IN  /\ Cardinality({n \in lib.maps : Covers(n, a)}) = 1
        /\ m.access = ref[a].access
        /\ pg.live /\ m.offset + m.length <= pg.length
        /\ StorageFor(a) # 0 => lib.store[StorageFor(a)] # "free"

\* What the address space holds for a page, if anything, is its own storage,
\* and allows a write only if the map does; what was written is there.
PageKept(a) ==
    LET m == MapAt(lib.maps, a)
        s == StorageFor(a)
        pg == lib.pagers[m.pager]
        filling == \E t \in MapThreads :
                     /\ lib.op[t].kind = "fault" /\ lib.op[t].stage = "fill"
                     /\ lib.op[t].page = a
    IN  /\ lib.slot[a].page \in {0, s}
        /\ lib.slot[a].rw => "w" \in m.access
        /\ ~pg.fill => IF s = 0 THEN ref[a].content = "zero" ELSE lib.store[s] = ref[a].content
        /\ pg.fill /\ Valid(a) /\ ~filling /\ lib.store[s] = "zero" => ref[a].content = "zero"

\* However calls split, change and destroy maps while faults are handled, until
\* two of them meet in a storage tree: every page of the program is shown with
\* its access, and no access that is permitted raises a signal; two pages never
\* share storage, and all storage in use is in the tree of a pager that has
\* maps, so that it goes with them at the latest; addresses are free again when
\* the call has ended.  A page keeps its storage, its content and its protection
\* unless a call changed it while a fault was under way on it, or a fault left
\* over from an earlier pager was served with its storage.
MemoryAgrees ==
    lib.kind = MapKind =>
        LET Doom == {a \in MapAddresses : \E m \in Doomed : Covers(m, a)}
            Known == {a \in MapAddresses : ref[a] # NoPage}
        IN  /\ \A a \in Known : PageShown(a) /\ (a \notin lib.stale => PageKept(a))
            /\ \A a, b \in Known : a # b /\ StorageFor(a) # 0 => StorageFor(a) # StorageFor(b)
            /\ \A m \in lib.maps : \A a \in MapAddresses : Covers(m, a) => a \in Known
            /\ lib.space = Known \cup Doom
            /\ \A p \in Pagers : lib.pagers[p].live <=> MapsOf(p) # {}
            /\ {s \in MapAddresses : lib.store[s] # "free"}
                 = UNION {Range(lib.pagers[p].storage) : p \in Pagers} \ {0}
            /\ Doom = {} => \A a \in MapAddresses \ (Known \cup lib.stale) : lib.slot[a] = NoSlot
            /\ lib.segv # <<>> => \/ ref[lib.segv[1]] = NoPage
                                  \/ ~Permits(ref[lib.segv[1]].access, lib.segv[2])
=============================================================================
