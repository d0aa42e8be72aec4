-------------------------------- MODULE Slab ---------------------------------
(***************************************************************************)
(* The slab allocator of libhurd-slab (slab.c).  A slab is a page, split   *)
(* into buffers 1..PerSlab; the list of slabs is a sequence.  A call holds *)
(* the space's lock from begin to end, so it is one action.  New pages are *)
(* zeroed, as those of mmap are.  ref is the set of buffers in use.        *)
(***************************************************************************)
EXTENDS LibState

CONSTANTS
    SlabPages,  \* the pages the space may get
    PerSlab,    \* full_refcount: buffers in a slab
    NoSlab      \* NULL

ASSUME PerSlabAssumption == PerSlab \in Nat \ {0} /\ NoSlab \notin SlabPages

SlabKind == "slab"
NewSlab == [refcount |-> 0, free |-> [i \in 1..PerSlab |-> PerSlab + 1 - i]]

\* hurd_slab_init.  leaked are pages that nobody will give back.
SlabInit ==
    /\ lib = [kind |-> SlabKind, list |-> <<>>, slab |-> <<>>, first_free |-> NoSlab,
              leaked |-> {}, destroyed |-> FALSE]
    /\ ref = {}

\* The first slab of the list that is not full.
FirstNotFull(S) ==
    LET open == {i \in DOMAIN S.list : S.slab[S.list[i]].refcount # PerSlab}
    IN  IF open = {} THEN NoSlab ELSE S.list[Min(open)]

\* grow: the new slab goes to the end of the list (insert_slab).
grow(S, p) ==
    [S EXCEPT !.list = Append(@, p), !.first_free = p,
              !.slab = [q \in DOMAIN @ \cup {p} |-> IF q = p THEN NewSlab ELSE S.slab[q]]]

\* Mutant: first_free stays although its last buffer was taken.
NextFree_Stays(S) == S.first_free

\* What first_free is after a buffer was taken from it.
NextFree(S) ==
    IF S.slab[S.first_free].refcount = PerSlab THEN FirstNotFull(S) ELSE S.first_free

\* The end of hurd_slab_alloc: the first free buffer of first_free is taken.
TakeBuffer(S) ==
    LET p == S.first_free
        S1 == [S EXCEPT !.slab[p] = [refcount |-> @.refcount + 1, free |-> Tail(@.free)]]
    IN  Becomes([S1 EXCEPT !.first_free = NextFree(S1)], ref \cup {<<p, Head(S.slab[p].free)>>})

Pages(S) == Range(S.list) \cup S.leaked

\* hurd_slab_alloc.
SlabAlloc ==
    \/ lib.first_free # NoSlab /\ TakeBuffer(lib)
    \/ lib.first_free = NoSlab /\ \E p \in SlabPages \ Pages(lib) : TakeBuffer(grow(lib, p))

\* hurd_slab_alloc with a constructor that fails on a buffer other than the
\* first.  The page is given back by the address of that buffer, in vain.
SlabConstructorFails ==
    /\ lib.first_free = NoSlab
    /\ PerSlab > 1
    /\ \E p \in SlabPages \ Pages(lib) : Becomes([lib EXCEPT !.leaked = @ \cup {p}], ref)

\* hurd_slab_dealloc and put_on_slab_list.
SlabDealloc(b) ==
    LET p == b[1]
        S == [lib EXCEPT !.slab[p] = [refcount |-> @.refcount - 1, free |-> <<b[2]>> \o @.free]]
        less == S.first_free = NoSlab \/ S.slab[p].refcount < S.slab[S.first_free].refcount
    IN  Becomes([S EXCEPT !.first_free = IF less THEN p ELSE @], ref \ {b})

\* reap: the slabs without buffers in use are removed and given back, until
\* one cannot be; that one is neither in the list nor given back.
Reap(S, refused) ==
    LET empty == {i \in DOMAIN S.list : S.slab[S.list[i]].refcount = 0}
        stops == {i \in empty : S.list[i] \in refused}
        gone == {S.list[i] : i \in {j \in empty : \A k \in stops : j <= k}}
        S1 == [S EXCEPT !.list = Unlisted(@, gone),
                        !.slab = [p \in DOMAIN @ \ gone |-> S.slab[p]],
                        !.leaked = @ \cup (gone \cap refused)]
    IN  [S1 EXCEPT !.first_free = FirstNotFull(S1)]

\* hurd_slab_destroy: EBUSY while buffers are in use.
SlabDestroy(refused) ==
    LET S == Reap(lib, refused)
        failed == S.leaked # lib.leaked
    IN  Becomes([S EXCEPT !.destroyed = ~failed /\ S.list = <<>>], ref)

SlabNext ==
    /\ lib.kind = SlabKind
    /\ ~lib.destroyed
    /\ \/ SlabAlloc
       \/ SlabConstructorFails
       \/ \E b \in ref : SlabDealloc(b)
       \/ \E refused \in SUBSET SlabPages : Cardinality(refused) <= 1 /\ SlabDestroy(refused)

SlabSpec == SlabInit /\ [][SlabNext]_vars

\* No buffer is handed out twice and none is forgotten: in every slab the
\* buffers are in use or on its free list, once, and the count is of those in
\* use.  first_free has a free buffer, and is NULL only if no slab has.  A
\* destroyed space has no buffer in use.
SlabsAgree ==
    lib.kind = SlabKind =>
        /\ DOMAIN lib.slab = Range(lib.list)
        /\ IsInjective(lib.list)
        /\ \A b \in ref : b[1] \in Range(lib.list)
        /\ \A p \in Range(lib.list) :
              LET used == {i \in 1..PerSlab : <<p, i>> \in ref} IN
              /\ lib.slab[p].refcount = Cardinality(used)
              /\ Range(lib.slab[p].free) = (1..PerSlab) \ used
              /\ IsInjective(lib.slab[p].free)
        /\ IF lib.first_free = NoSlab
           THEN \A p \in Range(lib.list) : lib.slab[p].refcount = PerSlab
           ELSE lib.first_free \in Range(lib.list) /\ lib.slab[lib.first_free].free # <<>>
        /\ lib.destroyed => ref = {}
=============================================================================
