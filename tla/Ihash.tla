-------------------------------- MODULE Ihash --------------------------------
(***************************************************************************)
(* The hash table of libhurd-ihash (ihash.c): open addressing with a       *)
(* quadratic probe in both directions, slots marked as deleted, growth     *)
(* beyond a load of 80 percent, and location pointers, by which a value    *)
(* removes itself.  A removed slot keeps its key, and searches stop at it. *)
(*                                                                         *)
(* Slots are numbered from 0.  A value is one of a few objects, each of    *)
(* which is in the table at most once and has room for its own location    *)
(* pointer.  ref is the function from keys to values that the calls make.  *)
(***************************************************************************)
EXTENDS LibState, Integers

CONSTANTS
    Keys,       \* the integers used as keys
    Values,     \* the objects stored
    Empty,      \* _HURD_IHASH_EMPTY
    Deleted     \* _HURD_IHASH_DELETED

IhashKind == "ihash"

MaxLoad == 80                   \* HURD_IHASH_MAX_LOAD_DEFAULT
Sizes == <<3, 7, 19, 43>>       \* ihash_sizes, cut off

Cleared(size) == [i \in 0..(size - 1) |-> [key |-> 0, value |-> Empty]]

\* hurd_ihash_init; and hurd_ihash_init_with_buffer, whose table never grows
\* where malloc is not linked in (NO_MALLOC).
IhashInit ==
    /\ ref = <<>>
    /\ \/ lib = [kind |-> IhashKind, items |-> Cleared(0), size |-> 0, nr |-> 0,
                 locp |-> <<>>, grows |-> TRUE]
       \/ lib = [kind |-> IhashKind, items |-> Cleared(3), size |-> 3, nr |-> 0,
                 locp |-> <<>>, grows |-> FALSE]

index_empty(T, i) == T.items[i].value \in {Empty, Deleted}
index_valid(T, i, k) == ~index_empty(T, i) /\ T.items[i].key = k

\* The slots in the order in which they are probed for a key: the key's own,
\* then 1, 4, 9... slots up and down from it.
Probe(T, k) ==
    [j \in 1..T.size |-> LET d == (j \div 2) * (j \div 2)
                         IN  (IF j % 2 = 0 THEN k + d ELSE k - d) % T.size]

\* The place in the probe where a search ends: a slot never used, or one with
\* this key, deleted or not.  0 if there is none.
StopsAt(T, k) ==
    SelectInSeq(Probe(T, k), LAMBDA i : T.items[i].value = Empty \/ T.items[i].key = k)

\* find_index.
find_index(T, k) ==
    Probe(T, k)[IF StopsAt(T, k) = 0 THEN 1 ELSE StopsAt(T, k)]

locp_remove(T, i) ==
    [T EXCEPT !.items[i].value = Deleted, !.nr = @ - 1,
              !.locp = [v \in DOMAIN @ \ {T.items[i].value} |-> @[v]]]

\* Mutant: the first deleted slot on the way is taken without looking on for
\* the key.
FirstFree_Eager(T, k, stop) ==
    LET p == Probe(T, k)
        d == SelectInSeq(p, LAMBDA i : T.items[i].value = Deleted)
    IN  IF d = 0 THEN p[1] ELSE p[d]

\* The first_free of replace_one: the first deleted slot passed after the
\* key's own, or the key's own.
FirstFree(T, k, stop) ==
    LET p == Probe(T, k)
        passed == IF stop = 0 THEN Len(p) ELSE stop - 1
        d == SelectInSubSeq(p, 2, passed, LAMBDA i : T.items[i].value = Deleted)
    IN  IF d = 0 THEN p[1] ELSE p[d]

\* replace_one: the table, and whether the value was added.
replace_one(T, k, v) ==
    LET stop == StopsAt(T, k)
        idx == find_index(T, k)
        T1 == IF index_valid(T, idx, k) THEN locp_remove(T, idx) ELSE T
        first == FirstFree(T, k, stop)
        at == IF index_empty(T1, first) THEN first ELSE idx
    IN  IF index_empty(T1, at)
        THEN [added |-> TRUE,
              table |-> [T1 EXCEPT !.items[at] = [key |-> k, value |-> v],
                                   !.nr = @ + 1, !.locp = (v :> at) @@ @]]
        ELSE [added |-> FALSE, table |-> T1]

\* hurd_ihash_buffer_size, in slots.
BufferSize(count) ==
    Sizes[SelectInSeq(Sizes, LAMBDA s : s >= (count * 100) \div MaxLoad)]

\* The larger table with the old entries, slot by slot.
Rehash(T) ==
    LET size == BufferSize(T.size + 1)
        new == [T EXCEPT !.items = Cleared(size), !.size = size, !.nr = 0, !.locp = <<>>]
        old == SelectSeq([i \in 1..T.size |-> i - 1], LAMBDA i : ~index_empty(T, i))
    IN  FoldLeft(LAMBDA U, i : replace_one(U, T.items[i].key, T.items[i].value).table, new, old)

\* hurd_ihash_replace, which hurd_ihash_add is: the new table, or T if there
\* is no memory.  The load is tested only where the table may grow.
Replace(T, k, v) ==
    LET here == T.size > 0 /\ (T.grows => (T.nr * 100) \div T.size <= MaxLoad)
        r == replace_one(T, k, v)
    IN  IF here /\ r.added THEN r
        ELSE IF ~T.grows THEN [added |-> FALSE, table |-> IF here THEN r.table ELSE T]
        ELSE replace_one(Rehash(T), k, v)

\* hurd_ihash_find.
Find(T, k) ==
    IF T.size > 0 /\ index_valid(T, find_index(T, k), k)
    THEN T.items[find_index(T, k)].value ELSE Empty

\* hurd_ihash_remove.
RemoveKey(T, k) ==
    IF T.size > 0 /\ index_valid(T, find_index(T, k), k)
    THEN locp_remove(T, find_index(T, k)) ELSE T

Without(f, k) == [x \in DOMAIN f \ {k} |-> f[x]]

-----------------------------------------------------------------------------
\* A value is added under a key, unless there is no room.
IhashAdd(k, v) ==
    LET r == Replace(lib, k, v) IN
    /\ v \notin Range(ref)
    /\ Becomes(r.table, IF r.added THEN (k :> v) @@ ref ELSE ref)

IhashRemove(k) == Becomes(RemoveKey(lib, k), Without(ref, k))

\* hurd_ihash_locp_remove.
IhashLocpRemove(k) ==
    k \in DOMAIN ref /\ Becomes(locp_remove(lib, lib.locp[ref[k]]), Without(ref, k))

IhashNext ==
    /\ lib.kind = IhashKind
    /\ \E k \in Keys :
          \/ \E v \in Values : IhashAdd(k, v)
          \/ IhashRemove(k)
          \/ IhashLocpRemove(k)

\* Every key finds the value last added under it, or none: deleted slots,
\* reuse of slots, growth and the two ways to remove never hide or revive an
\* entry.  The count is that of the entries, each stored in one slot, to which
\* its value points.
HashAgrees ==
    lib.kind = IhashKind =>
        /\ \A k \in Keys : Find(lib, k) = IF k \in DOMAIN ref THEN ref[k] ELSE Empty
        /\ lib.nr = Cardinality(DOMAIN ref)
        /\ Cardinality({i \in DOMAIN lib.items : ~index_empty(lib, i)}) = lib.nr
        /\ \A v \in Range(ref) : lib.items[lib.locp[v]].value = v
=============================================================================
