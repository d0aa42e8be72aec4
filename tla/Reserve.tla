------------------------------- MODULE Reserve -------------------------------
(***************************************************************************)
(* Reservations of physical memory at boot (viengoos/memory.c): intervals  *)
(* of bytes, ends included, kept in a tree that finds some interval that   *)
(* overlaps a given one.  After the reservations all memory is grabbed and *)
(* the pages without reserved bytes go to the allocator; later the         *)
(* reservations of a type are cleared and their pages follow.  Pages are   *)
(* PageSize bytes.                                                         *)
(*                                                                         *)
(* ref is the function from the bytes reserved to their types.  lost are   *)
(* the bytes that memory_reserve forgets when a region fills the gap       *)
(* between two of its type: RIGHT is detached and LEFT ends at the end of  *)
(* the new region.  A region that touches the first or the last one makes  *)
(* the code read through NULL; what is read there is taken not to match,   *)
(* or to stop the kernel.  A reservation that ends at the first byte of a  *)
(* page makes memory_add go round for ever, which stops the kernel too, or *)
(* is overlooked, as the search of the tree happens to go.                 *)
(***************************************************************************)
EXTENDS LibState

CONSTANTS
    LastByte,       \* memory is the bytes 0..LastByte, whole pages
    PageSize,       \* PAGESIZE
    Types           \* enum memory_reservation

ReserveKind == "reserve"
Bytes(s, e) == s..e
BytesOf(r) == Bytes(r.start, r.end)
PageOf(b) == b \div PageSize

ReserveInit ==
    /\ lib = [kind |-> ReserveKind, res |-> {}, pool |-> {}, lost |-> {},
              grabbed |-> FALSE, stopped |-> FALSE]
    /\ ref = <<>>

\* What the search of the tree may find.
Overlapping(res, s, e) == {r \in res : BytesOf(r) \cap Bytes(s, e) # {}}

\* Only neighbours of the same type are coalesced with.
Coalesces(r, type) == r.type = type

\* The reservations after [s, e] was coalesced with its neighbours on the left
\* and on the right (sets of at most one), and the bytes lost by that.
Coalesced(left, right, s, e, type) ==
    LET kept == lib.res \ (left \cup right)
        start == IF left = {} THEN s ELSE (CHOOSE r \in left : TRUE).start
        end == IF left = {} /\ right # {} THEN (CHOOSE r \in right : TRUE).end ELSE e
    IN  [lib EXCEPT
            !.res = kept \cup {[start |-> start, end |-> end, type |->
                                (CHOOSE r \in left \cup right : TRUE).type]},
            !.lost = (@ \ Bytes(s, e)) \cup
                     (IF left = {} THEN {} ELSE UNION {BytesOf(r) : r \in right})]

\* Whether the code looks at a neighbour that does not exist: the neighbour
\* found is the first or the last reservation and the other side is empty.
ReadsNull(s) ==
    LET left == {r \in lib.res : r.end < s}
    IN  left = {} \/ lib.res = left

\* memory_reserve.  A start of 0 wraps to the largest address, and nothing
\* touches that.
MemoryReserve(s, e, type) ==
    LET near == IF s = 0 THEN {} ELSE Overlapping(lib.res, s - 1, e + 1)
        right == {r \in near : r.start = e + 1 /\ Coalesces(r, type)}
        left == {r \in near : r.end + 1 = s /\ Coalesces(r, type)}
        all == [b \in Bytes(s, e) |-> type] @@ ref
    IN  /\ ~lib.grabbed
        /\ Overlapping(lib.res, s, e) = {}
        /\ \/ left \cup right # {} /\ Becomes(Coalesced(left, right, s, e, type), all)
           \/ left \cup right = {}
              /\ Becomes([lib EXCEPT !.res = @ \cup {[start |-> s, end |-> e, type |-> type]},
                                     !.lost = @ \ Bytes(s, e)], all)
           \/ near # {} /\ ReadsNull(s) /\ Becomes([lib EXCEPT !.stopped = TRUE], ref)

-----------------------------------------------------------------------------
\* memory_is_reserved: the first reservation that reaches beyond the start of
\* the region, going back from the one that the tree found.
FirstOverlap(res, s, found) ==
    LET before == {r \in res : r.start <= found.start /\ (r = found \/ r.end > s)}
    IN  CHOOSE r \in before : \A x \in before : r.start <= x.start

RECURSIVE AddFrom(_, _, _, _)
\* The loop of memory_add: the pages from s to e before the next reservation
\* are freed, and the search goes on behind it.  The set of the outcomes, as
\* the search of the tree may find one overlap or another; stuck when the
\* next round would be this one again.
AddFrom(res, pool, s, e) ==
    IF s >= e THEN {[pool |-> pool, stuck |-> FALSE]}
    ELSE IF Overlapping(res, s, e) = {}
    THEN {[pool |-> pool \cup {PageOf(b) : b \in Bytes(s, e)}, stuck |-> FALSE]}
    ELSE UNION {LET r == FirstOverlap(res, s, found)
                    from == PageOf(Max({r.start, s})) * PageSize
                    upto == Min({r.end, e})
                    more == pool \cup {PageOf(b) : b \in Bytes(s, from - 1)}
                    behind == ((upto + PageSize - 1) \div PageSize) * PageSize
                IN  IF behind = s THEN {[pool |-> more, stuck |-> TRUE]}
                    ELSE AddFrom(res, more, behind, e) :
                found \in Overlapping(res, s, e)}

\* memory_add, which drops the page at address 0.
memory_add(res, pool, s, e) == AddFrom(res, pool, IF s = 0 THEN PageSize ELSE s, e)

PageBytes(p) == [start |-> p * PageSize, end |-> p * PageSize + PageSize - 1]

\* What becomes of S by memory_add of the pages from that of s to that of e.
\* A kernel that is stuck does nothing any more.
Added(S, s, e) ==
    IF S.stopped THEN {S}
    ELSE {[S EXCEPT !.pool = o.pool, !.stopped = o.stuck] :
          o \in memory_add(S.res, S.pool, PageBytes(PageOf(s)).start, PageBytes(PageOf(e)).end)}

\* memory_grab: sigma0 hands out all pages, one after the other.
MemoryGrab ==
    LET grab(SS, p) == UNION {Added(S, p * PageSize, p * PageSize) : S \in SS}
        pages == [p \in 1..(PageOf(LastByte) + 1) |-> p - 1]
    IN  /\ ~lib.grabbed
        /\ \E S \in FoldLeft(grab, {[lib EXCEPT !.grabbed = TRUE]}, pages) : Becomes(S, ref)

\* Mutant: the pages of a cleared reservation are added without looking at
\* the other reservations.
ClearOne_Blind(S, r) ==
    {[S EXCEPT !.res = @ \ {r}, !.pool = @ \cup {PageOf(b) : b \in BytesOf(r)}]}

\* A reservation goes, and its pages are added but for what others reserve.
ClearOne(S, r) == Added([S EXCEPT !.res = @ \ {r}], r.start, r.end)

\* memory_reservation_clear, in the order of addresses.  When it does not come
\* to its end, what it has not cleared stays reserved.
MemoryReservationClear(type) ==
    LET these == SetToSortSeq({r \in lib.res : r.type = type}, LAMBDA a, b : a.start < b.start)
        clear(SS, r) == UNION {ClearOne(S, r) : S \in SS}
        others == [b \in {x \in DOMAIN ref : ref[x] # type} |-> ref[b]]
    IN  /\ lib.grabbed
        /\ \E S \in FoldLeft(clear, {lib}, these) :
              Becomes([S EXCEPT !.lost = @ \cap DOMAIN others], others)

ReserveNext ==
    /\ lib.kind = ReserveKind
    /\ ~lib.stopped
    /\ \/ \E s, e \in Bytes(0, LastByte), type \in Types : s < e /\ MemoryReserve(s, e, type)
       \/ MemoryGrab
       \/ \E type \in Types : MemoryReservationClear(type)

\* Whether memory_add may overlook the reservation of a byte: the first of a
\* page, where a reservation ends.
Overlooked(b) == b % PageSize = 0 /\ \E r \in lib.res : r.end = b

\* A byte that was reserved and not cleared is in one reservation, of its type,
\* unless memory_reserve has forgotten it when it filled a gap.  The allocator
\* never has a page with a reserved byte, but for the forgotten ones and for
\* one that ends its reservation and begins the page, so that a page shared by
\* two reservations waits for both to be cleared.  And while the kernel is not
\* stuck in memory_add, every page without a reserved byte gets to the
\* allocator, whatever was forgotten: all but page 0.
ReservationsHold ==
    lib.kind = ReserveKind =>
        /\ \A q, r \in lib.res : q # r => BytesOf(q) \cap BytesOf(r) = {}
        /\ \A r \in lib.res : ~lib.stopped =>
              \A b \in BytesOf(r) : b \in DOMAIN ref /\ ref[b] = r.type
        /\ \A b \in DOMAIN ref \ lib.lost : \E r \in lib.res : b \in BytesOf(r)
        /\ \A b \in DOMAIN ref : PageOf(b) \in lib.pool => b \in lib.lost \/ Overlooked(b)
        /\ lib.grabbed /\ ~lib.stopped =>
              \A p \in 1..PageOf(LastByte) :
                  (\A b \in DOMAIN ref : PageOf(b) # p) => p \in lib.pool
=============================================================================
