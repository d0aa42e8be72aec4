------------------------------ MODULE FreeSpace ------------------------------
(***************************************************************************)
(* The allocator of virtual addresses of libhurd-mm (as.c): a tree of free *)
(* regions, ends included, that never overlap and never touch.  Addresses  *)
(* are 0..TopAddress.  Calls hold free_spaces_lock.  ref is the set of     *)
(* free addresses.                                                         *)
(***************************************************************************)
EXTENDS LibState

CONSTANTS
    TopAddress,     \* the largest address
    DataTop,        \* DATA_ADDR_MAX: data is mapped below it
    SpaceWidths,    \* the widths asked for
    SpaceCounts,    \* how many objects of a width are asked for
    SmallWidth,     \* 4 in the code: what is not data is at least as wide
    PageWidth,      \* PAGESIZE_LOG2
    SlotsWidth      \* CAPPAGE_SLOTS_LOG2

ASSUME SpaceAssumption ==
    /\ TopAddress \in Nat /\ SpaceWidths \subseteq Nat /\ SpaceCounts \subseteq Nat \ {0}
    /\ SmallWidth \in Nat /\ PageWidth \in Nat /\ SlotsWidth \in Nat \ {0}

SpaceKind == "space"
Region(s, e) == [start |-> s, end |-> e]
Addresses(r) == r.start..r.end

\* as_init: everything is freed, then what is in use is allocated.
SpaceInit ==
    /\ lib = [kind |-> SpaceKind, free |-> {Region(0, TopAddress)}]
    /\ ref = 0..TopAddress

\* free_space_split: [s, e] is carved out of a region.
free_space_split(free, f, s, e) ==
    (free \ {f}) \cup {r \in {Region(f.start, s - 1), Region(e + 1, f.end)} : r.start <= r.end}

\* The start of an aligned object in a region.
AlignUp(s, align) == ((s + align - 1) \div align) * align

\* What is not data is widened to ease the construction of page tables.  Past
\* a page a width that fits a table already is widened as well.
Widened(w, data) ==
    IF data THEN w
    ELSE IF w <= SmallWidth THEN SmallWidth
    ELSE IF w <= PageWidth THEN PageWidth
    ELSE w + (SlotsWidth - ((w - PageWidth) % SlotsWidth))

\* as_alloc of count objects of a width, the placement of data.  The factors
\* of two in the count only raise the alignment.  The first region that fits
\* is taken; if it is too high for data, the search ends.
AsAlloc(width, count, data) ==
    LET shift == Max({k \in 0..count : count % (2 ^ k) = 0})
        align == 2 ^ Widened(width + shift, data)
        length == align * (count \div 2 ^ shift)
        fits == {f \in lib.free : /\ AlignUp(f.start, align) < f.end
                                  /\ length <= f.end - AlignUp(f.start, align) + 1}
        f == CHOOSE x \in fits : \A y \in fits : x.start <= y.start
        s == AlignUp(f.start, align)
    IN  /\ fits # {}
        /\ data => s + length - 1 < DataTop
        /\ Becomes([lib EXCEPT !.free = free_space_split(@, f, s, s + length - 1)],
                   ref \ (s..(s + length - 1)))

\* as_alloc_at: the region found must cover all of what is asked for.
AsAllocAt(s, e) ==
    \E f \in lib.free :
        /\ f.start <= s /\ e <= f.end
        /\ Becomes([lib EXCEPT !.free = free_space_split(@, f, s, e)], ref \ (s..e))

\* Mutant: a region that fills a hole is joined with only one neighbour.
Joined_One(prev, next) == IF prev # {} THEN prev ELSE next

\* The neighbours with which a freed region is joined.
Joined(prev, next) == prev \cup next

\* as_free: what is freed is inserted, or joined with the regions it touches.
AsFree(s, e) ==
    LET prev == {f \in lib.free : f.end + 1 = s}
        next == {f \in lib.free : e + 1 = f.start}
        with == Joined(prev, next)
        all == {Region(s, e)} \cup with
    IN  /\ (s..e) \cap ref = {}
        /\ Becomes([lib EXCEPT !.free = (@ \ with) \cup
                        {Region(Min({r.start : r \in all}), Max({r.end : r \in all}))}],
                   ref \cup (s..e))

SpaceNext ==
    /\ lib.kind = SpaceKind
    /\ \/ \E width \in SpaceWidths, count \in SpaceCounts, data \in BOOLEAN :
             AsAlloc(width, count, data)
       \/ \E s, e \in 0..TopAddress : s <= e /\ (AsAllocAt(s, e) \/ AsFree(s, e))

\* No address is given out twice or lost, and the free regions are maximal:
\* they are apart with something in use between them, so that whatever fits
\* into the free addresses fits into one region.
SpaceAgrees ==
    lib.kind = SpaceKind =>
        /\ UNION {Addresses(f) : f \in lib.free} = ref
        /\ \A f \in lib.free : f.start <= f.end /\ f.end + 1 \notin ref
        /\ \A f, g \in lib.free : f # g => Addresses(f) \cap Addresses(g) = {}
=============================================================================
