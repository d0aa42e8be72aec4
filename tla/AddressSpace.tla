----------------------------- MODULE AddressSpace ----------------------------
(***************************************************************************)
(* The page tables of capabilities: translation (as_lookup_rel of          *)
(* libhurd-mm/as-lookup.c, which the kernel uses too) and construction     *)
(* (as_build of as-build.c with as_compute_gbits_cappage).  An address is  *)
(* the sequence of its bits, the first being the most significant; its     *)
(* length is the depth.  A capability slot has a guard, bits that are      *)
(* skipped before the object it designates is reached.  A table has        *)
(* 2^width slots.  A table is named by the bits translated before it, a    *)
(* slot by the table and the bits that index it.  Subpages start at 0, as  *)
(* as_build makes them.                                                    *)
(*                                                                         *)
(* ref is the function from the addresses where objects were inserted to   *)
(* the objects.  Users insert objects into areas that do not overlap,      *)
(* which the allocator of addresses (FreeSpace) gives them.  Read-only     *)
(* tables are left out.                                                    *)
(***************************************************************************)
EXTENDS LibState, Integers

CONSTANTS
    AddrBits,       \* ADDR_BITS
    PageBits,       \* PAGESIZE_LOG2
    FolioBits,      \* FOLIO_OBJECTS_LOG2
    CappageBits,    \* CAPPAGE_SLOTS_LOG2
    GuardMax,       \* CAP_ADDR_TRANS_GUARD_SUBPAGE_BITS
    MaxInserts,     \* bound: the calls that insert an object
    Depths          \* the depths at which objects are inserted

AsKind == "as"
Bits(n) == [1..n -> {0, 1}]
RootSlot == <<<<>>, <<>>>>
VoidCap == [type |-> "void", guard |-> <<>>, table |-> <<>>, width |-> 0]
Drop(s, n) == SubSeq(s, n + 1, Len(s))
Take(s, n) == SubSeq(s, 1, n)

\* inserts counts the calls; stopped: an assertion failed.
AsInit ==
    /\ lib = [kind |-> AsKind, cap |-> (RootSlot :> VoidCap), inserts |-> 0, stopped |-> FALSE]
    /\ ref = <<>>

\* The bits of a guard from its first 1 on, which have to be stored.
Significant(bits) ==
    LET ones == {i \in DOMAIN bits : bits[i] = 1}
    IN  IF ones = {} THEN 0 ELSE Len(bits) - Min(ones) + 1

\* The guard is the beginning of what is left of the address.
GuardMatches(guard, rest) == IsPrefix(guard, rest)

\* The bits that an object translates.
WidthOf(cap) == IF cap.type = "folio" THEN FolioBits ELSE cap.width
Translates(cap) == cap.type \in {"cappage", "folio"}

NotFound == <<>>
IndexSlot(cap, bits) == <<cap.table, bits>>

RECURSIVE Walk(_, _, _, _)
\* as_lookup_rel from a slot, with the bits that are left and the mode: the
\* slot, or NotFound.
Walk(cap, slot, rest, mode) ==
    LET c == cap[slot]
        left == Drop(rest, Len(c.guard))
        next == IndexSlot(c, Take(left, WidthOf(c)))
        later == Drop(left, WidthOf(c))
    IN  IF ~GuardMatches(c.guard, rest) THEN NotFound
        ELSE IF left = <<>> THEN slot
        ELSE IF ~Translates(c) \/ Len(left) < WidthOf(c) THEN NotFound
        ELSE IF later # <<>> THEN Walk(cap, next, later, mode)
        ELSE IF mode = "object" /\ cap[next].guard # <<>> THEN NotFound
        ELSE next

LookupRel(cap, addr, mode) ==
    IF addr = <<>> THEN RootSlot ELSE Walk(cap, RootSlot, addr, mode)

-----------------------------------------------------------------------------
\* as_compute_gbits_cappage: the guard, at most gbits long, and the width of a
\* table to put before an object til bits away, with bits left untranslated.
ComputeGbits(untranslated, til, gbits) ==
    LET fp == FolioBits + PageBits
        over == untranslated - gbits - fp
        remove == CappageBits - (over % CappageBits)
        g == IF untranslated <= PageBits THEN gbits
             ELSE IF untranslated - gbits <= PageBits THEN untranslated - PageBits
             ELSE IF over <= 0 THEN untranslated - fp
             ELSE IF remove < gbits THEN gbits - remove ELSE 0
        w == IF untranslated - g = fp THEN FolioBits ELSE CappageBits
    IN  [gbits |-> g, width |-> IF g + w > til THEN til - g ELSE w]

CommonPrefix(a, b) ==
    Max({n \in 0..Min({Len(a), Len(b)}) : Take(a, n) = Take(b, n)})

\* The table to put in the way of the capability c for an address of which
\* rest is left, depth being that of the whole address: the common part of
\* guard and address, shortened so that it fits.
TableFor(c, rest, depth) ==
    LET common == CommonPrefix(c.guard, rest)
        excess == Significant(Take(rest, common)) - GuardMax
        gbits == IF excess > 0 THEN common - excess ELSE common
    IN  ComputeGbits(Len(rest) + AddrBits - depth, Len(c.guard), gbits)

\* Whether the guard of a table of this width can be stored.
GuardFits(guard, width) == Significant(guard) + CappageBits - width <= GuardMax

\* Mutant: the object that was in the way keeps its whole guard.
PivotGuard_Whole(guard, n) == guard

\* What is left of the guard of the object that is moved into the new table.
PivotGuard(guard, n) == Drop(guard, n)

\* The new table is entered: the slot gets its capability, and the object
\* that was in the way moves into it.
Indirect(T, slot, g) ==
    LET c == T.cap[slot]
        t == slot[1] \o slot[2] \o Take(c.guard, g.gbits)
        table == [s \in {<<t, i>> : i \in Bits(g.width)} |-> VoidCap]
        pivot == <<t, SubSeq(c.guard, g.gbits + 1, g.gbits + g.width)>>
        entry == [type |-> "cappage", guard |-> Take(c.guard, g.gbits),
                  table |-> t, width |-> g.width]
    IN  [T EXCEPT !.cap = (slot :> entry)
                          @@ (pivot :> [c EXCEPT !.guard = PivotGuard(@, g.gbits + g.width)])
                          @@ table @@ @]

RECURSIVE Build(_, _, _, _)
\* as_build from a slot: the address space with a slot for what is left of the
\* address, and that slot with its guard; or a stop.
Build(T, slot, rest, depth) ==
    LET c == T.cap[slot]
        g == TableFor(c, rest, depth)
        T1 == Indirect(T, slot, g)
        Index(U, bits) ==
            LET d == U.cap[slot]
                next == IndexSlot(d, Take(bits, WidthOf(d)))
            IN  IF Len(bits) < WidthOf(d) \/ d.type = "folio" THEN [U EXCEPT !.stopped = TRUE]
                ELSE IF Len(bits) = WidthOf(d) THEN [U EXCEPT !.cap[next].guard = <<>>]
                ELSE Build(U, next, Drop(bits, WidthOf(d)), depth)
    IN  IF c.guard = rest THEN T
        ELSE IF Translates(c) /\ IsPrefix(c.guard, rest)
        THEN Index(T, Drop(rest, Len(c.guard)))
        ELSE IF c.type = "void" /\ c.guard = <<>>
        THEN IF Significant(rest) <= GuardMax
             THEN [T EXCEPT !.cap[slot].guard = rest]
             \* bits are extracted from beyond the empty guard: an assertion
             ELSE [T EXCEPT !.stopped = TRUE]
        ELSE IF c.guard = <<>> \/ g.width <= 0 \/ ~GuardFits(Take(c.guard, g.gbits), g.width)
        THEN [T EXCEPT !.stopped = TRUE]
        ELSE Index(T1, Drop(rest, g.gbits))

\* as_ensure_full and as_insert_full: the slot is made and gets an object.
\* cap_copy keeps the guard of the slot.
AsInsert(addr, type) ==
    LET T == Build([lib EXCEPT !.inserts = @ + 1], RootSlot, addr, Len(addr))
        slot == LookupRel(T.cap, addr, "slot")
        objects == [s \in {<<addr, i>> : i \in Bits(FolioBits)} |-> [VoidCap EXCEPT !.type = "page"]]
        new == [type |-> type, guard |-> T.cap[slot].guard, table |-> addr, width |-> 0]
    IN  /\ lib.inserts < MaxInserts
        /\ \A a \in DOMAIN ref : ~IsPrefix(a, addr) /\ ~IsPrefix(addr, a)
        /\ \/ T.stopped /\ Becomes([lib EXCEPT !.stopped = TRUE], ref)
           \/ ~T.stopped /\ type = "folio"
              /\ Becomes([T EXCEPT !.cap = (slot :> new) @@ objects @@ @],
                         (addr :> type) @@ ref)
           \/ ~T.stopped /\ type = "page"
              /\ Becomes([T EXCEPT !.cap[slot] = [new EXCEPT !.table = <<>>]], (addr :> type) @@ ref)

\* An object is taken out again: its slot becomes void and keeps its guard.
AsRemove(addr) ==
    LET slot == LookupRel(lib.cap, addr, "slot")
        void == [VoidCap EXCEPT !.guard = lib.cap[slot].guard]
    IN  Becomes([lib EXCEPT !.cap = [s \in {t \in DOMAIN @ : t[1] # addr} |->
                                        IF s = slot THEN void ELSE @[s]]],
                [a \in DOMAIN ref \ {addr} |-> ref[a]])

AsNext ==
    /\ lib.kind = AsKind
    /\ ~lib.stopped
    /\ \/ \E d \in Depths : \E addr \in Bits(d) :
             AsInsert(addr, IF d = AddrBits - PageBits - FolioBits THEN "folio" ELSE "page")
       \/ \E addr \in DOMAIN ref : AsRemove(addr)

-----------------------------------------------------------------------------
\* Every object inserted is found at its address, as an object, with its type,
\* whatever was inserted or removed before and after, however the tables were
\* rearranged; the objects of a folio are found under it; and nothing else
\* that is not void is found at the depth of an object.
TranslationKept ==
    lib.kind = AsKind /\ ~lib.stopped =>
        /\ \A addr \in DOMAIN ref :
              LET slot == LookupRel(lib.cap, addr, "object") IN
              slot # NotFound /\ lib.cap[slot].type = ref[addr]
        /\ \A addr \in DOMAIN ref : ref[addr] = "folio" =>
              \A i \in Bits(FolioBits) : LookupRel(lib.cap, addr \o i, "object") # NotFound
        /\ \A addr \in UNION {Bits(d) : d \in Depths} :
              LET slot == LookupRel(lib.cap, addr, "object") IN
              slot # NotFound =>
                  \/ lib.cap[slot].type \in {"void", "cappage"}
                  \/ \E a \in DOMAIN ref : IsPrefix(a, addr)
=============================================================================
