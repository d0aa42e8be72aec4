------------------------------- MODULE Zalloc --------------------------------
(***************************************************************************)
(* The kernel's page allocator (viengoos/zalloc.c): a buddy system.  Sizes *)
(* and addresses are in pages.  A zone's list is ordered by address, so it *)
(* is the set of the addresses of its blocks, its head their minimum.      *)
(* ref is the set of free pages.                                           *)
(***************************************************************************)
EXTENDS LibState

CONSTANTS
    LastPage,   \* memory is the pages 1..LastPage; page 0 is never used
    Zones       \* ZONES

ASSUME ZonesAssumption == 2 ^ Zones > LastPage

ZallocKind == "zalloc"
Memory == 1..LastPage
ZONE_SIZE(z) == 2 ^ z
Block(b, size) == b..(b + size - 1)

\* failed is the size of the request that found no zone, or 0.
ZallocInit ==
    /\ lib = [kind |-> ZallocKind, zone |-> [z \in 0..(Zones - 1) |-> {}],
              memory |-> 0, failed |-> 0]
    /\ ref = {}

\* The buddy of a block, whose address differs in the bit of the zone's size.
Buddy(b, z) == IF (b \div ZONE_SIZE(z)) % 2 = 0 THEN b + ZONE_SIZE(z) ELSE b - ZONE_SIZE(z)

RECURSIVE add_block(_, _, _)
\* add_block: a neighbour in the list that is the buddy is taken off, and the
\* two go to the next zone.
add_block(zone, b, z) ==
    LET left == {x \in zone[z] : x < b}
        right == {x \in zone[z] : x >= b}
        near == (IF left = {} THEN {} ELSE {Max(left)}) \cup (IF right = {} THEN {} ELSE {Min(right)})
        mate == Buddy(b, z)
    IN  IF mate \in near
        THEN add_block([zone EXCEPT ![z] = @ \ {mate}], Min({mate, b}), z + 1)
        ELSE [zone EXCEPT ![z] = @ \cup {b}]

\* The logarithm, rounded down, and the number of trailing zero bits.
Log(n) == CHOOSE k \in 0..n : 2 ^ k <= n /\ n < 2 ^ (k + 1)
Alignment(n) == Max({k \in 0..n : n % (2 ^ k) = 0})

\* Mutant: the alignment of a freed block is not looked at.
ZoneFor_Unaligned(b, size) == Log(size)

\* The zone of the first part of a freed block: as large as its alignment and
\* the size allow.
ZoneFor(b, size) == Min({Alignment(b), Log(size)})

RECURSIVE FreeParts(_, _, _)
\* The loop of zfree.
FreeParts(zone, b, size) ==
    IF size = 0 THEN zone
    ELSE LET z == ZoneFor(b, size)
         IN  FreeParts(add_block(zone, b, z), b + ZONE_SIZE(z), size - ZONE_SIZE(z))

zfree(Z, b, size) ==
    [Z EXCEPT !.zone = FreeParts(@, b, size), !.memory = @ + size]

\* The zone in which a request starts to look: its size rounded up.
ZoneOf(size) == Min({z \in 0..Zones : ZONE_SIZE(z) >= size})

\* zalloc with a zone found: the head of the smallest that has a block, whose
\* rest is given back.
Zalloc(size) ==
    LET fit == {z \in ZoneOf(size)..(Zones - 1) : lib.zone[z] # {}}
        z == Min(fit)
        b == Min(lib.zone[z])
        cut == [lib EXCEPT !.zone[z] = @ \ {b}, !.memory = @ - ZONE_SIZE(z)]
    IN  /\ fit # {}
        /\ Becomes(IF ZONE_SIZE(z) > size
                   THEN zfree(cut, b + size, ZONE_SIZE(z) - size) ELSE cut,
                   ref \ Block(b, size))

\* zalloc without: 0 is returned when no memory is left; otherwise the
\* assertion that none is left stops the kernel.
ZallocFails(size) ==
    /\ \A z \in ZoneOf(size)..(Zones - 1) : lib.zone[z] = {}
    /\ lib.memory > 0
    /\ Becomes([lib EXCEPT !.failed = size], ref)

\* zfree of pages in use, or of pages the system never had.
Zfree(b, size) ==
    /\ Block(b, size) \subseteq Memory \ ref
    /\ Becomes(zfree(lib, b, size), ref \cup Block(b, size))

ZallocNext ==
    /\ lib.kind = ZallocKind
    /\ lib.failed = 0
    /\ \E size \in Memory :
          \/ Zalloc(size)
          \/ ZallocFails(size)
          \/ \E b \in Memory : Zfree(b, size)

\* No page is handed out twice or lost: the blocks of the zones are apart,
\* aligned, and together exactly the free pages, as many as zalloc_memory
\* says; no two buddies are left apart, so a request fails only if no aligned
\* block of its size, rounded up, is free.
ZonesAgree ==
    lib.kind = ZallocKind =>
        LET blocks == UNION {{<<b, z>> : b \in lib.zone[z]} : z \in DOMAIN lib.zone} IN
        /\ UNION {Block(x[1], ZONE_SIZE(x[2])) : x \in blocks} = ref
        /\ lib.memory = Cardinality(ref)
        /\ \A x, y \in blocks :
              x # y => Block(x[1], ZONE_SIZE(x[2])) \cap Block(y[1], ZONE_SIZE(y[2])) = {}
        /\ \A x \in blocks : x[1] % ZONE_SIZE(x[2]) = 0 /\ <<Buddy(x[1], x[2]), x[2]>> \notin blocks
        /\ lib.failed > 0 =>
              \A b \in ref : b % ZONE_SIZE(ZoneOf(lib.failed)) = 0 =>
                  ~(Block(b, ZONE_SIZE(ZoneOf(lib.failed))) \subseteq ref)
=============================================================================
