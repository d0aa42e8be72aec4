------------------------------ MODULE BitArray -------------------------------
(***************************************************************************)
(* The bit arrays of libbitarray (bit-array.h), from which capability      *)
(* slots and pages are allocated.  The array is ArrayBytes bytes of        *)
(* ByteBits bits each (eight in the code); lib.bits is the set of bits     *)
(* set.  ref is the set of bits allocated.                                 *)
(***************************************************************************)
EXTENDS LibState, Integers

CONSTANTS ArrayBytes, ByteBits

ASSUME BitsAssumption == ArrayBytes \in Nat \ {0} /\ ByteBits \in Nat \ {0}

BitKind == "bits"
AllBits == 0..(ArrayBytes * ByteBits - 1)

BitInit == lib = [kind |-> BitKind, bits |-> {}] /\ ref = {}

BitsOfByte(byte) == (byte * ByteBits)..(byte * ByteBits + ByteBits - 1)

\* check_byte: the lowest bit of the byte that is in neither set, or -1.
check_byte(bits, byte, masked) ==
    LET free == BitsOfByte(byte) \ (bits \cup masked)
    IN  IF free = {} THEN -1 ELSE Min(free)

\* The last look, at the part of the first byte below the start.
Wrapped(bits, byte, start) ==
    IF start % ByteBits # 0 THEN check_byte(bits, byte, {b \in AllBits : b >= start}) ELSE -1

\* bit_alloc: the first byte with the bits below the start masked, the
\* others, and the first byte again.  The bit allocated, or -1.
bit_alloc(bits, start) ==
    LET first == start \div ByteBits
        found == [i \in 1..ArrayBytes |->
                    check_byte(bits, (first + i - 1) % ArrayBytes,
                               IF i = 1 THEN {b \in AllBits : b < start} ELSE {})]
        hits == {i \in 1..ArrayBytes : found[i] # -1}
    IN  IF hits # {} THEN found[Min(hits)] ELSE Wrapped(bits, first, start)

BitNext ==
    /\ lib.kind = BitKind
    /\ \E b \in AllBits :
          \* bit_alloc
          \/ LET a == bit_alloc(lib.bits, b)
             IN  a # -1 /\ Becomes([lib EXCEPT !.bits = @ \cup {a}], ref \cup {a})
          \* bit_set and bit_set_to
          \/ b \notin lib.bits /\ Becomes([lib EXCEPT !.bits = @ \cup {b}], ref \cup {b})
          \* bit_dealloc
          \/ b \in lib.bits /\ Becomes([lib EXCEPT !.bits = @ \ {b}], ref \ {b})

\* From every start an allocation finds the first free bit at or after it,
\* or else the first free one, and fails only if all are allocated.
BitsAgree ==
    lib.kind = BitKind =>
        /\ lib.bits = ref
        /\ \A start \in AllBits :
              LET free == AllBits \ ref
                  later == {b \in free : b >= start}
              IN  bit_alloc(lib.bits, start) =
                    IF later # {} THEN Min(later) ELSE IF free # {} THEN Min(free) ELSE -1
=============================================================================
