------------------------------ MODULE Shootdown ------------------------------
(***************************************************************************)
(* Cached translations: the kernel translates an address through the       *)
(* capabilities of an address space (hurd/cap.h, viengoos/cap.c) when a    *)
(* page fault asks for it, and hands the result to the hardware, where it  *)
(* stays.  Whoever changes a capability with cap_copy_x or RM_cap_rubout   *)
(* has to shoot down what was translated through it.                       *)
(*                                                                         *)
(* caps is the capability in each slot: the root of the address space and  *)
(* the slots of the cappages.  ref is what the hardware holds for every    *)
(* address, page and right to write, or Unmapped; hidden says whether the  *)
(* way to the page was one that cap_shootdown does not follow.  weakened   *)
(* are the slots whose capability was weakened where it was and not        *)
(* changed since.  An address has Width bits above the page; a guard is a  *)
(* number of gbits bits.                                                   *)
(***************************************************************************)
EXTENDS LibState

CONSTANTS
    CapTables,              \* the cappages
    DataPages,              \* the pages
    TableBits,              \* log2 of CAPPAGE_SLOTS
    Width,                  \* bits of an address above the page
    Halves,                 \* values of subpages_log2 asked for
    GuardSubpageBits,       \* CAP_ADDR_TRANS_GUARD_SUBPAGE_BITS
    MaxCopies,              \* bound: changes of capabilities
    Unmapped

ShootKind == "shootdown"
ShootRoot == <<"root", 0>>
TableSlots == CapTables \X (0..2^TableBits - 1)
AllSlots == {ShootRoot} \cup TableSlots
HwAddresses == 0..2^Width - 1

NoCap == [type |-> "void", obj |-> "none", guard |-> 0, gbits |-> 0, subpage |-> 0, halves |-> 0]
NewCap(obj) == [NoCap EXCEPT !.type = IF obj \in CapTables THEN "cappage" ELSE "page",
                             !.obj = obj]

ShootInit ==
    /\ lib = [kind |-> ShootKind, caps |-> [s \in AllSlots |-> NoCap], weakened |-> {},
              copies |-> 0]
    /\ ref = [a \in HwAddresses |-> Unmapped]

IsTable(cap) == cap.type \in {"cappage", "rcappage"}
IsPage(cap) == cap.type \in {"page", "rpage"}
WeakenType(t) == CASE t \in {"page", "rpage"} -> "rpage"
                   [] t \in {"cappage", "rcappage"} -> "rcappage"
                   [] OTHER -> "void"

\* CAP_SUBPAGE_SIZE_LOG2, CAP_SUBPAGE_SIZE, CAP_SUBPAGE_OFFSET.
SizeBits(cap) == TableBits - cap.halves
SubpageSlots(cap) == 0..2^SizeBits(cap) - 1
SubpageOffset(cap) == cap.subpage * 2^SizeBits(cap)

\* as_object_lookup_rel of the low n bits of a from the capability in slot, and
\* whether all of the way is writable.  via are the slots on the way, each with
\* the bits left there.  The void result has no page; so has a lookup that comes
\* back to a slot without having used up a bit, which does not end.
RECURSIVE Translate(_, _, _, _, _)
Translate(slot, a, n, w, via) ==
    LET cap == lib.caps[slot]
        left == n - cap.gbits
        rest == a % 2^left
        deeper == left - SizeBits(cap)
        index == SubpageOffset(cap) + rest \div 2^deeper
        way == via \cup {<<slot, n>>}
        void == [page |-> "none", w |-> FALSE, via |-> {}]
    IN  IF cap.type = "void" \/ left < 0 \/ <<slot, n>> \in via THEN void
        ELSE IF a \div 2^left # cap.guard THEN void
        ELSE IF IsPage(cap)
             THEN IF left = 0
                  THEN [page |-> cap.obj, w |-> w /\ cap.type = "page", via |-> way]
                  ELSE void
        ELSE IF left = 0 \/ left < SizeBits(cap) THEN void
        ELSE Translate(<<cap.obj, index>>, rest % 2^deeper, deeper, w /\ cap.type = "cappage", way)

TranslationOf(a) == Translate(ShootRoot, a, Width, TRUE, {})

\* Whether the way leads through a subpage that does not begin its cappage, or
\* through a cappage twice.
Hidden(found) ==
    \/ \E v \in found.via : SubpageOffset(lib.caps[v[1]]) # 0
    \/ \E u, v \in found.via : u # v /\ u[1][1] = v[1][1]

-----------------------------------------------------------------------------
\* cap_shootdown: the pages below cap, all of whose mappings are removed.  Of
\* a cappage the first slots are visited, as many as its subpage has.
RECURSIVE ShotPages(_, _, _)
ShotPages(root, cap, n) ==
    LET left == n - cap.gbits
        slots == {lib.caps[<<cap.obj, i>>] : i \in SubpageSlots(cap)}
    IN  CASE IsPage(cap) -> IF left < 0 THEN {} ELSE {cap.obj}
          [] IsTable(cap) ->
               IF left < SizeBits(cap) THEN {}
               ELSE UNION {ShotPages(root, c, left - SizeBits(cap)) :
                             c \in {d \in slots : d.obj # root.obj}}
          [] OTHER -> {}

Shot(cap) ==
    LET pages == ShotPages(cap, cap, Width)
    IN  [a \in HwAddresses |->
           IF ref[a] # Unmapped /\ ref[a].page \in pages THEN Unmapped ELSE ref[a]]

\* Mutant: a new guard is not taken for a change.
ChangesTranslation_NotGuard(target, source, new, weaken) ==
    \/ target.obj # source.obj
    \/ <<new.subpage, new.halves>> # <<target.subpage, target.halves>>
    \/ target.type # source.type /\ ~(weaken /\ WeakenType(source.type) = target.type)

\* The conditions of cap_copy_x under which translations are shot down.
ChangesTranslation(target, source, new, weaken) ==
    \/ target.obj # source.obj
    \/ <<new.subpage, new.halves>> # <<target.subpage, target.halves>>
    \/ <<new.guard, new.gbits>> # <<target.guard, target.gbits>>
    \/ target.type # source.type /\ ~(weaken /\ WeakenType(source.type) = target.type)

\* A subpage descriptor must narrow that of the source, which is a cappage.
Narrows(source, subpage, halves) ==
    /\ halves # 0 => IsTable(source)
    /\ halves >= source.halves
    /\ subpage \div 2^(halves - source.halves) = source.subpage

\* CAP_ADDR_TRANS_SET_GUARD_SUBPAGE: whether guard and subpage fit.
SignificantBits(guard) == Min({n \in 0..Width : guard < 2^n})
Fits(new) ==
    /\ SignificantBits(new.guard) <= new.gbits
    /\ SignificantBits(new.guard) + new.halves <= GuardSubpageBits

\* The capability that target becomes.
Copied(source, new, weaken) ==
    [source EXCEPT !.type = IF weaken THEN WeakenType(@) ELSE @,
                   !.guard = new.guard, !.gbits = new.gbits,
                   !.subpage = new.subpage, !.halves = new.halves]

\* cap_copy_x in the kernel, for RM_cap_copy and RM_object_slot_copy_in.  A
\* subpage that does not narrow is refused; guard and subpage that do not fit
\* are refused only when the translations have been shot down.
CapCopyX(slot, source, new, weaken) ==
    LET target == lib.caps[slot]
        changes == ChangesTranslation(target, source, new, weaken)
        shot == IF changes THEN Shot(target) ELSE ref
        result == Copied(source, new, weaken)
        weakens == ~changes /\ (result.type # target.type \/ slot \in lib.weakened)
    IN  /\ lib.copies < MaxCopies
        /\ Narrows(source, new.subpage, new.halves)
        /\ \/ Fits(new)
              /\ Becomes([lib EXCEPT !.caps[slot] = result, !.copies = @ + 1,
                                     !.weakened = IF weakens THEN @ \cup {slot} ELSE @ \ {slot}],
                         shot)
           \/ ~Fits(new) /\ Becomes([lib EXCEPT !.copies = @ + 1], shot)

\* The guards that the flags can ask for: with CAP_COPY_COPY_ADDR_TRANS_GUARD
\* that of the properties, with CAP_COPY_COPY_SOURCE_GUARD that of the source,
\* with neither that of the target.
AskedGuards(target, source) ==
    UNION {{[guard |-> g, gbits |-> b] : g \in 0..2^b - 1} : b \in 0..Width}
      \cup {[guard |-> c.guard, gbits |-> c.gbits] : c \in {target, source}}

\* And the subpages: with CAP_COPY_COPY_ADDR_TRANS_SUBPAGE that of the
\* properties, or else that of the source.
AskedSubpages(source) ==
    UNION {{[subpage |-> i, halves |-> h] : i \in 0..2^h - 1} : h \in Halves}
      \cup {[subpage |-> source.subpage, halves |-> source.halves]}

CapCopy(slot, source, weaken) ==
    \E g \in AskedGuards(lib.caps[slot], source), p \in AskedSubpages(source) :
        CapCopyX(slot, source, g @@ p, weaken)

\* RM_cap_rubout.
Rubout(slot) ==
    /\ lib.copies < MaxCopies
    /\ Becomes([lib EXCEPT !.caps[slot] = NoCap, !.weakened = @ \ {slot}, !.copies = @ + 1],
               Shot(lib.caps[slot]))

\* What the hardware has for a allows the access.
HwAllows(a, w) == IF ref[a] = Unmapped THEN FALSE ELSE w => ref[a].w

\* The server handles a page fault: the page is mapped with the right asked
\* for, if the translation has it.
PageFault(a, w) ==
    LET found == TranslationOf(a)
    IN  /\ ~HwAllows(a, w)
        /\ found.page # "none"
        /\ w => found.w
        /\ Becomes(lib, [ref EXCEPT ![a] = [page |-> found.page, w |-> w, hidden |-> Hidden(found)]])

\* The sources of copies: a new capability to an object, or one in a slot.
Sources == {NewCap(o) : o \in CapTables \cup DataPages}
             \cup {lib.caps[s] : s \in {u \in AllSlots : lib.caps[u].type # "void"}}

ShootNext ==
    /\ lib.kind = ShootKind
    /\ \/ \E slot \in AllSlots :
            \/ \E source \in Sources, weaken \in BOOLEAN : CapCopy(slot, source, weaken)
            \/ Rubout(slot)
       \/ \E a \in HwAddresses, w \in BOOLEAN : PageFault(a, w)

ShootSpec == ShootInit /\ [][ShootNext]_vars

-----------------------------------------------------------------------------
\* What the hardware has is what a translation now would give: the same page,
\* and a right to write only if the capabilities still give it (cap.h: "we
\* need to shoot down all cached translations").  The code does not keep this.
TranslationsFresh ==
    lib.kind = ShootKind =>
        \A a \in HwAddresses : ref[a] # Unmapped =>
            /\ TranslationOf(a).page = ref[a].page
            /\ ref[a].w => TranslationOf(a).w

\* A translation that the hardware keeps leads to the page that the address
\* means now, however capabilities on the way to it were changed, rubbed out
\* or failed to be changed, unless cap_shootdown does not follow the way it was
\* made: it visits the first slots of a cappage for every subpage, and none that
\* leads back to the cappage.  And it lets write what the capabilities do not
\* let write any more only if one on the way was weakened where it was, which
\* cap_copy_x takes for no change.
PlainTranslationsFresh ==
    lib.kind = ShootKind =>
        \A a \in {h \in HwAddresses : ref[h] # Unmapped} : ~ref[a].hidden =>
            LET now == TranslationOf(a)
            IN  /\ now.page = ref[a].page
                /\ ref[a].w /\ ~now.w => \E v \in now.via : v[1] \in lib.weakened
=============================================================================
