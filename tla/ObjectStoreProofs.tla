--------------------------- MODULE ObjectStoreProofs ---------------------------
(***************************************************************************)
(* Theorems about storage, for any number of folios, objects, slots and    *)
(* activities.  Object versioning: as long as no version overflows,        *)
(* nothing that was freed is referenced, a revoked capability stays        *)
(* revoked and a valid one is of its object's type.  All follow from one   *)
(* fact: no capability is ahead of its object, the capabilities of what is *)
(* void are behind, and the others are of their objects' types.  The tree  *)
(* of activities: its lists and counts, whatever is destroyed recursively. *)
(***************************************************************************)
EXTENDS ObjectStore, FiniteSetTheorems, SequenceTheorems, WellFoundedInduction, TLAPS

Versions ==
    /\ version \in [Oids -> Nat]
    /\ \A o \in Oids : version[o] <= MaxVersion

CapsTyped ==
    /\ DOMAIN type = Oids
    /\ cap \in [Slots -> [oid : Oids, version : Nat, type : CapTypes]]

\* The capability c, if it is not void, is not ahead of its object.
Behind(c, v, t) ==
    c.type # "void" => /\ c.version <= v[c.oid]
                       /\ t[c.oid] = "void" => c.version < v[c.oid]

CapsBehind == \A s \in Slots : Behind(cap[s], version, type)

\* The capability c, if it is up to date, is of its object's type.
Fits(c, v, t) ==
    c.type # "void" /\ c.version = v[c.oid] => Compatible(c.type, t[c.oid])

CapsFit == \A s \in Slots : Fits(cap[s], version, type)

Inv == Versions /\ CapsTyped /\ CapsBehind /\ CapsFit

-----------------------------------------------------------------------------
LEMMA OidsFacts ==
    /\ Objects \subseteq Oids
    /\ \A f \in Folios : FolioOid(f) \in Oids
    /\ Root \in Oids
BY StoreAssumption DEF Oids, Objects, Root

LEMMA DoomedHas == ASSUME NEW S, NEW o \in S, o \in Objects PROVE o \in Doomed(S)
BY DEF Doomed

\* Freeing bumps the version of what becomes void, and of nothing else.
LEMMA FreeBumps ==
    ASSUME MaxVersion < VersionLimit, Versions, NEW p, NEW gone, NEW freed,
           MayFree(p, gone, freed), version' = VersionAfter(gone, freed)
    PROVE  /\ version' \in [Oids -> Nat]
           /\ \A o \in Oids : /\ version'[o] <= MaxVersion
                              /\ version[o] <= version'[o]
                              /\ o \in Existing(gone, freed) => version[o] < version'[o]
<1>1. ASSUME NEW o \in Oids, o \in Existing(gone, freed)
      PROVE  Bump(version[o]) = version[o] + 1 /\ version[o] < MaxVersion
  <2>1. version[o] \in Nat /\ version[o] < MaxVersion
    BY <1>1 DEF Versions, MayFree
  <2>2. version[o] + 1 < VersionLimit
    BY <2>1, StoreAssumption
  <2>. QED
    BY <2>1, <2>2, StoreAssumption DEF Bump
<1>2. ASSUME NEW o \in Oids
      PROVE  /\ version'[o] \in Nat
             /\ version'[o] <= MaxVersion
             /\ version[o] <= version'[o]
             /\ o \in Existing(gone, freed) => version[o] < version'[o]
  <2>1. version'[o] = IF o \in Existing(gone, freed) THEN Bump(version[o]) ELSE version[o]
    BY DEF VersionAfter
  <2>2. version[o] \in Nat /\ version[o] <= MaxVersion /\ MaxVersion \in Nat
    BY StoreAssumption DEF Versions
  <2>. QED
    BY <1>1, <2>1, <2>2
<1>3. version' \in [Oids -> Nat]
  BY <1>2 DEF VersionAfter
<1>. QED
  BY <1>2, <1>3

\* What is void after a call was void or has been bumped: capabilities that
\* the call does not write stay behind.
LEMMA StaysBehind ==
    ASSUME NEW v \in [Oids -> Nat], NEW w \in [Oids -> Nat], NEW t, NEW u,
           NEW c \in [oid : Oids, version : Nat, type : CapTypes],
           Behind(c, v, t),
           \A o \in Oids : /\ v[o] <= w[o]
                           /\ u[o] = "void" => t[o] = "void" \/ v[o] < w[o]
    PROVE  Behind(c, w, u)
<1>1. c.oid \in Oids /\ c.version \in Nat /\ v[c.oid] \in Nat /\ w[c.oid] \in Nat
  OBVIOUS
<1>2. v[c.oid] <= w[c.oid]
  BY <1>1
<1>3. u[c.oid] = "void" => t[c.oid] = "void" \/ v[c.oid] < w[c.oid]
  BY <1>1
<1>. QED
  BY <1>1, <1>2, <1>3 DEF Behind

\* What has another type after a call was void or has been bumped:
\* capabilities that the call does not write fit as before.
LEMMA StillFits ==
    ASSUME NEW v \in [Oids -> Nat], NEW w \in [Oids -> Nat], NEW t, NEW u,
           NEW c \in [oid : Oids, version : Nat, type : CapTypes],
           Behind(c, v, t), Fits(c, v, t),
           \A o \in Oids : /\ v[o] <= w[o]
                           /\ u[o] # t[o] => t[o] = "void" \/ v[o] < w[o]
    PROVE  Fits(c, w, u)
<1>1. c.oid \in Oids /\ c.version \in Nat /\ v[c.oid] \in Nat /\ w[c.oid] \in Nat
  OBVIOUS
<1>2. v[c.oid] <= w[c.oid]
  BY <1>1
<1>3. u[c.oid] # t[c.oid] => t[c.oid] = "void" \/ v[c.oid] < w[c.oid]
  BY <1>1
<1>4. CASE c.type # "void" /\ c.version = w[c.oid]
  <2>1. c.version <= v[c.oid] /\ (t[c.oid] = "void" => c.version < v[c.oid])
    BY <1>4 DEF Behind
  <2>2. v[c.oid] = w[c.oid] /\ t[c.oid] # "void"
    BY <1>1, <1>2, <1>4, <2>1
  <2>3. u[c.oid] = t[c.oid]
    BY <1>1, <1>3, <2>2
  <2>. QED
    BY <1>4, <2>2, <2>3 DEF Fits
<1>. QED
  BY <1>4 DEF Fits

\* A weakened capability fits what the strong one fits.
LEMMA WeakFits ==
    ASSUME NEW t \in CapTypes, NEW u, Compatible(t, u), Weaken(t) # "void"
    PROVE  Compatible(Weaken(t), u)
<1>1. CASE t \in {"page", "rpage"}
  <2>1. Weaken(t) = "rpage" /\ u \in {"page", "rpage"}
    BY <1>1 DEF Weaken, Compatible
  <2>. QED
    BY <2>1 DEF Compatible
<1>2. CASE t \in {"activity", "activity_control"}
  <2>1. Weaken(t) = "activity" /\ u \in {"activity", "activity_control"}
    BY <1>2 DEF Weaken, Compatible
  <2>. QED
    BY <2>1 DEF Compatible
<1>. QED
  BY <1>1, <1>2 DEF Weaken

LEMMA InitInv == Init => Inv
<1>. SUFFICES ASSUME Init PROVE Inv
  OBVIOUS
<1>1. Versions
  BY StoreAssumption DEF Init, Versions
<1>2. DOMAIN type = Oids
  BY DEF Init
<1>3. PICK first \in Slots :
          cap = [s \in Slots |-> IF s = first THEN Capability(FolioOid(BootFolio), 0, "folio")
                                 ELSE VoidCap]
  BY DEF Init
<1>4. FolioOid(BootFolio) \in Oids /\ type[FolioOid(BootFolio)] = "folio"
      /\ version[FolioOid(BootFolio)] = 0
  BY OidsFacts, StoreAssumption DEF Init
<1>5. ASSUME NEW s \in Slots
      PROVE  /\ cap[s] \in [oid : Oids, version : Nat, type : CapTypes]
             /\ Behind(cap[s], version, type) /\ Fits(cap[s], version, type)
  BY <1>3, <1>4, OidsFacts DEF Capability, VoidCap, Behind, Fits, Compatible, CapTypes
<1>. QED
  BY <1>1, <1>2, <1>3, <1>5 DEF Inv, CapsTyped, CapsBehind, CapsFit
-----------------------------------------------------------------------------
\* How a step may change the versions.
Grows == \A o \in Oids : version[o] <= version'[o]

LEMMA FolioAllocInv ==
    ASSUME Inv, NEW p, NEW s \in Slots, FolioAlloc(p, s)
    PROVE  Inv' /\ Grows
<1>. USE DEF Inv
<1>1. PICK f \in Folios :
         /\ type' = [type EXCEPT ![FolioOid(f)] = "folio"]
         /\ cap' = [cap EXCEPT ![s] = Capability(FolioOid(f), version[FolioOid(f)], "folio")]
         /\ version' = version
         /\ type[FolioOid(f)] = "void"
  BY DEF FolioAlloc
<1>2. FolioOid(f) \in Oids /\ version[FolioOid(f)] \in Nat
  BY OidsFacts DEF Versions
<1>3. Versions'
  BY <1>1 DEF Versions
<1>4. CapsTyped'
  BY <1>1, <1>2 DEF CapsTyped, Capability, CapTypes
<1>5. \A o \in Oids : type'[o] = "void" => type[o] = "void"
  BY <1>1 DEF CapsTyped
<1>6. ASSUME NEW r \in Slots PROVE Behind(cap'[r], version', type')
  <2>1. CASE r = s
    <3>1. cap'[r] = Capability(FolioOid(f), version[FolioOid(f)], "folio")
      BY <1>1, <2>1 DEF CapsTyped
    <3>2. type'[FolioOid(f)] = "folio"
      BY <1>1, <1>2 DEF CapsTyped
    <3>. QED
      BY <3>1, <3>2, <1>1, <1>2 DEF Behind, Capability
  <2>2. CASE r # s
    <3>1. cap'[r] = cap[r] /\ Behind(cap[r], version, type)
      BY <1>1, <2>2 DEF CapsTyped, CapsBehind
    <3>. QED
      BY <3>1, <1>1, <1>5 DEF Behind, CapsTyped
  <2>. QED
    BY <2>1, <2>2
<1>7. Grows
  BY <1>1 DEF Grows, Versions
<1>8. \A o \in Oids : type'[o] # type[o] => type[o] = "void"
  BY <1>1 DEF CapsTyped
<1>9. ASSUME NEW r \in Slots PROVE Fits(cap'[r], version', type')
  <2>1. CASE r = s
    <3>1. cap'[r] = Capability(FolioOid(f), version[FolioOid(f)], "folio")
      BY <1>1, <2>1 DEF CapsTyped
    <3>2. type'[FolioOid(f)] = "folio"
      BY <1>1, <1>2 DEF CapsTyped
    <3>. QED
      BY <3>1, <3>2 DEF Fits, Capability, Compatible
  <2>2. CASE r # s
    <3>1. cap'[r] = cap[r] /\ cap[r] \in [oid : Oids, version : Nat, type : CapTypes]
      BY <1>1, <2>2 DEF CapsTyped
    <3>2. Behind(cap[r], version, type) /\ Fits(cap[r], version, type)
      BY DEF CapsBehind, CapsFit
    <3>3. \A o \in Oids : /\ version[o] <= version[o]
                          /\ type'[o] # type[o] => type[o] = "void" \/ version[o] < version[o]
      BY <1>8 DEF Versions
    <3>4. Fits(cap[r], version, type')
      BY <3>1, <3>2, <3>3, StillFits DEF Versions
    <3>. QED
      BY <1>1, <3>1, <3>4
  <2>. QED
    BY <2>1, <2>2
<1>. QED
  BY <1>3, <1>4, <1>6, <1>7, <1>9 DEF CapsBehind, CapsFit

LEMMA FolioFreeInv ==
    ASSUME Inv, MaxVersion < VersionLimit, NEW p, NEW s, FolioFree(p, s)
    PROVE  Inv' /\ Grows
<1>. USE DEF Inv
<1>1. PICK gone, freed :
         /\ MayFree(p, gone, freed)
         /\ version' = VersionAfter(gone, freed)
         /\ type' = TypeAfter(gone, freed)
         /\ cap' = cap
  BY DEF FolioFree, Free
<1>2. /\ version' \in [Oids -> Nat]
      /\ \A o \in Oids : /\ version'[o] <= MaxVersion
                         /\ version[o] <= version'[o]
                         /\ o \in Existing(gone, freed) => version[o] < version'[o]
  BY <1>1, FreeBumps
<1>3. \A o \in Oids : type'[o] = "void" => type[o] = "void" \/ o \in Existing(gone, freed)
  BY <1>1 DEF TypeAfter
<1>4. ASSUME NEW r \in Slots PROVE Behind(cap'[r], version', type')
  <2>1. Behind(cap[r], version, type) /\ cap[r] \in [oid : Oids, version : Nat, type : CapTypes]
    BY DEF CapsBehind, CapsTyped
  <2>. QED
    BY <1>1, <1>2, <1>3, <2>1, StaysBehind DEF Versions
<1>5. CapsTyped'
  BY <1>1 DEF CapsTyped, TypeAfter
<1>6. \A o \in Oids : type'[o] # type[o] => o \in Existing(gone, freed)
  BY <1>1 DEF TypeAfter
<1>7. ASSUME NEW r \in Slots PROVE Fits(cap'[r], version', type')
  <2>1. Behind(cap[r], version, type) /\ Fits(cap[r], version, type)
        /\ cap[r] \in [oid : Oids, version : Nat, type : CapTypes]
    BY DEF CapsBehind, CapsFit, CapsTyped
  <2>2. \A o \in Oids : /\ version[o] <= version'[o]
                        /\ type'[o] # type[o] => type[o] = "void" \/ version[o] < version'[o]
    BY <1>2, <1>6
  <2>. QED
    BY <1>1, <1>2, <2>1, <2>2, StillFits DEF Versions
<1>. QED
  BY <1>2, <1>4, <1>5, <1>7 DEF Versions, CapsBehind, CapsFit, Grows

LEMMA FolioObjectAllocInv ==
    ASSUME Inv, MaxVersion < VersionLimit, NEW p, NEW s, NEW i \in Indices,
           NEW t \in Types, NEW r \in Slots, NEW weak, FolioObjectAlloc(p, s, i, t, r, weak)
    PROVE  Inv' /\ Grows
<1>. USE DEF Inv
<1>0. PICK f \in Folios :
         LET gone == Doomed({<<f, i>>})
             freed == FoliosOf(gone)
         IN  /\ MayFree(p, gone, freed)
             /\ version' = VersionAfter(gone, freed)
             /\ type' = [TypeAfter(gone, freed) EXCEPT ![<<f, i>>] = t]
             /\ cap' \in {cap, Results(<<f, i>>, t, version'[<<f, i>>], r, weak)}
  BY DEF FolioObjectAlloc, Free
<1>1. PICK gone, freed :
         /\ <<f, i>> \in gone
         /\ MayFree(p, gone, freed)
         /\ version' = VersionAfter(gone, freed)
         /\ type' = [TypeAfter(gone, freed) EXCEPT ![<<f, i>>] = t]
         /\ cap' \in {cap, Results(<<f, i>>, t, version'[<<f, i>>], r, weak)}
  <2>1. <<f, i>> \in Objects
    BY DEF Objects
  <2>2. <<f, i>> \in Doomed({<<f, i>>})
    BY <2>1, DoomedHas
  <2>. QED
    BY <1>0, <2>2
<1>. DEFINE o == <<f, i>>
<1>2. o \in Oids
  BY OidsFacts DEF Objects
<1>3. /\ version' \in [Oids -> Nat]
      /\ \A q \in Oids : /\ version'[q] <= MaxVersion
                         /\ version[q] <= version'[q]
                         /\ q \in Existing(gone, freed) => version[q] < version'[q]
  BY <1>1, FreeBumps
<1>4. type'[o] = t /\ DOMAIN type' = Oids
  BY <1>1, <1>2 DEF TypeAfter
<1>5. ASSUME NEW q \in Oids, type'[q] = "void"
      PROVE  type[q] = "void" \/ version[q] < version'[q]
  <2>1. CASE q = o
    <3>1. type[q] # "void" => q \in Existing(gone, freed)
      BY <1>1, <2>1 DEF Existing
    <3>. QED
      BY <3>1, <1>3
  <2>2. CASE q # o
    <3>1. type'[q] = TypeAfter(gone, freed)[q]
      BY <1>1, <1>2, <2>2 DEF TypeAfter
    <3>2. type[q] = "void" \/ q \in Existing(gone, freed)
      BY <3>1, <1>5 DEF TypeAfter
    <3>. QED
      BY <3>2, <1>3
  <2>. QED
    BY <2>1, <2>2
<1>6. ASSUME NEW x \in Slots PROVE Behind(cap[x], version', type')
  <2>1. Behind(cap[x], version, type) /\ cap[x] \in [oid : Oids, version : Nat, type : CapTypes]
    BY DEF CapsBehind, CapsTyped
  <2>2. \A q \in Oids : /\ version[q] <= version'[q]
                        /\ type'[q] = "void" => type[q] = "void" \/ version[q] < version'[q]
    BY <1>3, <1>5
  <2>. QED
    BY <1>3, <2>1, <2>2, StaysBehind DEF Versions
<1>10. ASSUME NEW q \in Oids, type'[q] # type[q]
       PROVE  type[q] = "void" \/ version[q] < version'[q]
  <2>1. CASE q = o
    <3>1. type[q] # "void" => q \in Existing(gone, freed)
      BY <1>1, <2>1 DEF Existing
    <3>. QED
      BY <3>1, <1>3
  <2>2. CASE q # o
    <3>1. type'[q] = TypeAfter(gone, freed)[q]
      BY <1>1, <1>2, <2>2 DEF TypeAfter
    <3>2. q \in Existing(gone, freed)
      BY <3>1, <1>10 DEF TypeAfter
    <3>. QED
      BY <3>2, <1>3
  <2>. QED
    BY <2>1, <2>2
<1>11. ASSUME NEW x \in Slots PROVE Fits(cap[x], version', type')
  <2>1. Behind(cap[x], version, type) /\ Fits(cap[x], version, type)
        /\ cap[x] \in [oid : Oids, version : Nat, type : CapTypes]
    BY DEF CapsBehind, CapsFit, CapsTyped
  <2>2. \A q \in Oids : /\ version[q] <= version'[q]
                        /\ type'[q] # type[q] => type[q] = "void" \/ version[q] < version'[q]
    BY <1>3, <1>10
  <2>. QED
    BY <1>3, <2>1, <2>2, StillFits DEF Versions
<1>7. CASE cap' = cap
  BY <1>3, <1>4, <1>6, <1>7, <1>11 DEF Versions, CapsTyped, CapsBehind, CapsFit, Grows
<1>8. CASE t = "void"
  <2>1. cap' = cap
    BY <1>1, <1>8 DEF Results
  <2>. QED
    BY <2>1, <1>7
<1>9. CASE t # "void" /\ cap' = Results(o, t, version'[o], r, weak)
  <2>1. PICK ty \in CapTypes : /\ cap' = [cap EXCEPT ![r] = Capability(o, version'[o], ty)]
                               /\ ty # "void" => Compatible(ty, t)
    <3>1. t \in CapTypes /\ Compatible(t, t)
      BY StoreAssumption DEF CapTypes, Compatible
    <3>2. Weaken(t) \in CapTypes /\ (Weaken(t) # "void" => Compatible(Weaken(t), t))
      BY <3>1, WeakFits DEF Weaken, CapTypes
    <3>. QED
      BY <1>9, <3>1, <3>2 DEF Results
  <2>0. cap' = [cap EXCEPT ![r] = Capability(o, version'[o], ty)] /\ ty \in CapTypes
    BY <2>1
  <2>2. version'[o] \in Nat
    BY <1>2, <1>3
  <2>3. CapsTyped'
    BY <1>2, <1>4, <2>0, <2>2 DEF CapsTyped, Capability
  <2>4. ASSUME NEW x \in Slots PROVE Behind(cap'[x], version', type')
    <3>1. CASE x = r
      <4>1. cap'[x] = Capability(o, version'[o], ty)
        BY <2>0, <3>1 DEF CapsTyped
      <4>2. type'[o] # "void"
        BY <1>4, <1>9
      <4>. QED
        BY <4>1, <4>2, <2>2 DEF Behind, Capability
    <3>2. CASE x # r
      <4>1. cap'[x] = cap[x]
        BY <2>0, <3>2 DEF CapsTyped
      <4>. QED
        BY <4>1, <1>6
    <3>. QED
      BY <3>1, <3>2
  <2>5. ASSUME NEW x \in Slots PROVE Fits(cap'[x], version', type')
    <3>1. CASE x = r
      <4>1. cap'[x] = Capability(o, version'[o], ty)
        BY <2>0, <3>1 DEF CapsTyped
      <4>2. cap'[x].type = ty /\ cap'[x].oid = o
        BY <4>1 DEF Capability
      <4>3. ty # "void" => Compatible(ty, type'[o])
        BY <1>4, <2>1
      <4>. QED
        BY <4>2, <4>3 DEF Fits
    <3>2. CASE x # r
      <4>1. cap'[x] = cap[x]
        BY <2>0, <3>2 DEF CapsTyped
      <4>. QED
        BY <4>1, <1>11
    <3>. QED
      BY <3>1, <3>2
  <2>. QED
    BY <1>3, <2>3, <2>4, <2>5 DEF Versions, CapsBehind, CapsFit, Grows
<1>. QED
  BY <1>1, <1>7, <1>8, <1>9

\* A slot gets a void capability or, weakened or not, that of another slot.
LEMMA SlotInv ==
    ASSUME Inv, NEW r \in Slots, NEW c \in [oid : Oids, version : Nat, type : CapTypes],
           c.type # "void" => \E s \in Slots : /\ cap[s].type # "void"
                                               /\ c.oid = cap[s].oid
                                               /\ c.version = cap[s].version
                                               /\ c.type \in {cap[s].type, Weaken(cap[s].type)},
           cap' = [cap EXCEPT ![r] = c], UNCHANGED storage
    PROVE  Inv' /\ Grows
<1>. USE DEF Inv, storage
<1>1. Versions' /\ Grows
  BY DEF Versions, Grows
<1>2. CapsTyped'
  BY DEF CapsTyped
<1>3. ASSUME NEW x \in Slots PROVE Behind(cap'[x], version', type')
  BY DEF CapsTyped, CapsBehind, Behind
<1>4. Fits(c, version, type)
  <2>1. CASE c.type = "void"
    BY <2>1 DEF Fits
  <2>2. CASE c.type # "void"
    <3>1. PICK s \in Slots : /\ cap[s].type # "void"
                             /\ c.oid = cap[s].oid
                             /\ c.version = cap[s].version
                             /\ c.type \in {cap[s].type, Weaken(cap[s].type)}
      BY <2>2
    <3>2. Fits(cap[s], version, type) /\ cap[s].type \in CapTypes
      BY DEF CapsFit, CapsTyped
    <3>3. CASE c.version = version[c.oid]
      <4>1. Compatible(cap[s].type, type[c.oid])
        BY <3>1, <3>2, <3>3 DEF Fits
      <4>2. Compatible(c.type, type[c.oid])
        BY <2>2, <3>1, <3>2, <4>1, WeakFits
      <4>. QED
        BY <4>2 DEF Fits
    <3>. QED
      BY <3>3 DEF Fits
  <2>. QED
    BY <2>1, <2>2
<1>5. ASSUME NEW x \in Slots PROVE Fits(cap'[x], version', type')
  <2>1. cap'[x] = IF x = r THEN c ELSE cap[x]
    BY DEF CapsTyped
  <2>. QED
    BY <1>4, <2>1 DEF CapsFit
<1>. QED
  BY <1>1, <1>2, <1>3, <1>5 DEF CapsBehind, CapsFit

LEMMA StepInv ==
    ASSUME Inv, MaxVersion < VersionLimit, Next
    PROVE  Inv' /\ Grows
<1>1. PICK p : Call(p)
  BY DEF Next
<1>2. CASE UNCHANGED <<storage, cap>>
  BY <1>2 DEF Inv, Versions, CapsTyped, CapsBehind, Behind, CapsFit, Fits, Grows, storage
<1>3. CASE FolioAllocDenied(p) \/ \E q \in Quotas : ActivityPolicy(p, q)
  BY <1>2, <1>3 DEF FolioAllocDenied, ActivityPolicy, storage
<1>4. ASSUME NEW s \in Slots, FolioAlloc(p, s) PROVE Inv' /\ Grows
  BY <1>4, FolioAllocInv
<1>5. ASSUME NEW s \in Slots, FolioFree(p, s) PROVE Inv' /\ Grows
  BY <1>5, FolioFreeInv
<1>6. ASSUME NEW s \in Slots, CapRubout(s) PROVE Inv' /\ Grows
  <2>1. VoidCap \in [oid : Oids, version : Nat, type : CapTypes] /\ VoidCap.type = "void"
    BY OidsFacts DEF VoidCap, CapTypes
  <2>2. cap' = [cap EXCEPT ![s] = VoidCap] /\ UNCHANGED storage
    BY <1>6 DEF CapRubout
  <2>. QED
    BY <2>1, <2>2, SlotInv
<1>7. ASSUME NEW s \in Slots, CapClear(s) PROVE Inv' /\ Grows
  <2>. DEFINE c == [cap[s] EXCEPT !.type = "void"]
  <2>1. c \in [oid : Oids, version : Nat, type : CapTypes] /\ c.type = "void"
    BY DEF Inv, CapsTyped, CapTypes
  <2>2. cap' = [cap EXCEPT ![s] = c] /\ UNCHANGED storage
    BY <1>7 DEF CapClear
  <2>. QED
    BY <2>1, <2>2, SlotInv
<1>8. ASSUME NEW s \in Slots, NEW r \in Slots, NEW weak \in Weakening, CapCopy(s, r, weak)
      PROVE  Inv' /\ Grows
  <2>. DEFINE c == IF weak THEN [cap[s] EXCEPT !.type = Weaken(@)] ELSE cap[s]
  <2>1. cap[s] \in [oid : Oids, version : Nat, type : CapTypes]
    BY DEF Inv, CapsTyped
  <2>2. Weaken(cap[s].type) \in CapTypes /\ Weaken("void") = "void"
    BY DEF Weaken, CapTypes
  <2>3. c \in [oid : Oids, version : Nat, type : CapTypes]
    BY <2>1, <2>2
  <2>4. c.oid = cap[s].oid /\ c.version = cap[s].version
    BY <2>1
  <2>5. /\ c.type # "void" => cap[s].type # "void"
        /\ c.type \in {cap[s].type, Weaken(cap[s].type)}
    BY <2>1, <2>2
  <2>6. cap' = [cap EXCEPT ![r] = c] /\ UNCHANGED storage
    BY <1>8 DEF CapCopy
  <2>. HIDE DEF c
  <2>. QED
    BY <2>3, <2>4, <2>5, <2>6, SlotInv
<1>9. ASSUME NEW s \in Slots, NEW r \in Slots, NEW weak \in Weakening, NEW i \in Indices,
             NEW t \in Types, FolioObjectAlloc(p, s, i, t, r, weak)
      PROVE  Inv' /\ Grows
  BY <1>9, FolioObjectAllocInv
<1>. QED
  BY <1>1, <1>3, <1>4, <1>5, <1>6, <1>7, <1>8, <1>9 DEF Call

LEMMA StutterInv ==
    ASSUME Inv, UNCHANGED vars
    PROVE  Inv' /\ Grows
BY DEF Inv, Versions, CapsTyped, CapsBehind, Behind, CapsFit, Fits, Grows, vars

\* As long as the versions do not overflow, no capability is ahead of its
\* object, and those of void objects are behind.
THEOREM Invariance == ASSUME MaxVersion < VersionLimit PROVE Spec => []Inv
<1>1. Inv /\ [Next]_vars => Inv'
  BY StepInv, StutterInv
<1>. QED
  BY <1>1, InitInv, PTL DEF Spec

\* No capability refers to a void object or a free folio: allocating one
\* needs no new version.
THEOREM NoExtantPointers == ASSUME MaxVersion < VersionLimit PROVE Spec => []VoidUnreferenced
<1>1. Inv => VoidUnreferenced
  <2>. SUFFICES ASSUME Inv, NEW s \in Slots, cap[s].type # "void", type[cap[s].oid] = "void"
                PROVE  cap[s].version # version[cap[s].oid]
    BY DEF VoidUnreferenced
  <2>1. cap[s].version \in Nat /\ version[cap[s].oid] \in Nat
    BY DEF Inv, CapsTyped, Versions
  <2>2. cap[s].version < version[cap[s].oid]
    BY DEF Inv, CapsBehind, Behind
  <2>. QED
    BY <2>1, <2>2
<1>. QED
  BY <1>1, Invariance, PTL

\* cap_to_object's assertion never fails: what a capability gives access to
\* is of the capability's type, whatever was freed and allocated since.
THEOREM TypesAgree == ASSUME MaxVersion < VersionLimit PROVE Spec => []TypesCompatible
<1>1. Inv => TypesCompatible
  <2>. SUFFICES ASSUME Inv, NEW s \in Slots, Valid(cap[s])
                PROVE  Compatible(cap[s].type, type[cap[s].oid])
    BY DEF TypesCompatible
  <2>. QED
    BY DEF Inv, CapsFit, Fits, Valid
<1>. QED
  BY <1>1, Invariance, PTL

\* A capability that has lost its object never gets another one.
THEOREM Revocation == ASSUME MaxVersion < VersionLimit PROVE Spec => RevokedForGood
<1>. DEFINE Stays == \A s \in Slots :
               cap[s].type # "void" /\ ~Valid(cap[s]) /\ cap'[s] = cap[s] => ~Valid(cap[s])'
<1>1. Inv /\ [Next]_vars => Stays
  <2>. SUFFICES ASSUME Inv, [Next]_vars, NEW s \in Slots,
                       cap[s].type # "void", ~Valid(cap[s]), cap'[s] = cap[s]
                PROVE  ~Valid(cap[s])'
    OBVIOUS
  <2>1. Inv' /\ Grows
    BY StepInv, StutterInv
  <2>. DEFINE o == cap[s].oid
  <2>2. o \in Oids /\ cap[s].version \in Nat /\ version[o] \in Nat /\ version'[o] \in Nat
    BY <2>1 DEF Inv, CapsTyped, Versions
  <2>3. cap[s].version < version[o]
    BY <2>2 DEF Inv, CapsBehind, Behind, Valid
  <2>4. version[o] <= version'[o]
    BY <2>1, <2>2 DEF Grows
  <2>5. version'[o] # cap[s].version
    BY <2>2, <2>3, <2>4
  <2>. QED
    BY <2>5 DEF Valid
<1>. QED
  BY <1>1, Invariance, PTL DEF Spec, RevokedForGood

-----------------------------------------------------------------------------
(***************************************************************************)
(* Lists.                                                                  *)
(***************************************************************************)
Elems(seq) == {seq[n] : n \in DOMAIN seq}

\* The loop of Without, and what it computes: the first n elements are done.
Keeps(g, seq, out, n) ==
    g = [m \in 0..n |-> IF m = 0 THEN <<>>
                        ELSE IF seq[m] \in out THEN g[m - 1] ELSE Append(g[m - 1], seq[m])]

LEMMA KeepsMore ==
  ASSUME NEW seq, NEW out, NEW n \in Nat, NEW g, Keeps(g, seq, out, n)
  PROVE  \E h : Keeps(h, seq, out, n + 1)
<1> DEFINE e == IF seq[n + 1] \in out THEN g[n] ELSE Append(g[n], seq[n + 1])
           h == [m \in 0..(n + 1) |-> IF m = n + 1 THEN e ELSE g[m]]
           k == [m \in 0..(n + 1) |-> IF m = 0 THEN <<>>
                        ELSE IF seq[m] \in out THEN h[m - 1] ELSE Append(h[m - 1], seq[m])]
<1>1. ASSUME NEW m \in 0..(n + 1) PROVE h[m] = k[m]
  <2>1. CASE m = n + 1
    <3>1. m # 0 /\ m - 1 = n /\ n \in 0..(n + 1) /\ n # n + 1
      BY <2>1
    <3>2. h[m - 1] = g[n] /\ h[m] = e
      <4> HIDE DEF e
      <4> QED BY <2>1, <3>1
    <3>3. k[m] = IF seq[m] \in out THEN h[m - 1] ELSE Append(h[m - 1], seq[m])
      <4> HIDE DEF h
      <4> QED BY <3>1
    <3> HIDE DEF h, k
    <3> QED BY <2>1, <3>2, <3>3
  <2>2. CASE m # n + 1
    <3>1. m \in 0..n /\ h[m] = g[m]
      BY <2>2
    <3>2. g[m] = IF m = 0 THEN <<>>
                 ELSE IF seq[m] \in out THEN g[m - 1] ELSE Append(g[m - 1], seq[m])
      BY <3>1 DEF Keeps
    <3>3. m # 0 => h[m - 1] = g[m - 1]
      <4>1. m # 0 => m - 1 \in 0..(n + 1) /\ m - 1 # n + 1
        BY <3>1
      <4> HIDE DEF e
      <4> QED BY <4>1
    <3>4. k[m] = IF m = 0 THEN <<>>
                 ELSE IF seq[m] \in out THEN h[m - 1] ELSE Append(h[m - 1], seq[m])
      <4> HIDE DEF h
      <4> QED OBVIOUS
    <3> HIDE DEF h, k
    <3> QED BY <3>1, <3>2, <3>3, <3>4
  <2> QED BY <2>1, <2>2
<1>2. h = k
  <2>1. DOMAIN h = 0..(n + 1) /\ DOMAIN k = 0..(n + 1) /\ h = [m \in DOMAIN h |-> h[m]]
          /\ k = [m \in DOMAIN k |-> k[m]]
    OBVIOUS
  <2> HIDE DEF h, k
  <2> QED BY <1>1, <2>1
<1>3. Keeps(h, seq, out, n + 1)
  <2> HIDE DEF h
  <2> QED BY <1>2 DEF Keeps, k
<1> QED BY <1>3

LEMMA KeepsExists ==
  ASSUME NEW seq, NEW out, NEW n \in Nat
  PROVE  \E g : Keeps(g, seq, out, n)
<1> DEFINE Bad == {m \in Nat : ~ \E g : Keeps(g, seq, out, m)}
<1>1. SUFFICES ASSUME Bad # {} PROVE FALSE
  OBVIOUS
<1>2. PICK x \in Bad : \A y \in Bad : ~(<<y, x>> \in OpToRel(<, Nat))
  BY <1>1, NatLessThanWellFounded, WFMin, Zenon
<1>3. CASE x = 0
  <2>1. Keeps([m \in 0..0 |-> <<>>], seq, out, 0)
    <3>1. \A m \in 0..0 : m = 0
      OBVIOUS
    <3> QED BY <3>1 DEF Keeps
  <2> QED BY <1>3, <2>1
<1>4. CASE x # 0
  <2>1. x - 1 \in Nat /\ x - 1 < x /\ (x - 1) + 1 = x
    BY <1>4
  <2>2. x - 1 \notin Bad
    <3>1. <<x - 1, x>> \in OpToRel(<, Nat)
      BY <2>1 DEF OpToRel
    <3> QED BY <1>2, <3>1
  <2>3. PICK g : Keeps(g, seq, out, x - 1)
    BY <2>1, <2>2
  <2>4. \E h : Keeps(h, seq, out, x)
    BY <2>1, <2>3, KeepsMore
  <2> QED BY <2>4
<1> QED BY <1>3, <1>4

LEMMA WithoutIs ==
  ASSUME NEW S, NEW seq \in Seq(S), NEW out
  PROVE  \E g : Keeps(g, seq, out, Len(seq)) /\ Without(seq, out) = g[Len(seq)]
<1> DEFINE g == CHOOSE g : g = [m \in 0..Len(seq) |-> IF m = 0 THEN <<>>
                        ELSE IF seq[m] \in out THEN g[m - 1] ELSE Append(g[m - 1], seq[m])]
<1>1. Keeps(g, seq, out, Len(seq))
  <2>1. \E h : Keeps(h, seq, out, Len(seq))
    BY KeepsExists
  <2> QED BY <2>1 DEF Keeps
<1>2. Without(seq, out) = g[Len(seq)]
  BY DEF Without
<1> QED BY <1>1, <1>2

\* What stays of a list: the elements that are not out, each once.
LEMMA WithoutKeeps ==
  ASSUME NEW S, NEW seq \in Seq(S), NoDuplicates(seq), NEW out
  PROVE  /\ Without(seq, out) \in Seq(S)
         /\ NoDuplicates(Without(seq, out))
         /\ Elems(Without(seq, out)) = Elems(seq) \ out
<1>1. PICK g : Keeps(g, seq, out, Len(seq)) /\ Without(seq, out) = g[Len(seq)]
  BY WithoutIs
<1> DEFINE First(n) == {seq[m] : m \in 1..n}
           Good(n) == g[n] \in Seq(S) /\ NoDuplicates(g[n]) /\ Elems(g[n]) = First(n) \ out
           Bad == {m \in 0..Len(seq) : ~ Good(m)}
<1>0. Len(seq) \in Nat /\ DOMAIN seq = 1..Len(seq)
  OBVIOUS
<1>2. \A m \in 0..Len(seq) : g[m] = IF m = 0 THEN <<>>
                 ELSE IF seq[m] \in out THEN g[m - 1] ELSE Append(g[m - 1], seq[m])
  BY <1>1 DEF Keeps
<1>3. Good(0)
  <2>1. g[0] = <<>> /\ 1..0 = {}
    BY <1>0, <1>2
  <2> QED BY <2>1 DEF NoDuplicates, Elems
<1>4. ASSUME NEW n \in 1..Len(seq), Good(n - 1) PROVE Good(n)
  <2>1. n \in 0..Len(seq) /\ n # 0 /\ n - 1 \in Nat
    BY <1>0
  <2>2. 1..n = (1..(n - 1)) \cup {n}
    BY <2>1
  <2>3. First(n) = First(n - 1) \cup {seq[n]}
    BY <2>2
  <2>4. CASE seq[n] \in out
    <3>1. g[n] = g[n - 1]
      BY <1>2, <2>1, <2>4
    <3> HIDE DEF First
    <3> QED BY <1>4, <2>3, <2>4, <3>1
  <2>5. CASE seq[n] \notin out
    <3>0. seq[n] \in S
      OBVIOUS
    <3>1. g[n] = Append(g[n - 1], seq[n]) /\ seq[n] \in S
      BY <1>2, <2>1, <2>5, <3>0, Zenon
    <3>2. seq[n] \notin First(n - 1)
      <4>1. \A m \in 1..(n - 1) : m \in DOMAIN seq /\ n \in DOMAIN seq /\ m # n
        BY <1>0, <2>1
      <4> QED BY <4>1 DEF NoDuplicates
    <3>3. seq[n] \notin Elems(g[n - 1])
      <4> HIDE DEF First
      <4> QED BY <1>4, <3>2
    <3> DEFINE q == g[n - 1]
    <3>4. q \in Seq(S) /\ NoDuplicates(q) /\ seq[n] \notin Elems(q)
      BY <1>4, <3>3
    <3> HIDE DEF q
    <3>5. Append(q, seq[n]) \in Seq(S) /\ Len(Append(q, seq[n])) = Len(q) + 1 /\ Len(q) \in Nat
          /\ DOMAIN q = 1..Len(q) /\ DOMAIN Append(q, seq[n]) = 1..(Len(q) + 1)
      BY <3>1, <3>4
    <3>6. /\ \A m \in DOMAIN q : Append(q, seq[n])[m] = q[m]
          /\ Append(q, seq[n])[Len(q) + 1] = seq[n]
      BY <3>1, <3>4
    <3>7. DOMAIN Append(q, seq[n]) = DOMAIN q \cup {Len(q) + 1}
      BY <3>5
    <3>8. \A m \in DOMAIN q : q[m] # seq[n]
      BY <3>4 DEF Elems
    <3>9. NoDuplicates(Append(q, seq[n]))
      BY <3>4, <3>6, <3>7, <3>8 DEF NoDuplicates
    <3>10. Elems(Append(q, seq[n])) = Elems(q) \cup {seq[n]}
      BY <3>6, <3>7 DEF Elems
    <3>11. g[n] = Append(q, seq[n]) /\ Elems(q) = First(n - 1) \ out
      BY <1>4, <3>1 DEF q
    <3> HIDE DEF First
    <3> QED BY <2>3, <2>5, <3>5, <3>9, <3>10, <3>11
  <2> QED BY <2>4, <2>5
<1> HIDE DEF Good
<1>5. Bad = {}
  <2> SUFFICES ASSUME Bad # {} PROVE FALSE
    OBVIOUS
  <2>0. Bad \subseteq Nat
    BY <1>0
  <2>1. PICK x \in Bad : \A y \in Bad : ~(<<y, x>> \in OpToRel(<, Nat))
    BY <2>0, NatLessThanWellFounded, WFMin, Zenon
  <2>2. x # 0 /\ x \in 0..Len(seq) /\ ~Good(x)
    BY <1>3, <2>1
  <2>3. x \in 1..Len(seq) /\ x - 1 \in 0..Len(seq) /\ x - 1 \in Nat /\ x \in Nat /\ x - 1 < x
    BY <1>0, <2>2
  <2>4. <<x - 1, x>> \in OpToRel(<, Nat)
    BY <2>3 DEF OpToRel
  <2>5. Good(x - 1)
    BY <2>1, <2>3, <2>4
  <2> QED BY <1>4, <2>2, <2>3, <2>5
<1>6. Good(Len(seq))
  BY <1>0, <1>5
<1>7. First(Len(seq)) = Elems(seq)
  BY <1>0 DEF Elems
<1> QED BY <1>1, <1>6, <1>7 DEF Good
-----------------------------------------------------------------------------
(***************************************************************************)
(* The activities and what belongs to them, as relations between the parts *)
(* of the state.                                                           *)
(***************************************************************************)
Live(ty) == {o \in Objects : ty[o] = "activity_control"}

Goes(ty, own, par, o, T) ==
    \/ ty[o] = "activity_control" /\ par[o] \in T
    \/ ty[o] # "void" /\ own[o[1]] \in T

Anc(par, a) ==
    {b \in Objects : \A T \in SUBSET Objects :
        a \in T /\ (\A c \in T : par[c] \in T \cup {None}) => b \in T}

Paid(own, par, a) == {f \in Folios \ {BootFolio} : own[f] # None /\ a \in Anc(par, own[f])}

StoreShape(ty, own, par, fol, chl, cnt) ==
    /\ ty \in [Oids -> {"void", "page", "activity_control", "folio"}]
    /\ own \in [Folios -> Objects \cup {None}]
    /\ par \in [Objects -> Objects \cup {None}]
    /\ fol \in [Objects -> Seq(Folios)]
    /\ chl \in [Objects -> Seq(Objects)]
    /\ cnt \in [Objects -> Int]

\* A folio that is not free has an owner, which lives; objects are in such folios.
OwnOK(ty, own) ==
    /\ own[BootFolio] = Root
    /\ \A f \in Folios : ty[FolioOid(f)] = "void" <=> own[f] = None
    /\ \A f \in Folios : own[f] # None => own[f] \in Live(ty)
    /\ \A o \in Objects : ty[o] # "void" => own[o[1]] # None

\* Every activity but the root has a parent, which lives.
ParOK(ty, par) ==
    /\ Root \in Live(ty) /\ par[Root] = None
    /\ \A o \in Live(ty) \ {Root} : par[o] \in Live(ty)
    /\ \A o \in Objects \ Live(ty) : par[o] = None

\* No activities go with each other in a circle.
AcyclicOK(ty, own, par) ==
    \A S \in SUBSET (Live(ty) \ {Root}) : S # {} => \E o \in S : ~Goes(ty, own, par, o, S)

FolOK(own, fol) ==
    \A a \in Objects : NoDuplicates(fol[a]) /\ Elems(fol[a]) = {f \in Folios : own[f] = a}

ChlOK(ty, par, chl) ==
    \A a \in Objects : NoDuplicates(chl[a]) /\ Elems(chl[a]) = {c \in Live(ty) : par[c] = a}

CntOK(ty, own, par, cnt) ==
    \A a \in Live(ty) : cnt[a] = Cardinality(Paid(own, par, a))

Tree(ty, own, par, fol, chl, cnt) ==
    /\ StoreShape(ty, own, par, fol, chl, cnt)
    /\ OwnOK(ty, own) /\ ParOK(ty, par) /\ AcyclicOK(ty, own, par)
    /\ FolOK(own, fol) /\ ChlOK(ty, par, chl) /\ CntOK(ty, own, par, cnt)

-----------------------------------------------------------------------------
LEMMA ObjectFacts ==
    /\ Objects \subseteq Oids
    /\ \A f \in Folios : FolioOid(f) \in Oids /\ FolioOid(f) \notin Objects
    /\ \A f, g \in Folios : FolioOid(f) = FolioOid(g) => f = g
    /\ \A o \in Oids \ Objects : \E f \in Folios : o = FolioOid(f)
    /\ \A o \in Objects : o[1] \in Folios
    /\ \A f \in Folios, i \in Indices : <<f, i>> \in Objects /\ <<f, i>>[1] = f
    /\ Root \in Objects /\ Root[1] = BootFolio /\ BootFolio \in Folios
    /\ None \notin Objects
<1>1. Indices \subseteq Nat /\ -1 \notin Nat /\ 0 \in Indices /\ BootFolio \in Folios
      /\ None \notin Folios \X Indices
  BY StoreAssumption
<1>2. \A f \in Folios : FolioOid(f) \notin Objects
  BY <1>1 DEF FolioOid, Objects
<1>3. \A f, g \in Folios : FolioOid(f) = FolioOid(g) => f = g
  BY DEF FolioOid
<1>4. \A o \in Objects : o[1] \in Folios
  BY DEF Objects
<1>5. \A f \in Folios, i \in Indices : <<f, i>> \in Objects /\ <<f, i>>[1] = f
  BY DEF Objects
<1>6. Root \in Objects /\ Root[1] = BootFolio
  BY <1>1, <1>5 DEF Root
<1>7. None \notin Objects
  BY <1>1 DEF Objects
<1> QED BY <1>1, <1>2, <1>3, <1>4, <1>5, <1>6, <1>7 DEF Oids

LEMMA AncSelf == ASSUME NEW par, NEW a \in Objects PROVE a \in Anc(par, a)
BY DEF Anc

\* The ancestors of x stay the same if they keep their parents.
Upward(par, q, K) ==
    K \in SUBSET Objects /\ \A c \in K : par[c] \in K \cup {None} /\ q[c] = par[c]

LEMMA AncSame ==
  ASSUME NEW par, NEW q, NEW K, NEW x, Upward(par, q, K), x \in K
  PROVE  Anc(par, x) = Anc(q, x) /\ Anc(par, x) \subseteq K
<1>0. K \in SUBSET Objects /\ \A c \in K : par[c] \in K \cup {None} /\ q[c] = par[c]
  BY DEF Upward
<1>1. ASSUME NEW y \in Anc(par, x) PROVE y \in Anc(q, x)
  <2> SUFFICES ASSUME NEW T \in SUBSET Objects, x \in T, \A c \in T : q[c] \in T \cup {None}
               PROVE  y \in T
    BY <1>1 DEF Anc
  <2>1. T \cap K \in SUBSET Objects /\ x \in T \cap K
    BY <1>0
  <2>2. \A c \in T \cap K : par[c] \in (T \cap K) \cup {None}
    BY <1>0
  <2>3. y \in T \cap K
    BY <1>1, <2>1, <2>2 DEF Anc
  <2> QED BY <2>3
<1>2. ASSUME NEW y \in Anc(q, x) PROVE y \in Anc(par, x)
  <2> SUFFICES ASSUME NEW T \in SUBSET Objects, x \in T, \A c \in T : par[c] \in T \cup {None}
               PROVE  y \in T
    BY <1>2 DEF Anc
  <2>1. T \cap K \in SUBSET Objects /\ x \in T \cap K
    BY <1>0
  <2>2. \A c \in T \cap K : q[c] \in (T \cap K) \cup {None}
    BY <1>0
  <2>3. y \in T \cap K
    BY <1>2, <2>1, <2>2 DEF Anc
  <2> QED BY <2>3
<1>3. Anc(par, x) \subseteq K
  BY <1>0 DEF Anc
<1> QED BY <1>1, <1>2, <1>3

LEMMA PaidFinite ==
  ASSUME NEW own, NEW par, NEW a
  PROVE  IsFiniteSet(Paid(own, par, a)) /\ Cardinality(Paid(own, par, a)) \in Nat
<1>1. Paid(own, par, a) \subseteq Folios
  BY DEF Paid
<1> QED BY <1>1, StoreAssumption, FS_Subset, FS_CardinalityType

\* Freeing: what belongs to gone is in gone, freed are the folios of gone and
\* perhaps others that hold nothing else.
Leaves(ty, own, par, gone, freed) ==
    /\ gone \in SUBSET Objects /\ Root \notin gone
    /\ \A x \in Objects : Goes(ty, own, par, x, gone) => x \in gone
    /\ freed \in SUBSET Folios
    /\ \A f \in Folios : own[f] \in gone => f \in freed
    /\ \A f \in freed : own[f] # None
    /\ \A o \in Objects : ty[o] # "void" /\ o[1] \in freed => o \in gone

ShareOf(own, par, freed, a) == {f \in freed : a \in Anc(par, own[f])}

AfterTypes(ty, ty2, gone, freed) ==
    ty2 = [o \in Oids |-> IF \/ o \in gone /\ ty[o] # "void"
                             \/ \E f \in freed : o = FolioOid(f)
                          THEN "void" ELSE ty[o]]

AfterFree(own, par, fol, chl, cnt, own2, par2, fol2, chl2, cnt2, gone, freed) ==
    /\ own2 = [f \in Folios |-> IF f \in freed THEN None ELSE own[f]]
    /\ par2 = [a \in Objects |-> IF a \in gone THEN None ELSE par[a]]
    /\ fol2 = [a \in Objects |-> IF a \in gone THEN <<>> ELSE Without(fol[a], freed)]
    /\ chl2 = [a \in Objects |-> IF a \in gone THEN <<>> ELSE Without(chl[a], gone)]
    /\ cnt2 = [a \in Objects |-> IF a \in gone THEN 0
                                  ELSE cnt[a] - Cardinality(ShareOf(own, par, freed, a))]

LEMMA FreeTree ==
  ASSUME NEW ty, NEW own, NEW par, NEW fol, NEW chl, NEW cnt, NEW gone, NEW freed,
         NEW ty2, NEW own2, NEW par2, NEW fol2, NEW chl2, NEW cnt2,
         Tree(ty, own, par, fol, chl, cnt), Leaves(ty, own, par, gone, freed),
         AfterTypes(ty, ty2, gone, freed),
         AfterFree(own, par, fol, chl, cnt, own2, par2, fol2, chl2, cnt2, gone, freed)
  PROVE  Tree(ty2, own2, par2, fol2, chl2, cnt2)
<1>0. /\ StoreShape(ty, own, par, fol, chl, cnt)
      /\ OwnOK(ty, own) /\ ParOK(ty, par) /\ AcyclicOK(ty, own, par)
      /\ FolOK(own, fol) /\ ChlOK(ty, par, chl) /\ CntOK(ty, own, par, cnt)
  BY DEF Tree
<1>21. gone \subseteq Objects /\ gone \in SUBSET Objects /\ Root \notin gone /\ freed \subseteq Folios
  BY DEF Leaves
<1>22. \A x \in Objects : Goes(ty, own, par, x, gone) => x \in gone
  BY DEF Leaves
<1>23. /\ \A f \in Folios : own[f] \in gone => f \in freed
       /\ \A f \in freed : own[f] # None
       /\ \A o \in Objects : ty[o] # "void" /\ o[1] \in freed => o \in gone
  BY DEF Leaves
<1>24. DOMAIN ty2 = Oids /\ \A o \in Oids : ty2[o] = IF \/ o \in gone /\ ty[o] # "void"
                                                        \/ \E f \in freed : o = FolioOid(f)
                                                     THEN "void" ELSE ty[o]
  BY DEF AfterTypes
<1>25. own2 = [f \in Folios |-> IF f \in freed THEN None ELSE own[f]]
  BY DEF AfterFree
<1>26. par2 = [a \in Objects |-> IF a \in gone THEN None ELSE par[a]]
  BY DEF AfterFree
<1>27. fol2 = [a \in Objects |-> IF a \in gone THEN <<>> ELSE Without(fol[a], freed)]
  BY DEF AfterFree
<1>28. chl2 = [a \in Objects |-> IF a \in gone THEN <<>> ELSE Without(chl[a], gone)]
  BY DEF AfterFree
<1>29. cnt2 = [a \in Objects |-> IF a \in gone THEN 0
                                  ELSE cnt[a] - Cardinality(ShareOf(own, par, freed, a))]
  BY DEF AfterFree
<1>1. \A o \in Objects : ty2[o] = IF o \in gone THEN "void" ELSE ty[o]
  <2>1. \A o \in Objects : o \in Oids /\ ~ \E f \in freed : o = FolioOid(f)
    BY <1>21, ObjectFacts
  <2> QED BY <1>24, <2>1
<1>2. \A f \in Folios : ty2[FolioOid(f)] = IF f \in freed THEN "void" ELSE ty[FolioOid(f)]
  <2> SUFFICES ASSUME NEW f \in Folios
               PROVE  ty2[FolioOid(f)] = IF f \in freed THEN "void" ELSE ty[FolioOid(f)]
    OBVIOUS
  <2>1. FolioOid(f) \in Oids /\ FolioOid(f) \notin gone
    BY <1>21, ObjectFacts
  <2>2. (\E g \in freed : FolioOid(f) = FolioOid(g)) <=> f \in freed
    BY <1>21, ObjectFacts
  <2> QED BY <1>24, <2>1, <2>2
<1>3. Live(ty2) = Live(ty) \ gone
  <2>1. \A o \in Objects : ty2[o] = "activity_control" <=> ty[o] = "activity_control" /\ o \notin gone
    BY <1>1
  <2> QED BY <2>1 DEF Live
<1>4. /\ \A f \in Folios : own2[f] = IF f \in freed THEN None ELSE own[f]
      /\ \A a \in Objects : par2[a] = IF a \in gone THEN None ELSE par[a]
  BY <1>25, <1>26
<1>5. BootFolio \notin freed
  BY <1>0, <1>21, <1>23, ObjectFacts DEF ParOK, Live
<1>6. \A a \in Objects : a \notin gone => par[a] \notin gone
  <2> SUFFICES ASSUME NEW a \in Objects, a \notin gone, par[a] \in gone PROVE FALSE
    OBVIOUS
  <2>1. a \in Live(ty)
    BY <1>0, <1>21, ObjectFacts DEF ParOK
  <2> QED BY <1>22, <2>1 DEF Goes, Live
<1>7. ASSUME NEW x \in Objects \ gone
      PROVE  Anc(par2, x) = Anc(par, x) /\ Anc(par, x) \subseteq Objects \ gone
  <2>1. \A c \in Objects \ gone : par[c] \in (Objects \ gone) \cup {None} /\ par2[c] = par[c]
    BY <1>0, <1>4, <1>6 DEF StoreShape
  <2>2. Upward(par, par2, Objects \ gone)
    BY <2>1 DEF Upward
  <2> QED BY <2>2, AncSame
<1>8. ASSUME NEW a \in Objects \ gone
      PROVE  /\ ShareOf(own, par, freed, a) \subseteq Paid(own, par, a)
             /\ Paid(own2, par2, a) = Paid(own, par, a) \ ShareOf(own, par, freed, a)
  <2>1. ShareOf(own, par, freed, a) \subseteq Paid(own, par, a)
    BY <1>5, <1>21, <1>23 DEF Paid, ShareOf
  <2>2. ASSUME NEW f \in Folios, f \notin freed, own[f] # None
        PROVE  own2[f] = own[f] /\ Anc(par2, own[f]) = Anc(par, own[f])
    <3>1. own[f] \in Objects \ gone
      BY <1>0, <1>23, <2>2 DEF StoreShape
    <3> QED BY <1>4, <1>7, <2>2, <3>1
  <2>3. \A f \in Folios : f \notin freed /\ own[f] # None =>
          own2[f] = own[f] /\ Anc(par2, own[f]) = Anc(par, own[f])
    BY <2>2
  <2>4. \A f \in Folios : f \in freed => own2[f] = None
    BY <1>4
  <2>5. \A f \in Folios : own[f] = None => own2[f] = None
    BY <1>4
  <2>6. ASSUME NEW f \in Folios
        PROVE  f \in Paid(own2, par2, a) <=> f \in Paid(own, par, a) \ ShareOf(own, par, freed, a)
    BY <2>3, <2>4, <2>5 DEF Paid, ShareOf
  <2>7. Paid(own2, par2, a) \subseteq Folios /\ Paid(own, par, a) \subseteq Folios
    BY DEF Paid
  <2> QED BY <2>1, <2>6, <2>7
<1>9. ASSUME NEW a \in Objects
      PROVE  Cardinality(ShareOf(own, par, freed, a)) \in Nat
  <2>1. IsFiniteSet(ShareOf(own, par, freed, a))
    <3>1. ShareOf(own, par, freed, a) \subseteq Folios
      BY <1>21 DEF ShareOf
    <3> QED BY <3>1, StoreAssumption, FS_Subset
  <2> QED BY <2>1, FS_CardinalityType
<1>10. CntOK(ty2, own2, par2, cnt2)
  <2> SUFFICES ASSUME NEW a \in Live(ty2) PROVE cnt2[a] = Cardinality(Paid(own2, par2, a))
    BY DEF CntOK
  <2>1. a \in Live(ty) /\ a \notin gone /\ a \in Objects
    BY <1>3 DEF Live
  <2> DEFINE X == ShareOf(own, par, freed, a)
  <2>2. cnt2[a] = cnt[a] - Cardinality(X)
    BY <1>29, <2>1
  <2>3. cnt[a] = Cardinality(Paid(own, par, a))
    BY <1>0, <2>1 DEF CntOK
  <2>4. X \subseteq Paid(own, par, a) /\ Paid(own2, par2, a) = Paid(own, par, a) \ X
    BY <1>8, <2>1
  <2>5. IsFiniteSet(Paid(own, par, a)) /\ Cardinality(Paid(own, par, a)) \in Nat
    BY PaidFinite
  <2>6. Cardinality(X) \in Nat
    BY <1>9, <2>1
  <2> HIDE DEF X
  <2>7. Paid(own, par, a) \cap X = X
    BY <2>4
  <2>8. Cardinality(Paid(own, par, a) \ X) = Cardinality(Paid(own, par, a)) - Cardinality(Paid(own,
          par, a) \cap X)
    BY <2>5, FS_Difference
  <2> QED BY <2>2, <2>3, <2>4, <2>7, <2>8
<1>11. FolOK(own2, fol2)
  <2> SUFFICES ASSUME NEW a \in Objects
               PROVE  NoDuplicates(fol2[a]) /\ Elems(fol2[a]) = {f \in Folios : own2[f] = a}
    BY DEF FolOK
  <2>1. NoDuplicates(fol[a]) /\ Elems(fol[a]) = {f \in Folios : own[f] = a} /\ fol[a] \in Seq(Folios)
    BY <1>0 DEF FolOK, StoreShape
  <2>2. a # None
    BY ObjectFacts
  <2>3. CASE a \in gone
    <3>1. fol2[a] = <<>> /\ NoDuplicates(<<>>) /\ Elems(<<>>) = {}
      BY <1>27, <2>3 DEF NoDuplicates, Elems
    <3>2. {f \in Folios : own2[f] = a} = {}
      BY <1>4, <1>23, <2>2, <2>3
    <3> QED BY <3>1, <3>2
  <2>4. CASE a \notin gone
    <3>1. fol2[a] = Without(fol[a], freed)
      BY <1>27, <2>4
    <3>2. NoDuplicates(fol2[a]) /\ Elems(fol2[a]) = Elems(fol[a]) \ freed
      BY <2>1, <3>1, WithoutKeeps
    <3> QED BY <1>4, <2>1, <2>2, <3>2
  <2> QED BY <2>3, <2>4
<1>12. ChlOK(ty2, par2, chl2)
  <2> SUFFICES ASSUME NEW a \in Objects
               PROVE  NoDuplicates(chl2[a]) /\ Elems(chl2[a]) = {c \in Live(ty2) : par2[c] = a}
    BY DEF ChlOK
  <2>1. NoDuplicates(chl[a]) /\ Elems(chl[a]) = {c \in Live(ty) : par[c] = a} /\ chl[a] \in Seq(Objects)
    BY <1>0 DEF ChlOK, StoreShape
  <2>3. CASE a \in gone
    <3>1. chl2[a] = <<>> /\ NoDuplicates(<<>>) /\ Elems(<<>>) = {}
      BY <1>28, <2>3 DEF NoDuplicates, Elems
    <3>2. \A c \in Live(ty2) : c \in Objects /\ c \notin gone
      BY <1>3 DEF Live
    <3>3. {c \in Live(ty2) : par2[c] = a} = {}
      BY <1>4, <1>6, <2>3, <3>2
    <3> QED BY <3>1, <3>3
  <2>4. CASE a \notin gone
    <3>1. chl2[a] = Without(chl[a], gone)
      BY <1>28, <2>4
    <3>2. NoDuplicates(chl2[a]) /\ Elems(chl2[a]) = Elems(chl[a]) \ gone
      BY <2>1, <3>1, WithoutKeeps
    <3>3. \A c \in Live(ty) \ gone : par2[c] = par[c]
      BY <1>4 DEF Live
    <3> QED BY <1>3, <2>1, <3>2, <3>3
  <2> QED BY <2>3, <2>4
<1>13. OwnOK(ty2, own2)
  <2>1. own2[BootFolio] = Root
    BY <1>0, <1>4, <1>5, ObjectFacts DEF OwnOK
  <2>2. \A f \in Folios : ty2[FolioOid(f)] = "void" <=> own2[f] = None
    <3> SUFFICES ASSUME NEW f \in Folios PROVE ty2[FolioOid(f)] = "void" <=> own2[f] = None
      OBVIOUS
    <3>1. ty[FolioOid(f)] = "void" <=> own[f] = None
      BY <1>0 DEF OwnOK
    <3>2. CASE f \in freed
      BY <1>2, <1>4, <3>2
    <3>3. CASE f \notin freed
      BY <1>2, <1>4, <3>1, <3>3
    <3> QED BY <3>2, <3>3
  <2>3. \A f \in Folios : own2[f] # None => own2[f] \in Live(ty2)
    BY <1>0, <1>3, <1>4, <1>23 DEF OwnOK
  <2>4. \A o \in Objects : ty2[o] # "void" => own2[o[1]] # None
    BY <1>0, <1>1, <1>4, <1>23, ObjectFacts DEF OwnOK
  <2> QED BY <2>1, <2>2, <2>3, <2>4 DEF OwnOK
<1>14. ParOK(ty2, par2)
  <2>1. Root \in Live(ty2) /\ par2[Root] = None
    BY <1>0, <1>3, <1>4, <1>21, ObjectFacts DEF ParOK
  <2>2. \A o \in Live(ty2) \ {Root} : par2[o] \in Live(ty2)
    BY <1>0, <1>3, <1>4, <1>6 DEF ParOK, Live
  <2>3. \A o \in Objects \ Live(ty2) : par2[o] = None
    BY <1>0, <1>3, <1>4 DEF ParOK
  <2> QED BY <2>1, <2>2, <2>3 DEF ParOK
<1>15. AcyclicOK(ty2, own2, par2)
  <2> SUFFICES ASSUME NEW S \in SUBSET (Live(ty2) \ {Root}), S # {}
               PROVE  \E o \in S : ~Goes(ty2, own2, par2, o, S)
    BY DEF AcyclicOK
  <2>1. S \in SUBSET (Live(ty) \ {Root}) /\ S \subseteq Objects /\ None \notin S
    BY <1>3, ObjectFacts DEF Live
  <2>2. PICK o \in S : ~Goes(ty, own, par, o, S)
    BY <1>0, <2>1 DEF AcyclicOK
  <2>3. o \in Objects /\ o \notin gone /\ o[1] \in Folios
    BY <1>3, <2>1, ObjectFacts
  <2>4. ~Goes(ty2, own2, par2, o, S)
    BY <1>1, <1>4, <2>1, <2>2, <2>3 DEF Goes
  <2> QED BY <2>4
<1>16. StoreShape(ty2, own2, par2, fol2, chl2, cnt2)
  <2>1. ty2 \in [Oids -> {"void", "page", "activity_control", "folio"}]
    BY <1>0, <1>24 DEF StoreShape, AfterTypes
  <2>2. own2 \in [Folios -> Objects \cup {None}] /\ par2 \in [Objects -> Objects \cup {None}]
    BY <1>0, <1>25, <1>26 DEF StoreShape
  <2>3. fol2 \in [Objects -> Seq(Folios)]
    <3>1. ASSUME NEW a \in Objects PROVE Without(fol[a], freed) \in Seq(Folios) /\ <<>> \in Seq(Folios)
      BY <1>0, WithoutKeeps DEF StoreShape, FolOK
    <3> QED BY <1>27, <3>1
  <2>4. chl2 \in [Objects -> Seq(Objects)]
    <3>1. ASSUME NEW a \in Objects PROVE Without(chl[a], gone) \in Seq(Objects) /\ <<>> \in Seq(Objects)
      BY <1>0, WithoutKeeps DEF StoreShape, ChlOK
    <3> QED BY <1>28, <3>1
  <2>5. cnt2 \in [Objects -> Int]
    <3>1. ASSUME NEW a \in Objects
          PROVE  cnt[a] - Cardinality(ShareOf(own, par, freed, a)) \in Int
      <4>1. cnt[a] \in Int
        BY <1>0 DEF StoreShape
      <4>2. Cardinality(ShareOf(own, par, freed, a)) \in Nat
        BY <1>9
      <4> DEFINE k == Cardinality(ShareOf(own, par, freed, a))
      <4> HIDE DEF k
      <4>3. k \in Nat
        BY <4>2 DEF k
      <4>4. cnt[a] - k \in Int
        BY <4>1, <4>3
      <4> QED BY <4>4 DEF k
    <3> QED BY <1>29, <3>1
  <2> QED BY <2>1, <2>2, <2>3, <2>4, <2>5 DEF StoreShape
<1> QED BY <1>10, <1>11, <1>12, <1>13, <1>14, <1>15, <1>16 DEF Tree

LEMMA ConsFacts ==
  ASSUME NEW S, NEW q \in Seq(S), NEW x \in S, NoDuplicates(q), x \notin Elems(q)
  PROVE  /\ <<x>> \o q \in Seq(S) /\ NoDuplicates(<<x>> \o q)
         /\ Elems(<<x>> \o q) = Elems(q) \cup {x}
<1> DEFINE r == <<x>> \o q
<1>1. r \in Seq(S) /\ Len(r) = Len(q) + 1 /\ Len(q) \in Nat /\ DOMAIN q = 1..Len(q)
        /\ DOMAIN r = 1..(Len(q) + 1)
  OBVIOUS
<1>2. r[1] = x /\ \A n \in 1..Len(q) : r[n + 1] = q[n]
  OBVIOUS
<1> HIDE DEF r
<1>3. \A n \in DOMAIN r : n = 1 \/ (n - 1 \in DOMAIN q /\ r[n] = q[n - 1])
  <2> SUFFICES ASSUME NEW n \in DOMAIN r, n # 1 PROVE n - 1 \in DOMAIN q /\ r[n] = q[n - 1]
    OBVIOUS
  <2>1. n - 1 \in 1..Len(q) /\ (n - 1) + 1 = n
    BY <1>1
  <2> QED BY <1>1, <1>2, <2>1
<1>4. \A n \in DOMAIN q : q[n] # x
  BY DEF Elems
<1>5. NoDuplicates(r)
  <2> SUFFICES ASSUME NEW m \in DOMAIN r, NEW n \in DOMAIN r, r[m] = r[n] PROVE m = n
    BY DEF NoDuplicates
  <2>1. m \in Nat /\ n \in Nat
    BY <1>1
  <2>2. CASE m # 1 /\ n # 1
    <3>1. m - 1 = n - 1
      BY <1>3, <2>2 DEF NoDuplicates
    <3> QED BY <2>1, <3>1
  <2> QED BY <1>2, <1>3, <1>4, <2>2
<1>6. Elems(r) = Elems(q) \cup {x}
  <2>1. 1 \in DOMAIN r /\ \A n \in DOMAIN q : n + 1 \in DOMAIN r /\ r[n + 1] = q[n]
    BY <1>1, <1>2
  <2> QED BY <1>2, <1>3, <2>1 DEF Elems
<1> QED BY <1>1, <1>5, <1>6 DEF r

\* An object that is not an activity is put where there was none.
LEMMA PutTree ==
  ASSUME NEW ty, NEW own, NEW par, NEW fol, NEW chl, NEW cnt, Tree(ty, own, par, fol, chl, cnt),
         NEW o \in Objects, NEW t \in {"void", "page"}, ty[o] = "void", own[o[1]] # None,
         NEW ty2, ty2 = [ty EXCEPT ![o] = t]
  PROVE  Tree(ty2, own, par, fol, chl, cnt)
<1>0. /\ StoreShape(ty, own, par, fol, chl, cnt)
      /\ OwnOK(ty, own) /\ ParOK(ty, par) /\ AcyclicOK(ty, own, par)
      /\ FolOK(own, fol) /\ ChlOK(ty, par, chl) /\ CntOK(ty, own, par, cnt)
  BY DEF Tree
<1>1. /\ ty2 \in [Oids -> {"void", "page", "activity_control", "folio"}]
      /\ \A x \in Oids : ty2[x] = IF x = o THEN t ELSE ty[x]
  BY <1>0, ObjectFacts DEF StoreShape
<1>2. Live(ty2) = Live(ty)
  BY <1>1, ObjectFacts DEF Live
<1>3. OwnOK(ty2, own)
  <2>1. \A f \in Folios : ty2[FolioOid(f)] = ty[FolioOid(f)]
    BY <1>1, ObjectFacts
  <2>2. \A x \in Objects : ty2[x] # "void" => own[x[1]] # None
    BY <1>0, <1>1, ObjectFacts DEF OwnOK
  <2>3. \A f \in Folios : ty2[FolioOid(f)] = "void" <=> own[f] = None
    BY <1>0, <2>1 DEF OwnOK
  <2> QED BY <1>0, <1>2, <2>2, <2>3 DEF OwnOK
<1>4. ParOK(ty2, par)
  BY <1>0, <1>2 DEF ParOK
<1>5. AcyclicOK(ty2, own, par)
  <2> SUFFICES ASSUME NEW S \in SUBSET (Live(ty2) \ {Root}), S # {}
               PROVE  \E x \in S : ~Goes(ty2, own, par, x, S)
    BY DEF AcyclicOK
  <2>1. PICK x \in S : ~Goes(ty, own, par, x, S)
    BY <1>0, <1>2 DEF AcyclicOK
  <2>2. x \in Objects /\ ty[x] = "activity_control" /\ ty2[x] = ty[x]
    BY <1>1, <1>2, ObjectFacts DEF Live
  <2>3. ~Goes(ty2, own, par, x, S)
    BY <2>1, <2>2 DEF Goes
  <2> QED BY <2>3
<1>6. ChlOK(ty2, par, chl) /\ CntOK(ty2, own, par, cnt)
  BY <1>0, <1>2 DEF ChlOK, CntOK
<1>7. StoreShape(ty2, own, par, fol, chl, cnt)
  BY <1>0, <1>1 DEF StoreShape
<1> QED BY <1>0, <1>3, <1>4, <1>5, <1>6, <1>7 DEF Tree

\* A new activity o, child of p.
NewActivity(ty, par, chl, o, p, ty2, par2, chl2) ==
    /\ ty2 = [ty EXCEPT ![o] = "activity_control"]
    /\ par2 = [par EXCEPT ![o] = p]
    /\ chl2 = [chl EXCEPT ![p] = <<o>> \o @]

LEMMA CreateTree ==
  ASSUME NEW ty, NEW own, NEW par, NEW fol, NEW chl, NEW cnt, Tree(ty, own, par, fol, chl, cnt),
         NEW o \in Objects, NEW p \in Live(ty), ty[o] = "void", own[o[1]] # None, cnt[o] = 0,
         NEW ty2, NEW par2, NEW chl2, NewActivity(ty, par, chl, o, p, ty2, par2, chl2)
  PROVE  Tree(ty2, own, par2, fol, chl2, cnt)
<1>0. /\ StoreShape(ty, own, par, fol, chl, cnt)
      /\ OwnOK(ty, own) /\ ParOK(ty, par) /\ AcyclicOK(ty, own, par)
      /\ FolOK(own, fol) /\ ChlOK(ty, par, chl) /\ CntOK(ty, own, par, cnt)
  BY DEF Tree
<1>1. /\ ty2 \in [Oids -> {"void", "page", "activity_control", "folio"}]
      /\ \A x \in Oids : ty2[x] = IF x = o THEN "activity_control" ELSE ty[x]
  BY <1>0, ObjectFacts DEF StoreShape, NewActivity
<1>2. Live(ty2) = Live(ty) \cup {o} /\ o \notin Live(ty)
  BY <1>1, ObjectFacts DEF Live
<1>3. p \in Objects /\ p # o /\ o # Root
  BY <1>0, <1>2 DEF Live, ParOK
<1>4. /\ par2 \in [Objects -> Objects \cup {None}]
      /\ \A x \in Objects : par2[x] = IF x = o THEN p ELSE par[x]
  BY <1>0, <1>3 DEF StoreShape, NewActivity
<1>5. \A x \in Objects : par[x] # o
  <2>1. \A x \in Objects : par[x] \in Live(ty) \/ par[x] = None
    BY <1>0 DEF ParOK, Live
  <2> QED BY <1>2, <2>1, ObjectFacts
<1>6. \A f \in Folios : own[f] # o
  BY <1>0, <1>2, ObjectFacts DEF OwnOK
<1>7. ASSUME NEW x \in Objects, x # o
      PROVE  Anc(par, x) = Anc(par2, x) /\ o \notin Anc(par, x)
  <2>1. Upward(par, par2, Objects \ {o})
    BY <1>0, <1>4, <1>5 DEF Upward, StoreShape
  <2>2. x \in Objects \ {o}
    BY <1>7
  <2>3. Anc(par, x) = Anc(par2, x) /\ Anc(par, x) \subseteq Objects \ {o}
    BY <2>1, <2>2, AncSame
  <2> QED BY <2>3
<1>8. CntOK(ty2, own, par2, cnt)
  <2> SUFFICES ASSUME NEW a \in Live(ty2) PROVE cnt[a] = Cardinality(Paid(own, par2, a))
    BY DEF CntOK
  <2>1. \A f \in Folios : own[f] # None => own[f] \in Objects /\ own[f] # o
    BY <1>0, <1>6 DEF StoreShape
  <2>2. \A f \in Folios : own[f] # None =>
          Anc(par2, own[f]) = Anc(par, own[f]) /\ o \notin Anc(par, own[f])
    BY <1>7, <2>1
  <2>3. Paid(own, par2, a) = Paid(own, par, a)
    BY <2>2 DEF Paid
  <2>4. CASE a = o
    <3>1. Paid(own, par, a) = {}
      BY <2>2, <2>4 DEF Paid
    <3> QED BY <2>3, <2>4, <3>1, FS_EmptySet
  <2>5. CASE a # o
    BY <1>0, <1>2, <2>3, <2>5 DEF CntOK
  <2> QED BY <2>4, <2>5
<1>9. /\ chl2 \in [Objects -> Seq(Objects)]
      /\ ChlOK(ty2, par2, chl2)
  <2>1. \A a \in Objects : chl2[a] = IF a = p THEN <<o>> \o chl[a] ELSE chl[a]
    BY <1>0, <1>3 DEF StoreShape, NewActivity
  <2>2. DOMAIN chl2 = Objects /\ chl2 = [a \in Objects |-> chl2[a]]
    BY <1>0 DEF StoreShape, NewActivity
  <2>3. ASSUME NEW a \in Objects
        PROVE  /\ chl2[a] \in Seq(Objects) /\ NoDuplicates(chl2[a])
               /\ Elems(chl2[a]) = {c \in Live(ty2) : par2[c] = a}
    <3>1. NoDuplicates(chl[a]) /\ Elems(chl[a]) = {c \in Live(ty) : par[c] = a} /\ chl[a] \in Seq(Objects)
      BY <1>0 DEF ChlOK, StoreShape
    <3>2. \A c \in Live(ty) : par2[c] = par[c]
      BY <1>2, <1>4 DEF Live
    <3>3. par2[o] = p
      BY <1>4
    <3>4. CASE a = p
      <4>1. o \notin Elems(chl[a])
        BY <1>2, <3>1
      <4>2. /\ <<o>> \o chl[a] \in Seq(Objects) /\ NoDuplicates(<<o>> \o chl[a])
            /\ Elems(<<o>> \o chl[a]) = Elems(chl[a]) \cup {o}
        BY <3>1, <4>1, ConsFacts
      <4>3. {c \in Live(ty2) : par2[c] = a} = {c \in Live(ty) : par[c] = a} \cup {o}
        BY <1>2, <3>2, <3>3, <3>4
      <4>4. chl2[a] = <<o>> \o chl[a]
        BY <2>1, <3>4
      <4> QED BY <3>1, <4>2, <4>3, <4>4
    <3>5. CASE a # p
      <4>1. {c \in Live(ty2) : par2[c] = a} = {c \in Live(ty) : par[c] = a}
        BY <1>2, <3>2, <3>3, <3>5
      <4>2. chl2[a] = chl[a]
        BY <2>1, <3>5
      <4> QED BY <3>1, <4>1, <4>2
    <3> QED BY <3>4, <3>5
  <2>4. chl2 \in [Objects -> Seq(Objects)]
    BY <2>2, <2>3
  <2> QED BY <2>3, <2>4 DEF ChlOK
<1>10. OwnOK(ty2, own)
  <2>1. \A f \in Folios : ty2[FolioOid(f)] = ty[FolioOid(f)]
    BY <1>1, ObjectFacts
  <2>2. \A x \in Objects : ty2[x] # "void" => own[x[1]] # None
    BY <1>0, <1>1, ObjectFacts DEF OwnOK
  <2>3. \A f \in Folios : ty2[FolioOid(f)] = "void" <=> own[f] = None
    BY <1>0, <2>1 DEF OwnOK
  <2>4. \A f \in Folios : own[f] # None => own[f] \in Live(ty2)
    BY <1>0, <1>2 DEF OwnOK
  <2> QED BY <1>0, <2>2, <2>3, <2>4 DEF OwnOK
<1>11. ParOK(ty2, par2)
  <2>1. Root \in Live(ty2) /\ par2[Root] = None
    BY <1>0, <1>2, <1>3, <1>4, ObjectFacts DEF ParOK
  <2>2. \A x \in Live(ty2) \ {Root} : par2[x] \in Live(ty2)
    BY <1>0, <1>2, <1>4 DEF ParOK, Live
  <2>3. \A x \in Objects \ Live(ty2) : par2[x] = None
    BY <1>0, <1>2, <1>4 DEF ParOK
  <2> QED BY <2>1, <2>2, <2>3 DEF ParOK
<1>12. AcyclicOK(ty2, own, par2)
  <2> SUFFICES ASSUME NEW S \in SUBSET (Live(ty2) \ {Root}), S # {}
               PROVE  \E x \in S : ~Goes(ty2, own, par2, x, S)
    BY DEF AcyclicOK
  <2>1. CASE S = {o}
    <3>1. par2[o] # o /\ own[o[1]] # o
      BY <1>3, <1>4, <1>6, ObjectFacts
    <3> QED BY <2>1, <3>1 DEF Goes
  <2>2. CASE S # {o}
    <3>1. S \ {o} \in SUBSET (Live(ty) \ {Root}) /\ S \ {o} # {}
      BY <1>2, <2>2
    <3>2. PICK x \in S \ {o} : ~Goes(ty, own, par, x, S \ {o})
      BY <1>0, <3>1 DEF AcyclicOK
    <3>3. x \in Objects /\ x # o /\ ty2[x] = ty[x] /\ par2[x] = par[x] /\ par[x] # o /\ own[x[1]] # o
      BY <1>1, <1>4, <1>5, <1>6, <3>1, ObjectFacts DEF Live
    <3>4. ~Goes(ty2, own, par2, x, S)
      BY <3>2, <3>3 DEF Goes
    <3> QED BY <3>2, <3>4
  <2> QED BY <2>1, <2>2
<1>13. StoreShape(ty2, own, par2, fol, chl2, cnt)
  BY <1>0, <1>1, <1>4, <1>9 DEF StoreShape
<1> QED BY <1>0, <1>8, <1>9, <1>10, <1>11, <1>12, <1>13 DEF Tree

\* A free folio f is given to p.
NewFolio(ty, own, par, fol, cnt, f, p, ty2, own2, fol2, cnt2) ==
    /\ ty2 = [ty EXCEPT ![FolioOid(f)] = "folio"]
    /\ own2 = [own EXCEPT ![f] = p]
    /\ fol2 = [fol EXCEPT ![p] = <<f>> \o @]
    /\ cnt2 = [a \in Objects |-> cnt[a] + IF a \in Anc(par, p) THEN 1 ELSE 0]

LEMMA FolioTree ==
  ASSUME NEW ty, NEW own, NEW par, NEW fol, NEW chl, NEW cnt, Tree(ty, own, par, fol, chl, cnt),
         NEW f \in Folios, NEW p \in Live(ty), ty[FolioOid(f)] = "void",
         NEW ty2, NEW own2, NEW fol2, NEW cnt2,
         NewFolio(ty, own, par, fol, cnt, f, p, ty2, own2, fol2, cnt2)
  PROVE  Tree(ty2, own2, par, fol2, chl, cnt2)
<1>0. /\ StoreShape(ty, own, par, fol, chl, cnt)
      /\ OwnOK(ty, own) /\ ParOK(ty, par) /\ AcyclicOK(ty, own, par)
      /\ FolOK(own, fol) /\ ChlOK(ty, par, chl) /\ CntOK(ty, own, par, cnt)
  BY DEF Tree
<1>1. /\ ty2 \in [Oids -> {"void", "page", "activity_control", "folio"}]
      /\ \A x \in Oids : ty2[x] = IF x = FolioOid(f) THEN "folio" ELSE ty[x]
  BY <1>0, ObjectFacts DEF StoreShape, NewFolio
<1>2. \A x \in Objects : ty2[x] = ty[x]
  BY <1>1, ObjectFacts
<1>3. Live(ty2) = Live(ty)
  BY <1>2 DEF Live
<1>4. p \in Objects /\ p # None
  BY ObjectFacts DEF Live
<1>5. /\ own2 \in [Folios -> Objects \cup {None}]
      /\ \A g \in Folios : own2[g] = IF g = f THEN p ELSE own[g]
  BY <1>0, <1>4 DEF StoreShape, NewFolio
<1>6. own[f] = None /\ f # BootFolio
  BY <1>0, ObjectFacts DEF OwnOK
<1>7. OwnOK(ty2, own2)
  <2>1. own2[BootFolio] = Root
    BY <1>0, <1>5, <1>6, ObjectFacts DEF OwnOK
  <2>2. ASSUME NEW g \in Folios PROVE ty2[FolioOid(g)] = "void" <=> own2[g] = None
    <3>1. CASE g = f
      BY <1>1, <1>4, <1>5, <3>1, ObjectFacts
    <3>2. CASE g # f
      <4>1. ty2[FolioOid(g)] = ty[FolioOid(g)] /\ own2[g] = own[g]
        BY <1>1, <1>5, <3>2, ObjectFacts
      <4> QED BY <1>0, <4>1 DEF OwnOK
    <3> QED BY <3>1, <3>2
  <2>3. \A g \in Folios : own2[g] # None => own2[g] \in Live(ty2)
    BY <1>0, <1>3, <1>5 DEF OwnOK
  <2>4. \A o \in Objects : ty2[o] # "void" => own2[o[1]] # None
    BY <1>0, <1>2, <1>4, <1>5, ObjectFacts DEF OwnOK
  <2> QED BY <2>1, <2>2, <2>3, <2>4 DEF OwnOK
<1>8. ParOK(ty2, par) /\ ChlOK(ty2, par, chl)
  BY <1>0, <1>3 DEF ParOK, ChlOK
<1>9. AcyclicOK(ty2, own2, par)
  <2> SUFFICES ASSUME NEW S \in SUBSET (Live(ty2) \ {Root}), S # {}
               PROVE  \E x \in S : ~Goes(ty2, own2, par, x, S)
    BY DEF AcyclicOK
  <2>1. PICK x \in S : ~Goes(ty, own, par, x, S)
    BY <1>0, <1>3 DEF AcyclicOK
  <2>2. x \in Objects /\ ty[x] # "void" /\ x[1] \in Folios
    BY <1>3, ObjectFacts DEF Live
  <2>3. x[1] # f
    BY <1>0, <1>6, <2>2 DEF OwnOK
  <2>4. ty2[x] = ty[x] /\ own2[x[1]] = own[x[1]]
    BY <1>2, <1>5, <2>2, <2>3
  <2>5. ~Goes(ty2, own2, par, x, S)
    BY <2>1, <2>4 DEF Goes
  <2> QED BY <2>5
<1>10. /\ fol2 \in [Objects -> Seq(Folios)]
       /\ FolOK(own2, fol2)
  <2>1. \A a \in Objects : fol2[a] = IF a = p THEN <<f>> \o fol[a] ELSE fol[a]
    BY <1>0, <1>4 DEF StoreShape, NewFolio
  <2>2. DOMAIN fol2 = Objects /\ fol2 = [a \in Objects |-> fol2[a]]
    BY <1>0 DEF StoreShape, NewFolio
  <2>3. ASSUME NEW a \in Objects
        PROVE  /\ fol2[a] \in Seq(Folios) /\ NoDuplicates(fol2[a])
               /\ Elems(fol2[a]) = {g \in Folios : own2[g] = a}
    <3>1. NoDuplicates(fol[a]) /\ Elems(fol[a]) = {g \in Folios : own[g] = a} /\ fol[a] \in Seq(Folios)
      BY <1>0 DEF FolOK, StoreShape
    <3>2. a # None
      BY ObjectFacts
    <3>4. CASE a = p
      <4>1. f \notin Elems(fol[a])
        BY <1>6, <3>1, <3>2
      <4>2. /\ <<f>> \o fol[a] \in Seq(Folios) /\ NoDuplicates(<<f>> \o fol[a])
            /\ Elems(<<f>> \o fol[a]) = Elems(fol[a]) \cup {f}
        BY <3>1, <4>1, ConsFacts
      <4>3. {g \in Folios : own2[g] = a} = {g \in Folios : own[g] = a} \cup {f}
        BY <1>5, <3>4
      <4>4. fol2[a] = <<f>> \o fol[a]
        BY <2>1, <3>4
      <4> QED BY <3>1, <4>2, <4>3, <4>4
    <3>5. CASE a # p
      <4>1. {g \in Folios : own2[g] = a} = {g \in Folios : own[g] = a}
        BY <1>5, <1>6, <3>2, <3>5
      <4>2. fol2[a] = fol[a]
        BY <2>1, <3>5
      <4> QED BY <3>1, <4>1, <4>2
    <3> QED BY <3>4, <3>5
  <2>4. fol2 \in [Objects -> Seq(Folios)]
    BY <2>2, <2>3
  <2> QED BY <2>3, <2>4 DEF FolOK
<1>11. cnt2 = [a \in Objects |-> cnt[a] + IF a \in Anc(par, p) THEN 1 ELSE 0]
  BY DEF NewFolio
<1>12. CntOK(ty2, own2, par, cnt2)
  <2> SUFFICES ASSUME NEW a \in Live(ty) PROVE cnt2[a] = Cardinality(Paid(own2, par, a))
    BY <1>3 DEF CntOK
  <2>1. a \in Objects /\ cnt[a] = Cardinality(Paid(own, par, a)) /\ cnt[a] \in Int
    BY <1>0 DEF CntOK, Live, StoreShape
  <2>2. f \notin Paid(own, par, a) /\ IsFiniteSet(Paid(own, par, a))
    BY <1>6, PaidFinite DEF Paid
  <2>3. CASE a \in Anc(par, p)
    <3>1. Paid(own2, par, a) = Paid(own, par, a) \cup {f}
      BY <1>4, <1>5, <1>6, <2>3 DEF Paid
    <3>2. Cardinality(Paid(own, par, a) \cup {f}) = Cardinality(Paid(own, par, a)) + 1
      BY <2>2, FS_AddElement
    <3>3. cnt2[a] = cnt[a] + 1
      BY <1>11, <2>1, <2>3
    <3> QED BY <2>1, <3>1, <3>2, <3>3
  <2>4. CASE a \notin Anc(par, p)
    <3>1. Paid(own2, par, a) = Paid(own, par, a)
      BY <1>5, <1>6, <2>4 DEF Paid
    <3>2. cnt2[a] = cnt[a]
      BY <1>11, <2>1, <2>4
    <3> QED BY <2>1, <3>1, <3>2
  <2> QED BY <2>3, <2>4
<1>13. cnt2 \in [Objects -> Int]
  <2>1. \A a \in Objects : cnt[a] + (IF a \in Anc(par, p) THEN 1 ELSE 0) \in Int
    BY <1>0 DEF StoreShape
  <2> QED BY <1>11, <2>1
<1>14. StoreShape(ty2, own2, par, fol2, chl, cnt2)
  BY <1>0, <1>1, <1>5, <1>10, <1>13 DEF StoreShape
<1> QED BY <1>0, <1>7, <1>8, <1>9, <1>10, <1>12, <1>14 DEF Tree

-----------------------------------------------------------------------------
Doom(ty, own, par, S) ==
    {o \in Objects : \A T \in SUBSET Objects :
        S \subseteq T /\ (\A x \in Objects : Goes(ty, own, par, x, T) => x \in T) => o \in T}

LEMMA DoomClosed ==
  ASSUME NEW ty, NEW own, NEW par, NEW S \in SUBSET Objects
  PROVE  /\ S \subseteq Doom(ty, own, par, S) /\ Doom(ty, own, par, S) \subseteq Objects
         /\ \A x \in Objects : Goes(ty, own, par, x, Doom(ty, own, par, S)) => x \in Doom(ty, own, par, S)
<1>1. S \subseteq Doom(ty, own, par, S) /\ Doom(ty, own, par, S) \subseteq Objects
  BY DEF Doom
<1>2. ASSUME NEW x \in Objects, Goes(ty, own, par, x, Doom(ty, own, par, S))
      PROVE  x \in Doom(ty, own, par, S)
  <2> SUFFICES ASSUME NEW T \in SUBSET Objects, S \subseteq T,
                      \A y \in Objects : Goes(ty, own, par, y, T) => y \in T
               PROVE  x \in T
    BY <1>2 DEF Doom
  <2>1. Doom(ty, own, par, S) \subseteq T
    BY DEF Doom
  <2>2. Goes(ty, own, par, x, T)
    BY <1>2, <2>1 DEF Goes
  <2> QED BY <2>2
<1> QED BY <1>1, <1>2

LEMMA DoomLeast ==
  ASSUME NEW ty, NEW own, NEW par, NEW S, NEW T \in SUBSET Objects, S \subseteq T,
         \A y \in Objects : Goes(ty, own, par, y, T) => y \in T
  PROVE  Doom(ty, own, par, S) \subseteq T
BY DEF Doom

\* What goes with an activity does not take the activity with it.
LEMMA NoCircle ==
  ASSUME NEW ty, NEW own, NEW par, NEW fol, NEW chl, NEW cnt, Tree(ty, own, par, fol, chl, cnt),
         NEW a \in Live(ty), a # Root
  PROVE  a \notin Doom(ty, own, par, {o \in Objects : Goes(ty, own, par, o, {a})})
<1> DEFINE U == {o \in Objects : Goes(ty, own, par, o, {a})}
           D == Doom(ty, own, par, U)
           S == {x \in Live(ty) \ {Root} : x \in D /\ a \in Doom(ty, own, par, {x})}
<1>0. OwnOK(ty, own) /\ ParOK(ty, par) /\ AcyclicOK(ty, own, par)
      /\ StoreShape(ty, own, par, fol, chl, cnt)
  BY DEF Tree
<1> SUFFICES ASSUME a \in D PROVE FALSE
  OBVIOUS
<1>1. a \in Objects /\ U \in SUBSET Objects
  BY DEF Live
<1>2. U \subseteq D /\ D \subseteq Objects
  <2> HIDE DEF U
  <2> QED BY <1>1, DoomClosed
<1>3. \A x \in Objects : Goes(ty, own, par, x, D) => x \in D
  <2> HIDE DEF U
  <2> QED BY <1>1, DoomClosed
<1>4. Root \notin D
  <2>1. \A T \in SUBSET Objects : Root \notin T => ~Goes(ty, own, par, Root, T)
    BY <1>0, ObjectFacts DEF Goes, ParOK, OwnOK
  <2>2. {a} \in SUBSET Objects /\ Root \notin {a}
    BY <1>1
  <2>3. Root \notin U
    BY <2>1, <2>2
  <2> DEFINE T == Objects \ {Root}
  <2>4. T \in SUBSET Objects /\ U \subseteq T /\ Root \notin T
    BY <1>1, <2>3
  <2>5. \A y \in Objects : Goes(ty, own, par, y, T) => y \in T
    BY <2>1, <2>4
  <2> HIDE DEF U, T
  <2>6. D \subseteq T
    BY <2>4, <2>5, DoomLeast
  <2> QED BY <2>4, <2>6
<1>5. a \in S
  <2>1. a \in Doom(ty, own, par, {a})
    BY <1>1 DEF Doom
  <2> HIDE DEF D
  <2> QED BY <2>1
<1>6. S \in SUBSET (Live(ty) \ {Root}) /\ S # {}
  BY <1>5
<1> HIDE DEF D, U
<1>7. PICK o \in S : ~Goes(ty, own, par, o, S)
  BY <1>0, <1>6 DEF AcyclicOK
<1>8. o \in Objects /\ o \in D /\ a \in Doom(ty, own, par, {o}) /\ o # Root /\ ty[o] = "activity_control"
  BY <1>7 DEF Live
<1>9. PICK x \in D : Goes(ty, own, par, o, {x})
  <2>1. CASE o \in U
    BY <2>1 DEF U
  <2>2. CASE o \notin U
    <3> SUFFICES ASSUME \A x \in D : ~Goes(ty, own, par, o, {x}) PROVE FALSE
      OBVIOUS
    <3> DEFINE T == D \ {o}
    <3>1. ~Goes(ty, own, par, o, D)
      BY DEF Goes
    <3>2. \A y \in Objects : Goes(ty, own, par, y, T) => y \in T
      <4> SUFFICES ASSUME NEW y \in Objects, Goes(ty, own, par, y, T) PROVE y \in T
        OBVIOUS
      <4>1. Goes(ty, own, par, y, D)
        BY DEF Goes
      <4> QED BY <1>3, <3>1, <4>1
    <3>3. T \in SUBSET Objects /\ U \subseteq T
      BY <1>2, <2>2
    <3>4. D \subseteq T
      <4> HIDE DEF T
      <4> QED BY <3>2, <3>3, DoomLeast DEF D
    <3> QED BY <1>8, <3>4
  <2> QED BY <2>1, <2>2
<1>10. x \in Live(ty) /\ x # Root
  <2>1. x \in Objects
    BY <1>2
  <2>2. par[o] = x => x \in Live(ty)
    BY <1>0, <1>8 DEF ParOK, Live
  <2>3. own[o[1]] = x => x \in Live(ty)
    BY <1>0, <1>8, <2>1, ObjectFacts DEF OwnOK
  <2> QED BY <1>4, <1>9, <2>2, <2>3 DEF Goes
<1>11. a \in Doom(ty, own, par, {x})
  <2>1. x \in Objects /\ {x} \in SUBSET Objects
    BY <1>2
  <2> DEFINE E == Doom(ty, own, par, {x})
  <2>2. x \in E /\ E \in SUBSET Objects
    BY <2>1, DoomClosed
  <2>3. \A y \in Objects : Goes(ty, own, par, y, E) => y \in E
    BY <2>1, DoomClosed
  <2> HIDE DEF E
  <2>4. Goes(ty, own, par, o, E)
    BY <1>9, <2>2 DEF Goes
  <2>5. {o} \subseteq E
    BY <1>8, <2>3, <2>4
  <2>6. Doom(ty, own, par, {o}) \subseteq E
    BY <2>2, <2>3, <2>5, DoomLeast
  <2> QED BY <1>8, <2>6 DEF E
<1>12. x \in S
  BY <1>10, <1>11
<1> QED BY <1>7, <1>9, <1>12 DEF Goes

-----------------------------------------------------------------------------
TreeInv == Tree(type, owner, parent, folios, children, folio_count)

LEMMA AncestorsAre == \A a : Ancestors(a) = Anc(parent, a)
BY DEF Ancestors, Anc

LEMMA DoomedAre == \A S : Doomed(S) = Doom(type, owner, parent, S)
BY DEF Doomed, Doom, GoesWith, Goes, IsActivity

LEMMA InitTree == Init => TreeInv
<1> SUFFICES ASSUME Init PROVE TreeInv
  OBVIOUS
<1>1. /\ type = [o \in Oids |-> IF o = FolioOid(BootFolio) THEN "folio"
                                ELSE IF o = Root THEN "activity_control" ELSE "void"]
      /\ owner = [f \in Folios |-> IF f = BootFolio THEN Root ELSE None]
      /\ folios = [o \in Objects |-> IF o = Root THEN <<BootFolio>> ELSE <<>>]
      /\ parent = [o \in Objects |-> None]
      /\ children = [o \in Objects |-> <<>>]
      /\ folio_count = [o \in Objects |-> 0]
  BY DEF Init
<1>2. \A o \in Objects : type[o] = IF o = Root THEN "activity_control" ELSE "void"
  BY <1>1, ObjectFacts
<1>3. Live(type) = {Root}
  BY <1>2, ObjectFacts DEF Live
<1>4. StoreShape(type, owner, parent, folios, children, folio_count)
  <2>1. type \in [Oids -> {"void", "page", "activity_control", "folio"}]
    BY <1>1
  <2>2. owner \in [Folios -> Objects \cup {None}] /\ parent \in [Objects -> Objects \cup {None}]
    BY <1>1, ObjectFacts
  <2>3. <<BootFolio>> \in Seq(Folios) /\ <<>> \in Seq(Folios) /\ <<>> \in Seq(Objects)
    BY ObjectFacts
  <2>4. folios \in [Objects -> Seq(Folios)] /\ children \in [Objects -> Seq(Objects)]
    BY <1>1, <2>3
  <2>5. folio_count \in [Objects -> Int]
    BY <1>1
  <2> QED BY <2>1, <2>2, <2>4, <2>5 DEF StoreShape
<1>5. OwnOK(type, owner)
  <2>1. ASSUME NEW f \in Folios PROVE type[FolioOid(f)] = "void" <=> owner[f] = None
    <3>1. FolioOid(f) \in Oids /\ FolioOid(f) # Root
            /\ (FolioOid(f) = FolioOid(BootFolio) <=> f = BootFolio)
          /\ Root # None
      BY ObjectFacts
    <3>2. CASE f = BootFolio
      BY <1>1, <3>1, <3>2
    <3>3. CASE f # BootFolio
      BY <1>1, <3>1, <3>3
    <3> QED BY <3>2, <3>3
  <2>2. \A f \in Folios : owner[f] # None => owner[f] \in Live(type)
    BY <1>1, <1>3
  <2>3. \A o \in Objects : type[o] # "void" => owner[o[1]] # None
    BY <1>1, <1>2, ObjectFacts
  <2> QED BY <1>1, <2>1, <2>2, <2>3, ObjectFacts DEF OwnOK
<1>6. ParOK(type, parent)
  BY <1>1, <1>3, ObjectFacts DEF ParOK
<1>7. AcyclicOK(type, owner, parent)
  BY <1>3 DEF AcyclicOK
<1>8. FolOK(owner, folios)
  <2> SUFFICES ASSUME NEW a \in Objects
               PROVE  NoDuplicates(folios[a]) /\ Elems(folios[a]) = {f \in Folios : owner[f] = a}
    BY DEF FolOK
  <2>1. CASE a = Root
    <3>1. folios[a] = <<BootFolio>> /\ DOMAIN <<BootFolio>> = {1} /\ <<BootFolio>>[1] = BootFolio
      BY <1>1, <2>1
    <3>2. NoDuplicates(folios[a])
      BY <3>1 DEF NoDuplicates
    <3>3. Elems(folios[a]) = {BootFolio}
      BY <3>1 DEF Elems
    <3>4. {f \in Folios : owner[f] = a} = {BootFolio}
      BY <1>1, <2>1, ObjectFacts
    <3> QED BY <3>2, <3>3, <3>4
  <2>2. CASE a # Root
    <3>1. folios[a] = <<>> /\ NoDuplicates(<<>>) /\ Elems(<<>>) = {}
      BY <1>1, <2>2 DEF NoDuplicates, Elems
    <3>2. {f \in Folios : owner[f] = a} = {}
      BY <1>1, <2>2, ObjectFacts
    <3> QED BY <3>1, <3>2
  <2> QED BY <2>1, <2>2
<1>9. ChlOK(type, parent, children)
  <2> SUFFICES ASSUME NEW a \in Objects
               PROVE  NoDuplicates(children[a]) /\ Elems(children[a]) = {c \in Live(type) : parent[c] = a}
    BY DEF ChlOK
  <2>1. children[a] = <<>> /\ NoDuplicates(<<>>) /\ Elems(<<>>) = {}
    BY <1>1 DEF NoDuplicates, Elems
  <2>2. {c \in Live(type) : parent[c] = a} = {}
    BY <1>1, <1>3, ObjectFacts
  <2> QED BY <2>1, <2>2
<1>10. CntOK(type, owner, parent, folio_count)
  <2> SUFFICES ASSUME NEW a \in Objects PROVE folio_count[a] = Cardinality(Paid(owner, parent, a))
    BY DEF CntOK, Live
  <2>1. Paid(owner, parent, a) = {}
    BY <1>1 DEF Paid
  <2> QED BY <1>1, <2>1, FS_EmptySet
<1> QED BY <1>4, <1>5, <1>6, <1>7, <1>8, <1>9, <1>10 DEF TreeInv, Tree

\* What freeing does, in terms of the tree.
LEMMA FreeIs ==
  ASSUME NEW gone, NEW freed, Free(gone, freed)
  PROVE  /\ AfterTypes(type, TypeAfter(gone, freed), gone, freed)
         /\ AfterFree(owner, parent, folios, children, folio_count, owner', ParentAfter(gone), folios',
                      ListAfter(children, gone, gone), folio_count', gone, freed)
<1>1. AfterTypes(type, TypeAfter(gone, freed), gone, freed)
  <2>1. \A o \in Oids : o \in Existing(gone, freed) <=> \/ o \in gone /\ type[o] # "void"
                                                       \/ \E f \in freed : o = FolioOid(f)
    BY DEF Existing
  <2> QED BY <2>1 DEF AfterTypes, TypeAfter
<1>2. \A a : ShareOf(owner, parent, freed, a) = {f \in freed : a \in Ancestors(owner[f])}
  BY AncestorsAre DEF ShareOf
<1>3. folio_count' = [a \in Objects |-> IF a \in gone THEN 0
                        ELSE folio_count[a] - Cardinality(ShareOf(owner, parent, freed, a))]
  BY <1>2 DEF Free, CountAfter
<1>4. owner' = [f \in Folios |-> IF f \in freed THEN None ELSE owner[f]]
  BY DEF Free
<1>5. ParentAfter(gone) = [a \in Objects |-> IF a \in gone THEN None ELSE parent[a]]
  BY DEF ParentAfter
<1>6. folios' = [a \in Objects |-> IF a \in gone THEN <<>> ELSE Without(folios[a], freed)]
  BY DEF Free, ListAfter
<1>7. ListAfter(children, gone, gone)
        = [a \in Objects |-> IF a \in gone THEN <<>> ELSE Without(children[a], gone)]
  BY DEF ListAfter
<1> QED BY <1>1, <1>3, <1>4, <1>5, <1>6, <1>7 DEF AfterFree

\* The folio of a valid capability is not free.
LEMMA Designated ==
  ASSUME Inv, TreeInv, NEW s \in Slots, NEW f \in Folios, DesignatesFolio(s, f)
  PROVE  owner[f] # None /\ owner[f] \in Live(type)
<1>1. cap[s].oid = FolioOid(f) /\ cap[s].type # "void" /\ version[FolioOid(f)] = cap[s].version
  BY DEF DesignatesFolio, Valid
<1>2. cap[s].version \in Nat
  BY DEF Inv, CapsTyped
<1>3. type[FolioOid(f)] = "void" => cap[s].version < version[FolioOid(f)]
  BY <1>1 DEF Inv, CapsBehind, Behind
<1>4. type[FolioOid(f)] # "void"
  BY <1>1, <1>2, <1>3
<1>5. OwnOK(type, owner)
  BY DEF TreeInv, Tree
<1> QED BY <1>4, <1>5 DEF OwnOK

LEMMA FolioFreeTree ==
  ASSUME Inv, TreeInv, NEW p, NEW s \in Slots, FolioFree(p, s)
  PROVE  TreeInv'
<1>1. PICK f \in Folios :
        LET S == {o \in Objects : o[1] = f /\ type[o] # "void"}
            gone == Doomed(S)
            freed == {f} \cup FoliosOf(gone)
        IN  /\ DesignatesFolio(s, f) /\ MayFree(p, gone, freed)
            /\ Free(gone, freed)
            /\ type' = TypeAfter(gone, freed)
            /\ parent' = ParentAfter(gone)
            /\ children' = ListAfter(children, gone, gone)
  BY DEF FolioFree
<1> DEFINE S == {o \in Objects : o[1] = f /\ type[o] # "void"}
           gone == Doomed(S)
           freed == {f} \cup FoliosOf(gone)
<1>2. /\ DesignatesFolio(s, f) /\ MayFree(p, gone, freed)
      /\ Free(gone, freed)
      /\ type' = TypeAfter(gone, freed)
      /\ parent' = ParentAfter(gone)
      /\ children' = ListAfter(children, gone, gone)
  BY <1>1
<1>3. S \in SUBSET Objects /\ gone = Doom(type, owner, parent, S)
  BY DoomedAre
<1>4. S \subseteq gone /\ gone \subseteq Objects
  <2> HIDE DEF S
  <2> QED BY <1>3, DoomClosed
<1>5. \A x \in Objects : Goes(type, owner, parent, x, gone) => x \in gone
  <2> HIDE DEF S
  <2> QED BY <1>3, DoomClosed
<1>6. owner[f] # None
  BY <1>2, Designated
<1>7. Root \notin gone
  <2> HIDE DEF gone, freed
  <2> QED BY <1>2 DEF MayFree
<1>8. \A o \in Objects : o[1] = f /\ type[o] # "void" => o \in gone
  <2> HIDE DEF gone
  <2> QED BY <1>4
<1> HIDE DEF gone, S
<1>9. Leaves(type, owner, parent, gone, freed)
  <2>1. freed \in SUBSET Folios /\ \A g \in freed : g = f \/ owner[g] \in gone
    BY DEF FoliosOf
  <2>2. \A g \in Folios : owner[g] \in gone => g \in freed
    BY DEF FoliosOf
  <2>3. \A g \in freed : owner[g] # None
    BY <1>4, <1>6, <2>1, ObjectFacts
  <2>4. ASSUME NEW o \in Objects, type[o] # "void", o[1] \in freed PROVE o \in gone
    <3>1. CASE o[1] = f
      BY <1>8, <2>4, <3>1
    <3>2. CASE owner[o[1]] \in gone
      BY <1>5, <2>4, <3>2 DEF Goes
    <3> QED BY <2>1, <2>4, <3>1, <3>2
  <2> QED BY <1>4, <1>5, <1>7, <2>1, <2>2, <2>3, <2>4 DEF Leaves
<1> HIDE DEF freed
<1>10. /\ AfterTypes(type, type', gone, freed)
       /\ AfterFree(owner, parent, folios, children, folio_count, owner', parent', folios',
                    children', folio_count', gone, freed)
  BY <1>2, FreeIs
<1>11. Tree(type, owner, parent, folios, children, folio_count)
  BY DEF TreeInv
<1>12. Tree(type', owner', parent', folios', children', folio_count')
  BY <1>9, <1>10, <1>11, FreeTree
<1> QED BY <1>12 DEF TreeInv

LEMMA FolioObjectAllocTree ==
  ASSUME Inv, TreeInv, NEW p \in LiveActivities, NEW s \in Slots, NEW i \in Indices, NEW t \in Types,
         NEW r, NEW weak, FolioObjectAlloc(p, s, i, t, r, weak)
  PROVE  TreeInv'
<1>1. PICK f \in Folios :
        LET o == <<f, i>>
            gone == Doomed({o})
            freed == FoliosOf(gone)
            rest == ListAfter(children, gone, gone)
        IN  /\ DesignatesFolio(s, f) /\ MayFree(p, gone, freed)
            /\ Free(gone, freed)
            /\ type' = [TypeAfter(gone, freed) EXCEPT ![o] = t]
            /\ parent' = [ParentAfter(gone) EXCEPT ![o] = IF t = "activity_control" THEN p ELSE None]
            /\ children' = IF t = "activity_control" THEN ChildrenWith(rest, p, o) ELSE rest
  BY DEF FolioObjectAlloc
<1> DEFINE o == <<f, i>>
           gone == Doomed({o})
           freed == FoliosOf(gone)
           ty == TypeAfter(gone, freed)
           par == ParentAfter(gone)
           chl == ListAfter(children, gone, gone)
<1>2. /\ DesignatesFolio(s, f) /\ MayFree(p, gone, freed)
      /\ Free(gone, freed)
      /\ type' = [ty EXCEPT ![o] = t]
      /\ parent' = [par EXCEPT ![o] = IF t = "activity_control" THEN p ELSE None]
      /\ children' = IF t = "activity_control" THEN [chl EXCEPT ![p] = <<o>> \o @] ELSE chl
  BY <1>1 DEF ChildrenWith
<1>3. o \in Objects /\ o[1] = f
  BY ObjectFacts
<1> HIDE DEF o
<1>4. {o} \in SUBSET Objects /\ gone = Doom(type, owner, parent, {o})
  BY <1>3, DoomedAre
<1>5. o \in gone /\ gone \subseteq Objects
  BY <1>4, DoomClosed
<1>6. \A x \in Objects : Goes(type, owner, parent, x, gone) => x \in gone
  BY <1>4, DoomClosed
<1>7. Root \notin gone /\ p \notin gone
  <2> HIDE DEF gone, freed
  <2> QED BY <1>2 DEF MayFree
<1>8. owner[f] # None /\ owner[f] \in Live(type)
  BY <1>2, Designated
<1>11. Tree(type, owner, parent, folios, children, folio_count)
  BY DEF TreeInv
<1>12. OwnOK(type, owner) /\ ParOK(type, parent)
  BY <1>11 DEF Tree
<1>13. owner[f] \notin gone
  <2> DEFINE a == owner[f]
             U == {x \in Objects : Goes(type, owner, parent, x, {a})}
  <2>1. CASE a = Root
    BY <1>7, <2>1
  <2>2. CASE a # Root /\ type[o] # "void"
    <3>1. a \notin Doom(type, owner, parent, U)
      BY <1>8, <1>11, <2>2, NoCircle
    <3>2. o \in U /\ U \in SUBSET Objects
      BY <1>3, <2>2 DEF Goes
    <3> HIDE DEF U
    <3> DEFINE E == Doom(type, owner, parent, U)
    <3>3. U \subseteq E /\ E \in SUBSET Objects /\ \A x \in Objects :
            Goes(type, owner, parent, x, E) => x \in E
      BY <3>2, DoomClosed
    <3> HIDE DEF E
    <3>4. {o} \subseteq E
      BY <3>2, <3>3
    <3>5. Doom(type, owner, parent, {o}) \subseteq E
      BY <3>3, <3>4, DoomLeast
    <3> QED BY <1>4, <3>1, <3>5 DEF E
  <2>3. CASE type[o] = "void"
    <3>1. o \notin Live(type)
      BY <2>3 DEF Live
    <3>2. \A x \in Objects : parent[x] # o
      BY <1>12, <3>1, <1>3, ObjectFacts DEF ParOK
    <3>3. \A x \in Objects : owner[x[1]] # o
      BY <1>12, <1>3, <3>1, ObjectFacts DEF OwnOK
    <3>4. \A x \in Objects : ~Goes(type, owner, parent, x, {o})
      BY <3>2, <3>3 DEF Goes
    <3>5. Doom(type, owner, parent, {o}) \subseteq {o}
      <4> DEFINE T == {o}
      <4>1. T \in SUBSET Objects /\ {o} \subseteq T /\ \A x \in Objects :
              Goes(type, owner, parent, x, T) => x \in T
        BY <1>3, <3>4
      <4> HIDE DEF T
      <4>2. Doom(type, owner, parent, {o}) \subseteq T
        BY <4>1, DoomLeast
      <4> QED BY <4>2 DEF T
    <3> QED BY <1>4, <1>8, <3>1, <3>5
  <2> QED BY <2>1, <2>2, <2>3
<1> HIDE DEF gone
<1>9. Leaves(type, owner, parent, gone, freed)
  <2>1. freed \in SUBSET Folios /\ \A g \in freed : owner[g] \in gone
    BY DEF FoliosOf
  <2>2. \A g \in Folios : owner[g] \in gone => g \in freed
    BY DEF FoliosOf
  <2>3. \A g \in freed : owner[g] # None
    BY <1>5, <2>1, ObjectFacts
  <2>4. \A x \in Objects : type[x] # "void" /\ x[1] \in freed => x \in gone
    BY <1>6, <2>1 DEF Goes
  <2> QED BY <1>5, <1>6, <1>7, <2>1, <2>2, <2>3, <2>4 DEF Leaves
<1>14. f \notin freed
  BY <1>13 DEF FoliosOf
<1> HIDE DEF freed
<1>10. /\ AfterTypes(type, ty, gone, freed)
       /\ AfterFree(owner, parent, folios, children, folio_count, owner', par, folios',
                    chl, folio_count', gone, freed)
  BY <1>2, FreeIs
<1>15. ty[o] = "void" /\ ty[p] = type[p]
  <2>1. o \in Oids /\ p \in Oids /\ p \in Objects
    BY <1>3, ObjectFacts DEF LiveActivities
  <2>2. type[o] = "void" \/ o \in Existing(gone, freed)
    BY <1>5 DEF Existing
  <2>3. p \notin Existing(gone, freed)
    <3>1. freed \subseteq Folios
      BY <1>9 DEF Leaves
    <3> QED BY <1>7, <2>1, <3>1, ObjectFacts DEF Existing
  <2> QED BY <2>1, <2>2, <2>3 DEF TypeAfter
<1>16. owner'[f] # None
  BY <1>2, <1>8, <1>14 DEF Free
<1>17. folio_count'[o] = 0 /\ par[o] = None /\ par \in [Objects -> Objects \cup {None}]
  <2>1. parent \in [Objects -> Objects \cup {None}]
    BY <1>11 DEF Tree, StoreShape
  <2> QED BY <1>2, <1>3, <1>5, <2>1 DEF Free, CountAfter, ParentAfter
<1>18. p \in Live(ty)
  BY <1>15 DEF Live, LiveActivities, IsActivity
<1> HIDE DEF ty, par, chl
<1>19. Tree(ty, owner', par, folios', chl, folio_count')
  BY <1>9, <1>10, <1>11, FreeTree
<1>20. CASE t = "activity_control"
  <2>1. NewActivity(ty, par, chl, o, p, type', parent', children')
    BY <1>2, <1>20 DEF NewActivity
  <2>2. owner'[o[1]] # None
    BY <1>3, <1>16
  <2>3. Tree(type', owner', parent', folios', children', folio_count')
    BY <1>3, <1>15, <1>17, <1>18, <1>19, <2>1, <2>2, CreateTree
  <2> QED BY <2>3 DEF TreeInv
<1>21. CASE t # "activity_control"
  <2>1. t \in {"void", "page"}
    BY <1>21, StoreAssumption
  <2>2. parent' = par
    BY <1>2, <1>3, <1>17, <1>21
  <2>3. children' = chl /\ type' = [ty EXCEPT ![o] = t]
    BY <1>2, <1>21
  <2>4. owner'[o[1]] # None
    BY <1>3, <1>16
  <2>5. Tree(type', owner', par, folios', chl, folio_count')
    BY <1>3, <1>15, <1>19, <2>1, <2>3, <2>4, PutTree
  <2> QED BY <2>2, <2>3, <2>5 DEF TreeInv
<1> QED BY <1>20, <1>21

LEMMA FolioAllocTree ==
  ASSUME TreeInv, NEW p \in LiveActivities, NEW s, FolioAlloc(p, s)
  PROVE  TreeInv'
<1>1. PICK f \in Folios :
       /\ folio_count' = Add(Ancestors(p), 1)
       /\ type[FolioOid(f)] = "void"
       /\ type' = [type EXCEPT ![FolioOid(f)] = "folio"]
       /\ owner' = [owner EXCEPT ![f] = p]
       /\ folios' = [folios EXCEPT ![p] = <<f>> \o @]
       /\ UNCHANGED <<parent, children>>
  BY DEF FolioAlloc
<1>2. p \in Live(type)
  BY DEF LiveActivities, Live, IsActivity
<1>3. folio_count' = [a \in Objects |-> folio_count[a] + IF a \in Anc(parent, p) THEN 1 ELSE 0]
  BY <1>1, AncestorsAre DEF Add
<1>4. NewFolio(type, owner, parent, folios, folio_count, f, p, type', owner', folios', folio_count')
  BY <1>1, <1>3 DEF NewFolio
<1>5. Tree(type, owner, parent, folios, children, folio_count)
  BY DEF TreeInv
<1>6. Tree(type', owner', parent, folios', children, folio_count')
  BY <1>1, <1>2, <1>4, <1>5, FolioTree
<1> QED BY <1>1, <1>6 DEF TreeInv

\* folio_alloc credits again whom it charged.
LEMMA DeniedCount ==
  ASSUME folio_count \in [Objects -> Int], NEW p, FolioAllocDenied(p)
  PROVE  folio_count' = folio_count
<1>1. folio_count' = [a \in Objects |-> Add(Charged(p), 1)[a] - IF a \in Charged(p) THEN 1 ELSE 0]
  BY DEF FolioAllocDenied, Refunded
<1>2. ASSUME NEW a \in Objects
      PROVE  Add(Charged(p), 1)[a] - (IF a \in Charged(p) THEN 1 ELSE 0) = folio_count[a]
  <2>1. Add(Charged(p), 1)[a] = folio_count[a] + IF a \in Charged(p) THEN 1 ELSE 0
    BY DEF Add
  <2>2. folio_count[a] \in Int
    OBVIOUS
  <2> QED BY <2>1, <2>2
<1> QED BY <1>1, <1>2

LEMMA TreeStep ==
  ASSUME Inv, TreeInv, Next
  PROVE  TreeInv'
<1>1. PICK p \in LiveActivities : Call(p)
  BY DEF Next
<1>2. CASE UNCHANGED <<type, owner, parent, folios, children, folio_count>>
  BY <1>2 DEF TreeInv
<1>3. CASE FolioAllocDenied(p)
  <2>1. folio_count' = folio_count
    BY <1>3, DeniedCount DEF TreeInv, Tree, StoreShape
  <2> QED BY <1>2, <1>3, <2>1 DEF FolioAllocDenied, storage
<1>4. CASE \E q \in Quotas : ActivityPolicy(p, q)
  BY <1>2, <1>4 DEF ActivityPolicy, storage
<1>5. ASSUME NEW s \in Slots, NEW r \in Slots, NEW weak \in Weakening,
             CapRubout(s) \/ CapClear(s) \/ CapCopy(s, r, weak)
      PROVE  TreeInv'
  BY <1>2, <1>5 DEF CapRubout, CapClear, CapCopy, storage, activities
<1>6. ASSUME NEW s \in Slots, CapRubout(s) \/ CapClear(s)
      PROVE  TreeInv'
  BY <1>2, <1>6 DEF CapRubout, CapClear, storage, activities
<1>7. ASSUME NEW s \in Slots, FolioAlloc(p, s) PROVE TreeInv'
  BY <1>7, FolioAllocTree
<1>8. ASSUME NEW s \in Slots, FolioFree(p, s) PROVE TreeInv'
  BY <1>8, FolioFreeTree
<1>9. ASSUME NEW s \in Slots, NEW r \in Slots, NEW weak \in Weakening, NEW i \in Indices,
             NEW t \in Types, FolioObjectAlloc(p, s, i, t, r, weak)
      PROVE  TreeInv'
  BY <1>9, FolioObjectAllocTree
<1> QED BY <1>1, <1>3, <1>4, <1>5, <1>6, <1>7, <1>8, <1>9 DEF Call

LEMMA TreeInvOK == TreeInv => TreeOK
<1> SUFFICES ASSUME TreeInv PROVE TreeOK
  OBVIOUS
<1>1. Tree(type, owner, parent, folios, children, folio_count)
  BY DEF TreeInv
<1>2. /\ StoreShape(type, owner, parent, folios, children, folio_count)
      /\ OwnOK(type, owner) /\ ParOK(type, parent)
      /\ FolOK(owner, folios) /\ ChlOK(type, parent, children)
      /\ CntOK(type, owner, parent, folio_count)
  BY <1>1 DEF Tree
<1>3. LiveActivities = Live(type)
  BY DEF LiveActivities, Live, IsActivity
<1>4. ListsComplete
  <2> SUFFICES ASSUME NEW a \in Objects
      PROVE /\ NoDuplicates(folios[a]) /\ NoDuplicates(children[a])
            /\ {folios[a][n] : n \in DOMAIN folios[a]} = {f \in Folios : owner[f] = a}
            /\ {children[a][n] : n \in DOMAIN children[a]} = {c \in LiveActivities : parent[c] = a}
            /\ ~IsActivity(a) => folios[a] = <<>> /\ children[a] = <<>>
    BY DEF ListsComplete
  <2>1. NoDuplicates(folios[a]) /\ Elems(folios[a]) = {f \in Folios : owner[f] = a}
    BY <1>2 DEF FolOK
  <2>2. NoDuplicates(children[a]) /\ Elems(children[a]) = {c \in Live(type) : parent[c] = a}
    BY <1>2 DEF ChlOK
  <2>3. ASSUME NEW S, NEW q \in Seq(S), Elems(q) = {} PROVE q = <<>>
    <3>1. q # <<>> => 1 \in DOMAIN q
      OBVIOUS
    <3> QED BY <2>3, <3>1 DEF Elems
  <2>4. ASSUME ~IsActivity(a) PROVE folios[a] = <<>> /\ children[a] = <<>>
    <3>1. a \notin Live(type)
      BY <2>4 DEF IsActivity, Live
    <3>2. {f \in Folios : owner[f] = a} = {}
      BY <1>2, <3>1, ObjectFacts DEF OwnOK
    <3>3. {c \in Live(type) : parent[c] = a} = {}
      BY <1>2, <3>1, ObjectFacts DEF ParOK
    <3>4. folios[a] \in Seq(Folios) /\ children[a] \in Seq(Objects)
      BY <1>2 DEF StoreShape
    <3> QED BY <2>1, <2>2, <2>3, <3>2, <3>3, <3>4
  <2> QED BY <1>3, <2>1, <2>2, <2>4 DEF Elems
<1>5. FolioCount
  <2> SUFFICES ASSUME NEW a \in Live(type)
               PROVE  folio_count[a] = Cardinality({f \in Folios \ {BootFolio} :
                                          owner[f] # None /\ a \in Ancestors(owner[f])})
    BY <1>3 DEF FolioCount
  <2>1. Paid(owner, parent, a) = {f \in Folios \ {BootFolio} : owner[f] # None
          /\ a \in Ancestors(owner[f])}
    BY AncestorsAre DEF Paid
  <2> QED BY <1>2, <2>1 DEF CntOK
<1>6. NoReentry
  <2> SUFFICES ASSUME NEW a \in Live(type) \ {Root}
               PROVE  a \notin Doomed({o \in Objects : GoesWith(o, {a})})
    BY <1>3 DEF NoReentry
  <2>1. {o \in Objects : GoesWith(o, {a})} = {o \in Objects : Goes(type, owner, parent, o, {a})}
    BY DEF GoesWith, Goes, IsActivity
  <2>2. a \notin Doom(type, owner, parent, {o \in Objects : Goes(type, owner, parent, o, {a})})
    BY <1>1, NoCircle
  <2> QED BY <2>1, <2>2, DoomedAre
<1> QED BY <1>4, <1>5, <1>6 DEF TreeOK

\* As long as versions do not overflow, the lists and counts of the activities
\* agree with the tree after any recursive destruction, and no destruction
\* comes back to the activity that it destroys.
THEOREM TreeKept == ASSUME MaxVersion < VersionLimit PROVE Spec => []TreeOK
<1>1. Inv /\ TreeInv /\ [Next]_vars => TreeInv'
  <2>1. TreeInv /\ UNCHANGED vars => TreeInv'
    BY DEF TreeInv, vars, activities
  <2> QED BY <2>1, TreeStep
<1> QED BY <1>1, InitTree, TreeInvOK, Invariance, PTL DEF Spec

-----------------------------------------------------------------------------
CountsTyped == folio_count \in [Objects -> Int] /\ quota \in [Objects -> Nat]

KeepsQuota == \A a \in Objects : folio_count'[a] > folio_count[a] =>
                  quota[a] = 0 \/ folio_count'[a] <= quota[a]

LEMMA SameCounts ==
  ASSUME CountsTyped, folio_count' = folio_count, quota' \in [Objects -> Nat]
  PROVE  CountsTyped' /\ KeepsQuota
<1>1. \A a \in Objects : ~(folio_count[a] > folio_count[a])
  BY DEF CountsTyped
<1> QED BY <1>1 DEF CountsTyped, KeepsQuota

LEMMA FreeCounts ==
  ASSUME CountsTyped, NEW gone, NEW freed \in SUBSET Folios, Free(gone, freed)
  PROVE  CountsTyped' /\ KeepsQuota
<1>1. ASSUME NEW a PROVE Cardinality({f \in freed : a \in Ancestors(owner[f])}) \in Nat
  <2>1. IsFiniteSet({f \in freed : a \in Ancestors(owner[f])})
    BY StoreAssumption, FS_Subset
  <2> QED BY <2>1, FS_CardinalityType
<1> DEFINE k(a) == Cardinality({f \in freed : a \in Ancestors(owner[f])})
<1>2. folio_count' = [a \in Objects |-> IF a \in gone THEN 0 ELSE folio_count[a] - k(a)]
  BY DEF Free, CountAfter
<1>3. \A a : k(a) \in Nat
  BY <1>1
<1> HIDE DEF k
<1>4. \A a \in Objects : folio_count[a] \in Int /\ folio_count[a] - k(a) \in Int
                         /\ folio_count[a] - k(a) <= folio_count[a]
  BY <1>3 DEF CountsTyped
<1>5. folio_count' \in [Objects -> Int] /\ \A a \in Objects :
        folio_count'[a] = IF a \in gone THEN 0 ELSE folio_count[a] - k(a)
  BY <1>2, <1>4
<1>6. quota' \in [Objects -> Nat] /\ quota \in [Objects -> Nat]
  BY DEF Free, CountsTyped
<1>7. KeepsQuota
  BY <1>4, <1>5, <1>6 DEF KeepsQuota
<1> QED BY <1>5, <1>6, <1>7 DEF CountsTyped

LEMMA CountsStep ==
  ASSUME CountsTyped, Next
  PROVE  CountsTyped' /\ KeepsQuota
<1>1. PICK p \in LiveActivities : Call(p)
  BY DEF Next
<1>2. CASE UNCHANGED <<folio_count, quota>>
  BY <1>2, SameCounts DEF CountsTyped
<1>3. CASE FolioAllocDenied(p)
  <2>1. folio_count' = folio_count
    BY <1>3, DeniedCount DEF CountsTyped
  <2> QED BY <1>2, <1>3, <2>1 DEF FolioAllocDenied
<1>4. ASSUME NEW q \in Quotas, ActivityPolicy(p, q) PROVE CountsTyped' /\ KeepsQuota
  <2>1. folio_count' = folio_count /\ quota' = [quota EXCEPT ![p] = q]
    BY <1>4 DEF ActivityPolicy
  <2>2. quota' \in [Objects -> Nat]
    BY <2>1, StoreAssumption DEF CountsTyped
  <2> QED BY <2>1, <2>2, SameCounts
<1>5. ASSUME NEW s \in Slots, NEW r \in Slots, NEW weak \in Weakening, CapCopy(s, r, weak)
      PROVE  CountsTyped' /\ KeepsQuota
  BY <1>2, <1>5 DEF CapCopy, activities
<1>6. ASSUME NEW s \in Slots, CapRubout(s) \/ CapClear(s)
      PROVE  CountsTyped' /\ KeepsQuota
  BY <1>2, <1>6 DEF CapRubout, CapClear, activities
<1>7. ASSUME NEW s \in Slots, FolioAlloc(p, s) PROVE CountsTyped' /\ KeepsQuota
  <2>1. /\ \A a \in Ancestors(p) : ~Exhausted(a)
        /\ folio_count' = [a \in Objects |-> folio_count[a] + IF a \in Ancestors(p) THEN 1 ELSE 0]
        /\ quota' = quota
    BY <1>7 DEF FolioAlloc, Allowed, Add
  <2>2. \A a \in Objects : folio_count[a] \in Int /\ quota[a] \in Nat
    BY DEF CountsTyped
  <2>3. folio_count' \in [Objects -> Int]
    BY <2>1, <2>2
  <2>4. ASSUME NEW a \in Objects, folio_count'[a] > folio_count[a]
        PROVE  quota[a] = 0 \/ folio_count'[a] <= quota[a]
    <3>1. a \in Ancestors(p) /\ folio_count'[a] = folio_count[a] + 1
      BY <2>1, <2>2, <2>4
    <3>2. ~Exhausted(a)
      BY <2>1, <3>1
    <3> QED BY <2>2, <3>1, <3>2 DEF Exhausted
  <2> QED BY <2>1, <2>3, <2>4 DEF CountsTyped, KeepsQuota
<1>8. ASSUME NEW s \in Slots, FolioFree(p, s) PROVE CountsTyped' /\ KeepsQuota
  <2>0. \A gone : \A f \in Folios : {f} \cup FoliosOf(gone) \in SUBSET Folios
    BY DEF FoliosOf
  <2>1. PICK gone, freed : freed \in SUBSET Folios /\ Free(gone, freed)
    BY <1>8, <2>0 DEF FolioFree
  <2> QED BY <2>1, FreeCounts
<1>9. ASSUME NEW s \in Slots, NEW r \in Slots, NEW weak \in Weakening, NEW i \in Indices,
             NEW t \in Types, FolioObjectAlloc(p, s, i, t, r, weak)
      PROVE  CountsTyped' /\ KeepsQuota
  <2>0. \A gone : FoliosOf(gone) \in SUBSET Folios
    BY DEF FoliosOf
  <2>1. PICK gone, freed : freed \in SUBSET Folios /\ Free(gone, freed)
    BY <1>9, <2>0 DEF FolioObjectAlloc
  <2> QED BY <2>1, FreeCounts
<1> QED BY <1>1, <1>3, <1>4, <1>5, <1>6, <1>7, <1>8, <1>9 DEF Call

\* Whoever allocates a folio, no activity is taken beyond its quota.
THEOREM QuotaHolds == Spec => QuotaKept
<1>1. Init => CountsTyped
  BY DEF Init, CountsTyped
<1>2. CountsTyped /\ [Next]_vars => CountsTyped' /\ KeepsQuota
  <2>1. CountsTyped /\ UNCHANGED vars => UNCHANGED <<folio_count, quota>> /\ quota' \in [Objects -> Nat]
    BY DEF vars, activities, CountsTyped
  <2> QED BY <2>1, CountsStep, SameCounts
<1> QED BY <1>1, <1>2, PTL DEF Spec, QuotaKept, KeepsQuota
=============================================================================
