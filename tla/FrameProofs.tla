----------------------------- MODULE FrameProofs -----------------------------
(***************************************************************************)
(* Theorems about the accounting of frames, for any finite sets of frames  *)
(* and activities, any tree of activities and any policies; and about the  *)
(* order in which activities are asked to give up memory.                  *)
(*                                                                         *)
(* A handler passes a record of the state along (Now, Becomes), and the    *)
(* invariant is stated of such a record: Good says that lists, pools,      *)
(* owners and counters agree with the descriptors of the frames.  Every    *)
(* function of the code that moves a frame then has one lemma, by which it *)
(* takes a good record to a good one and touches no other frame.           *)
(***************************************************************************)
EXTENDS Frames, PagerSelect, FiniteSetTheorems, SequenceTheorems, WellFoundedInduction, TLAPS

-----------------------------------------------------------------------------
(***************************************************************************)
(* Sums.                                                                   *)
(***************************************************************************)
Pairs(n, S) == UNION {{b} \X (1..n[b]) : b \in S}

LEMMA PairsFinite ==
  ASSUME NEW n \in [Activities -> Nat], NEW S \in SUBSET Activities
  PROVE  IsFiniteSet(Pairs(n, S))
<1> DEFINE g == [b \in S |-> {b} \X (1..n[b])]
           T == {{b} \X (1..n[b]) : b \in S}
<1>1. IsFiniteSet(S)
  BY FramesAssumption, FS_Subset
<1>2. g \in Surjection(S, T)
  <2>1. \A b \in S : g[b] = {b} \X (1..n[b])
    OBVIOUS
  <2>2. g \in [S -> T]
    OBVIOUS
  <2> QED BY <2>1, <2>2 DEF Surjection
<1>3. IsFiniteSet(T)
  <2> HIDE DEF g, T
  <2> QED BY <1>1, <1>2, FS_Surjection
<1>4. \A U \in T : IsFiniteSet(U)
  <2>1. ASSUME NEW b \in S PROVE IsFiniteSet({b} \X (1..n[b]))
    <3>0. n[b] \in Int /\ 1 \in Int
      OBVIOUS
    <3>1. IsFiniteSet({b}) /\ IsFiniteSet(1..n[b])
      BY <3>0, FS_Singleton, FS_Interval
    <3> QED BY <3>1, FS_Product
  <2> QED BY <2>1
<1> HIDE DEF T
<1>5. IsFiniteSet(UNION T)
  BY <1>3, <1>4, FS_UNION
<1> QED BY <1>5 DEF T, Pairs

LEMMA TotalNat ==
  ASSUME NEW n \in [Activities -> Nat], NEW S \in SUBSET Activities
  PROVE  Total(n, S) \in Nat
BY PairsFinite, FS_CardinalityType DEF Total, Pairs

\* One summand taken apart.
LEMMA TotalSplit ==
  ASSUME NEW n \in [Activities -> Nat], NEW S \in SUBSET Activities, NEW b \in S
  PROVE  Total(n, S) = Total(n, S \ {b}) + n[b]
<1> DEFINE P == Pairs(n, S \ {b})
           Q == {b} \X (1..n[b])
<1>1. Pairs(n, S) = P \cup Q
  BY DEF Pairs
<1>2. P \cap Q = {}
  BY DEF Pairs
<1>3. IsFiniteSet(P)
  BY PairsFinite
<1>4. IsFiniteSet(Q) /\ Cardinality(Q) = n[b]
  <2>1. IsFiniteSet({b}) /\ Cardinality({b}) = 1
    BY FS_Singleton
  <2>2. n[b] \in Nat
    OBVIOUS
  <2>3. IsFiniteSet(1..n[b]) /\ Cardinality(1..n[b]) = n[b]
    BY <2>2, FS_Interval
  <2>4. IsFiniteSet(Q) /\ Cardinality(Q) = Cardinality({b}) * Cardinality(1..n[b])
    BY <2>1, <2>3, FS_Product
  <2> QED BY <2>1, <2>2, <2>3, <2>4
<1> HIDE DEF P, Q
<1>5. Cardinality(P \cup Q) = Cardinality(P) + Cardinality(Q) - 0
  <2>1. Cardinality(P \cap Q) = 0
    BY <1>2, FS_EmptySet
  <2> QED BY <1>3, <1>4, <2>1, FS_Union
<1>6. Cardinality(P) \in Nat /\ n[b] \in Nat
  BY <1>3, FS_CardinalityType
<1>7. Total(n, S) = Cardinality(P) + n[b]
  <2>1. Total(n, S) = Cardinality(Pairs(n, S))
    BY DEF Total, Pairs
  <2> QED BY <1>1, <1>4, <1>5, <1>6, <2>1
<1> QED BY <1>7 DEF P, Total, Pairs

LEMMA TotalSame ==
  ASSUME NEW n, NEW m, NEW S, \A b \in S : m[b] = n[b]
  PROVE  Total(m, S) = Total(n, S)
<1>1. \A b \in S : {b} \X (1..m[b]) = {b} \X (1..n[b])
  OBVIOUS
<1>2. {{b} \X (1..m[b]) : b \in S} = {{b} \X (1..n[b]) : b \in S}
  BY <1>1
<1> QED BY <1>2 DEF Total

\* Summands of zero do not matter.
LEMMA TotalZero ==
  ASSUME NEW n \in [Activities -> Nat], NEW S \in SUBSET Activities, NEW T \in SUBSET S,
         \A b \in S \ T : n[b] = 0
  PROVE  Total(n, S) = Total(n, T)
<1>1. ASSUME NEW b \in S \ T PROVE {b} \X (1..n[b]) = {}
  <2>1. n[b] = 0
    OBVIOUS
  <2>2. 1..n[b] = {}
    BY <2>1
  <2> QED BY <2>2
<1>2. Pairs(n, S) = Pairs(n, T)
  BY <1>1 DEF Pairs
<1> QED BY <1>2 DEF Total, Pairs

\* One summand changes.
LEMMA TotalChange ==
  ASSUME NEW n \in [Activities -> Nat], NEW m \in [Activities -> Nat],
         NEW S \in SUBSET Activities, NEW b \in Activities,
         \A c \in Activities : c # b => m[c] = n[c]
  PROVE  /\ b \in S => Total(m, S) = Total(n, S) + (m[b] - n[b])
         /\ b \notin S => Total(m, S) = Total(n, S)
<1>1. ASSUME b \in S PROVE Total(m, S) = Total(n, S) + (m[b] - n[b])
  <2>1. Total(n, S) = Total(n, S \ {b}) + n[b] /\ Total(m, S) = Total(m, S \ {b}) + m[b]
    BY <1>1, TotalSplit
  <2>2. Total(m, S \ {b}) = Total(n, S \ {b})
    BY TotalSame
  <2>3. Total(n, S \ {b}) \in Nat /\ n[b] \in Nat /\ m[b] \in Nat
    BY TotalNat
  <2> QED BY <2>1, <2>2, <2>3
<1>2. ASSUME b \notin S PROVE Total(m, S) = Total(n, S)
  BY <1>2, TotalSame
<1> QED BY <1>1, <1>2

-----------------------------------------------------------------------------
(***************************************************************************)
(* The tree of activities.                                                 *)
(***************************************************************************)
Under(a) == {b \in Activities : a \in Above[b]}

LEMMA AboveFacts ==
  ASSUME NEW a \in Activities
  PROVE  a \in Above[a] /\ Above[a] \in SUBSET Activities /\ Under(a) \in SUBSET Activities
BY DEF Above, Under

\* Nobody but itself is under an activity without children.
LEMMA LeafUnder ==
  ASSUME NEW v \in Activities, \A b \in Activities : Parent[b] # v
  PROVE  Under(v) = {v}
<1>1. ASSUME NEW b \in Activities, b # v PROVE v \notin Above[b]
  <2> DEFINE S == Activities \ {v}
  <2>1. S \in SUBSET Activities /\ b \in S /\ v \notin S
    BY <1>1
  <2>2. \A c \in S : Parent[c] # None => Parent[c] \in S
    BY FramesAssumption
  <2> HIDE DEF S
  <2> QED BY <2>1, <2>2 DEF Above
<1> QED BY <1>1, AboveFacts DEF Under

\* What is above an activity is itself or above its parent.
LEMMA ParentAbove ==
  ASSUME NEW v \in Activities, Parent[v] # None, NEW a \in Activities, a # v
  PROVE  a \in Above[v] <=> a \in Above[Parent[v]]
<1> DEFINE p == Parent[v]
           Closed(S) == \A c \in S : Parent[c] # None => Parent[c] \in S
<1>1. p \in Activities
  BY FramesAssumption
<1>2. \A b, x \in Activities : x \in Above[b] <=> \A S \in SUBSET Activities : b \in S /\ Closed(S) =>
        x \in S
  BY DEF Above
<1>3. ASSUME a \in Above[v] PROVE a \in Above[p]
  <2>1. ASSUME NEW S \in SUBSET Activities, p \in S, Closed(S) PROVE a \in S
    <3> DEFINE T == S \cup {v}
    <3>1. T \in SUBSET Activities /\ v \in T /\ Closed(T)
      BY <2>1
    <3> HIDE DEF Closed
    <3>2. a \in T
      BY <1>2, <1>3, <3>1
    <3> QED BY <3>2
  <2> HIDE DEF Closed
  <2> QED BY <1>1, <1>2, <2>1
<1>4. ASSUME a \in Above[p] PROVE a \in Above[v]
  <2>1. ASSUME NEW S \in SUBSET Activities, v \in S, Closed(S) PROVE a \in S
    <3>1. p \in S
      BY <2>1
    <3> HIDE DEF Closed
    <3> QED BY <1>1, <1>2, <1>4, <2>1, <3>1
  <2> HIDE DEF Closed
  <2> QED BY <1>2, <2>1
<1> QED BY <1>3, <1>4

-----------------------------------------------------------------------------
(***************************************************************************)
(* The counters.  M[a] is the set of frames that activity a pays for, Q[a] *)
(* that of its dirty candidates.                                           *)
(***************************************************************************)
Acts == [frames_local : Int, frames_total : Int, frames_pending_eviction : Int,
         frames_excluded : Int, free_goal : Nat, free_allocations : Nat,
         free_initial_allocation : Nat, free_bad_karma : Nat]
ActMaps == [Activities -> Acts]
Holdings == [Activities -> SUBSET Frames]

Sizes(M) == [b \in Activities |-> Cardinality(M[b])]

Charged(A, M) ==
    \A a \in Activities :
        A[a].frames_local = Cardinality(M[a]) /\ A[a].frames_total = Total(Sizes(M), Under(a))

Waiting(A, Q) ==
    \A a \in Activities : A[a].frames_pending_eviction = Total(Sizes(Q), Under(a))

\* The frames that are excluded from collection on account of an activity.
Grants(A) ==
    [b \in Activities |-> IF A[b].free_allocations = 0 THEN 0 ELSE A[b].free_initial_allocation]

Graced(A) ==
    \A a \in Activities :
        /\ A[a].frames_excluded = Total(Grants(A), Under(a))
        /\ A[a].free_allocations = 0 <=> A[a].free_goal = 0
        /\ A[a].free_allocations # 0 => A[a].free_bad_karma = 0

\* Two states of the counters that differ only in one of these respects.
SameCharges(A, B) ==
    \A a \in Activities : B[a].frames_local = A[a].frames_local /\ B[a].frames_total = A[a].frames_total
SamePending(A, B) ==
    \A a \in Activities : B[a].frames_pending_eviction = A[a].frames_pending_eviction
SameGrace(A, B) ==
    \A a \in Activities :
        /\ B[a].frames_excluded = A[a].frames_excluded
        /\ B[a].free_goal = A[a].free_goal /\ B[a].free_allocations = A[a].free_allocations
        /\ B[a].free_initial_allocation = A[a].free_initial_allocation
        /\ B[a].free_bad_karma = A[a].free_bad_karma

LEMMA SizesNat ==
  ASSUME NEW M \in Holdings
  PROVE  /\ Sizes(M) \in [Activities -> Nat]
         /\ \A a \in Activities : IsFiniteSet(M[a]) /\ Sizes(M)[a] = Cardinality(M[a])
<1>1. \A a \in Activities : IsFiniteSet(M[a])
  BY FramesAssumption, FS_Subset DEF Holdings
<1> QED BY <1>1, FS_CardinalityType DEF Sizes

LEMMA ChargeIs ==
  ASSUME NEW A \in ActMaps, NEW a \in Activities, NEW n \in Int
  PROVE  LET B == Charge(A, a, n)
         IN  /\ B \in ActMaps /\ SamePending(A, B) /\ SameGrace(A, B)
             /\ \A x \in Activities :
                   /\ B[x].frames_local = IF x = a THEN A[x].frames_local + n ELSE A[x].frames_local
                   /\ B[x].frames_total =
                         IF x \in Above[a] THEN A[x].frames_total + n ELSE A[x].frames_total
<1> DEFINE B == Charge(A, a, n)
<1>1. ASSUME NEW x \in Activities
      PROVE  /\ B[x] \in Acts
             /\ B[x].frames_local = IF x = a THEN A[x].frames_local + n ELSE A[x].frames_local
             /\ B[x].frames_total =
                   IF x \in Above[a] THEN A[x].frames_total + n ELSE A[x].frames_total
             /\ B[x].frames_pending_eviction = A[x].frames_pending_eviction
             /\ B[x].frames_excluded = A[x].frames_excluded
             /\ B[x].free_goal = A[x].free_goal /\ B[x].free_allocations = A[x].free_allocations
             /\ B[x].free_initial_allocation = A[x].free_initial_allocation
             /\ B[x].free_bad_karma = A[x].free_bad_karma
  <2> DEFINE r == A[x]
             n1 == IF x = a THEN r.frames_local + n ELSE r.frames_local
             n2 == IF x \in Above[a] THEN r.frames_total + n ELSE r.frames_total
  <2>1. r \in Acts
    BY DEF ActMaps
  <2>2. B[x] = [r EXCEPT !.frames_local = n1, !.frames_total = n2]
    BY DEF Charge
  <2>3. n1 \in Int /\ n2 \in Int
    BY <2>1 DEF Acts
  <2> HIDE DEF r, n1, n2, B
  <2>4. /\ B[x] \in Acts /\ B[x].frames_local = n1 /\ B[x].frames_total = n2
        /\ B[x].frames_pending_eviction = r.frames_pending_eviction
        /\ B[x].frames_excluded = r.frames_excluded
        /\ B[x].free_goal = r.free_goal /\ B[x].free_allocations = r.free_allocations
        /\ B[x].free_initial_allocation = r.free_initial_allocation
        /\ B[x].free_bad_karma = r.free_bad_karma
    BY <2>1, <2>2, <2>3 DEF Acts
  <2> QED BY <2>4 DEF r, n1, n2
<1>2. B = [x \in Activities |-> B[x]]
  BY DEF Charge
<1> HIDE DEF B
<1>3. B \in ActMaps
  BY <1>1, <1>2 DEF ActMaps
<1>4. SamePending(A, B) /\ SameGrace(A, B)
  BY <1>1 DEF SamePending, SameGrace
<1> QED BY <1>1, <1>3, <1>4 DEF B

LEMMA PendingIs ==
  ASSUME NEW A \in ActMaps, NEW a \in Activities, NEW n \in Int
  PROVE  LET B == Pending(A, a, n)
         IN  /\ B \in ActMaps /\ SameCharges(A, B) /\ SameGrace(A, B)
             /\ \A x \in Activities :
                   B[x].frames_pending_eviction =
                       IF x \in Above[a] THEN A[x].frames_pending_eviction + n
                       ELSE A[x].frames_pending_eviction
BY DEF Pending, ActMaps, Acts, SameCharges, SameGrace

LEMMA ExcludeIs ==
  ASSUME NEW A \in ActMaps, NEW a \in Activities, NEW n \in Int
  PROVE  LET B == Exclude(A, a, n)
         IN  /\ B \in ActMaps /\ SameCharges(A, B) /\ SamePending(A, B)
             /\ \A x \in Activities :
                   /\ B[x].frames_excluded =
                         IF x \in Above[a] THEN A[x].frames_excluded + n ELSE A[x].frames_excluded
                   /\ B[x].free_goal = A[x].free_goal /\ B[x].free_allocations = A[x].free_allocations
                   /\ B[x].free_initial_allocation = A[x].free_initial_allocation
                   /\ B[x].free_bad_karma = A[x].free_bad_karma
BY DEF Exclude, ActMaps, Acts, SameCharges, SamePending

\* The size of one holding changes.
LEMMA HoldingChange ==
  ASSUME NEW M \in Holdings, NEW N \in Holdings, NEW a \in Activities, NEW k \in Int,
         \A b \in Activities : b # a => N[b] = M[b], Cardinality(N[a]) = Cardinality(M[a]) + k,
         NEW x \in Activities
  PROVE  Total(Sizes(N), Under(x)) =
             IF x \in Above[a] THEN Total(Sizes(M), Under(x)) + k ELSE Total(Sizes(M), Under(x))
<1>1. Sizes(M) \in [Activities -> Nat] /\ Sizes(N) \in [Activities -> Nat]
  BY SizesNat
<1>2. Sizes(N)[a] - Sizes(M)[a] = k /\ \A b \in Activities : b # a => Sizes(N)[b] = Sizes(M)[b]
  <2>1. Sizes(N)[a] = Cardinality(N[a]) /\ Sizes(M)[a] = Cardinality(M[a])
    BY SizesNat
  <2>2. Sizes(M)[a] \in Nat
    BY <1>1
  <2>3. Sizes(N)[a] - Sizes(M)[a] = k
    BY <2>1, <2>2
  <2> QED BY <2>3 DEF Sizes
<1>3. Under(x) \in SUBSET Activities /\ (a \in Under(x) <=> x \in Above[a])
  BY AboveFacts DEF Under
<1> QED BY <1>1, <1>2, <1>3, TotalChange

LEMMA ChargeBy ==
  ASSUME NEW A \in ActMaps, NEW M \in Holdings, NEW N \in Holdings, Charged(A, M),
         NEW a \in Activities, NEW k \in Int,
         \A b \in Activities : b # a => N[b] = M[b], Cardinality(N[a]) = Cardinality(M[a]) + k
  PROVE  Charged(Charge(A, a, k), N)
<1> DEFINE B == Charge(A, a, k)
<1>1. \A x \in Activities :
         /\ B[x].frames_local = IF x = a THEN A[x].frames_local + k ELSE A[x].frames_local
         /\ B[x].frames_total = IF x \in Above[a] THEN A[x].frames_total + k ELSE A[x].frames_total
  BY ChargeIs
<1>2. \A x \in Activities : Total(Sizes(N), Under(x)) =
         IF x \in Above[a] THEN Total(Sizes(M), Under(x)) + k ELSE Total(Sizes(M), Under(x))
  BY HoldingChange
<1> HIDE DEF B
<1>3. Charged(B, N)
  BY <1>1, <1>2 DEF Charged
<1> QED BY <1>3 DEF B

LEMMA PendBy ==
  ASSUME NEW A \in ActMaps, NEW M \in Holdings, NEW N \in Holdings, Waiting(A, M),
         NEW a \in Activities, NEW k \in Int,
         \A b \in Activities : b # a => N[b] = M[b], Cardinality(N[a]) = Cardinality(M[a]) + k
  PROVE  Waiting(Pending(A, a, k), N)
<1> DEFINE B == Pending(A, a, k)
<1>1. \A x \in Activities : B[x].frames_pending_eviction =
         IF x \in Above[a] THEN A[x].frames_pending_eviction + k ELSE A[x].frames_pending_eviction
  BY PendingIs
<1>2. \A x \in Activities : Total(Sizes(N), Under(x)) =
         IF x \in Above[a] THEN Total(Sizes(M), Under(x)) + k ELSE Total(Sizes(M), Under(x))
  BY HoldingChange
<1> HIDE DEF B
<1>3. Waiting(B, N)
  BY <1>1, <1>2 DEF Waiting
<1> QED BY <1>3 DEF B

LEMMA SameKeeps ==
  ASSUME NEW A, NEW B, NEW M
  PROVE  /\ Charged(A, M) /\ SameCharges(A, B) => Charged(B, M)
         /\ Waiting(A, M) /\ SamePending(A, B) => Waiting(B, M)
         /\ Graced(A) /\ SameGrace(A, B) => Graced(B)
<1>1. Charged(A, M) /\ SameCharges(A, B) => Charged(B, M)
  BY DEF Charged, SameCharges
<1>2. Waiting(A, M) /\ SamePending(A, B) => Waiting(B, M)
  BY DEF Waiting, SamePending
<1>3. ASSUME Graced(A), SameGrace(A, B) PROVE Graced(B)
  <2>1. Grants(B) = Grants(A)
    BY <1>3 DEF Grants, SameGrace
  <2> QED BY <1>3, <2>1 DEF Graced, SameGrace
<1> QED BY <1>1, <1>2, <1>3

-----------------------------------------------------------------------------
(***************************************************************************)
(* The grace period of activities that were asked to free memory.          *)
(***************************************************************************)
GrantOf(r) == IF r.free_allocations = 0 THEN 0 ELSE r.free_initial_allocation
AskedWell(r) ==
    (r.free_allocations = 0 <=> r.free_goal = 0) /\ (r.free_allocations # 0 => r.free_bad_karma = 0)

LEMMA GrantsNat ==
  ASSUME NEW A \in ActMaps
  PROVE  Grants(A) \in [Activities -> Nat] /\ \A a \in Activities : Grants(A)[a] = GrantOf(A[a])
BY DEF Grants, GrantOf, ActMaps, Acts

\* One record changes, and the exclusions of those above it by as much.
LEMMA GraceChange ==
  ASSUME NEW A \in ActMaps, NEW B \in ActMaps, Graced(A), NEW a \in Activities, NEW k \in Int,
         \A x \in Activities : x # a => GrantOf(B[x]) = GrantOf(A[x]) /\ AskedWell(B[x]),
         GrantOf(B[a]) = GrantOf(A[a]) + k, AskedWell(B[a]),
         \A x \in Activities :
             B[x].frames_excluded = IF x \in Above[a] THEN A[x].frames_excluded + k
                                    ELSE A[x].frames_excluded
  PROVE  Graced(B)
<1>1. Grants(A) \in [Activities -> Nat] /\ Grants(B) \in [Activities -> Nat]
  BY GrantsNat
<1>2. /\ \A x \in Activities : x # a => Grants(B)[x] = Grants(A)[x]
      /\ Grants(B)[a] - Grants(A)[a] = k
  <2>1. Grants(B)[a] = GrantOf(B[a]) /\ Grants(A)[a] = GrantOf(A[a]) /\ Grants(A)[a] \in Nat
    BY <1>1, GrantsNat
  <2>2. Grants(B)[a] - Grants(A)[a] = k
    BY <2>1
  <2> QED BY <2>2, GrantsNat
<1>3. ASSUME NEW x \in Activities PROVE B[x].frames_excluded = Total(Grants(B), Under(x))
  <2>1. Under(x) \in SUBSET Activities /\ (a \in Under(x) <=> x \in Above[a])
    BY AboveFacts DEF Under
  <2>2. /\ a \in Under(x) => Total(Grants(B), Under(x)) = Total(Grants(A), Under(x)) + k
        /\ a \notin Under(x) => Total(Grants(B), Under(x)) = Total(Grants(A), Under(x))
    BY <1>1, <1>2, <2>1, TotalChange
  <2> QED BY <2>1, <2>2 DEF Graced
<1>4. \A x \in Activities : AskedWell(B[x])
  OBVIOUS
<1> QED BY <1>3, <1>4 DEF Graced, AskedWell

LEMMA GracedWell ==
  ASSUME NEW A, Graced(A), NEW a \in Activities
  PROVE  AskedWell(A[a])
BY DEF Graced, AskedWell

Harmless(A, B) ==
    B \in ActMaps /\ SameCharges(A, B) /\ SamePending(A, B) /\ (Graced(A) => Graced(B))

LEMMA SameHarmless == ASSUME NEW A \in ActMaps PROVE Harmless(A, A)
BY DEF Harmless, SameCharges, SamePending

\* A record of the counters is replaced, and k more are excluded.
LEMMA ReplaceExclude ==
  ASSUME NEW A \in ActMaps, NEW a \in Activities, NEW r \in Acts, NEW k \in Int,
         r.frames_local = A[a].frames_local, r.frames_total = A[a].frames_total,
         r.frames_pending_eviction = A[a].frames_pending_eviction,
         r.frames_excluded = A[a].frames_excluded,
         Graced(A) => GrantOf(r) = GrantOf(A[a]) + k /\ AskedWell(r)
  PROVE  Harmless(A, Exclude([A EXCEPT ![a] = r], a, k))
<1> DEFINE C == [A EXCEPT ![a] = r]
           B == Exclude(C, a, k)
<1>1. C \in ActMaps /\ C[a] = r /\ \A x \in Activities : x # a => C[x] = A[x]
  BY DEF ActMaps
<1> HIDE DEF C
<1>2. /\ B \in ActMaps /\ SameCharges(C, B) /\ SamePending(C, B)
      /\ \A x \in Activities :
            /\ B[x].frames_excluded =
                  IF x \in Above[a] THEN C[x].frames_excluded + k ELSE C[x].frames_excluded
            /\ B[x].free_goal = C[x].free_goal /\ B[x].free_allocations = C[x].free_allocations
            /\ B[x].free_initial_allocation = C[x].free_initial_allocation
            /\ B[x].free_bad_karma = C[x].free_bad_karma
  BY <1>1, ExcludeIs
<1> HIDE DEF B
<1>3. SameCharges(A, B) /\ SamePending(A, B)
  BY <1>1, <1>2 DEF SameCharges, SamePending
<1>4. ASSUME Graced(A) PROVE Graced(B)
  <2>1. \A x \in Activities : GrantOf(B[x]) = GrantOf(C[x]) /\ (AskedWell(C[x]) => AskedWell(B[x]))
    BY <1>2 DEF GrantOf, AskedWell
  <2>2. \A x \in Activities : x # a => GrantOf(B[x]) = GrantOf(A[x]) /\ AskedWell(B[x])
    BY <1>1, <1>4, <2>1, GracedWell
  <2>3. GrantOf(B[a]) = GrantOf(A[a]) + k /\ AskedWell(B[a])
    BY <1>1, <1>4, <2>1
  <2>4. \A x \in Activities : C[x].frames_excluded = A[x].frames_excluded
    BY <1>1
  <2>5. \A x \in Activities :
             B[x].frames_excluded = IF x \in Above[a] THEN A[x].frames_excluded + k
                                    ELSE A[x].frames_excluded
    BY <1>2, <2>4
  <2> QED BY <1>2, <1>4, <2>2, <2>3, <2>5, GraceChange
<1> QED BY <1>2, <1>3, <1>4 DEF Harmless, B, C

\* A record is replaced by one with the same grant.
LEMMA ReplaceKeep ==
  ASSUME NEW A \in ActMaps, NEW a \in Activities, NEW r \in Acts,
         r.frames_local = A[a].frames_local, r.frames_total = A[a].frames_total,
         r.frames_pending_eviction = A[a].frames_pending_eviction,
         r.frames_excluded = A[a].frames_excluded,
         Graced(A) => GrantOf(r) = GrantOf(A[a]) /\ AskedWell(r)
  PROVE  Harmless(A, [A EXCEPT ![a] = r])
<1> DEFINE B == [A EXCEPT ![a] = r]
<1>1. B \in ActMaps /\ B[a] = r /\ \A x \in Activities : x # a => B[x] = A[x]
  BY DEF ActMaps
<1> HIDE DEF B
<1>2. SameCharges(A, B) /\ SamePending(A, B)
  BY <1>1 DEF SameCharges, SamePending
<1>3. ASSUME Graced(A) PROVE Graced(B)
  <2>1. \A x \in Activities : x # a => GrantOf(B[x]) = GrantOf(A[x]) /\ AskedWell(B[x])
    BY <1>1, <1>3, GracedWell
  <2>2. GrantOf(A[a]) \in Int
    BY GrantsNat
  <2>3. GrantOf(B[a]) = GrantOf(A[a]) + 0 /\ AskedWell(B[a])
    BY <1>1, <1>3, <2>2
  <2>4. \A x \in Activities : A[x].frames_excluded \in Int
    BY DEF ActMaps, Acts
  <2>5. \A x \in Activities : B[x].frames_excluded = IF x \in Above[a] THEN A[x].frames_excluded + 0
                                                     ELSE A[x].frames_excluded
    BY <1>1, <2>4
  <2> QED BY <1>1, <1>3, <2>1, <2>3, <2>5, GraceChange
<1> QED BY <1>1, <1>2, <1>3 DEF Harmless, B

LEMMA MetGoalHarmless ==
  ASSUME NEW A \in ActMaps, NEW a \in Activities
  PROVE  Harmless(A, MetGoal(A, a))
<1> DEFINE r == A[a]
<1>0. r \in Acts
  BY DEF ActMaps
<1>1. CASE r.free_goal = 0
  BY <1>1, SameHarmless DEF MetGoal
<1>2. CASE r.free_goal > 1
  <2> DEFINE q == [r EXCEPT !.free_goal = @ - 1]
  <2>1. /\ q \in Acts /\ q.frames_local = r.frames_local /\ q.frames_total = r.frames_total
        /\ q.frames_pending_eviction = r.frames_pending_eviction
        /\ q.frames_excluded = r.frames_excluded
        /\ AskedWell(r) => GrantOf(q) = GrantOf(r) /\ AskedWell(q)
    BY <1>0, <1>2 DEF Acts, GrantOf, AskedWell
  <2>2. MetGoal(A, a) = [A EXCEPT ![a] = q]
    BY <1>0, <1>2 DEF MetGoal, ActMaps, Acts
  <2> HIDE DEF q
  <2> QED BY <2>1, <2>2, ReplaceKeep, GracedWell
<1>3. CASE r.free_goal = 1
  <2> DEFINE q == [r EXCEPT !.free_goal = 0, !.free_allocations = 0]
             k == 0 - r.free_initial_allocation
  <2>1. /\ q \in Acts /\ q.frames_local = r.frames_local /\ q.frames_total = r.frames_total
        /\ q.frames_pending_eviction = r.frames_pending_eviction
        /\ q.frames_excluded = r.frames_excluded /\ k \in Int
        /\ q.free_allocations = 0 /\ q.free_goal = 0
    <3>1. k \in Int
      BY <1>0 DEF Acts
    <3> HIDE DEF r, k
    <3> QED BY <1>0, <3>1 DEF Acts
  <2>3. AskedWell(r) => GrantOf(q) = GrantOf(r) + k /\ AskedWell(q)
    <3> HIDE DEF q, r
    <3>1. r.free_initial_allocation \in Nat
      BY <1>0 DEF Acts
    <3>2. GrantOf(q) = 0 /\ AskedWell(q)
      BY <2>1 DEF GrantOf, AskedWell
    <3>3. AskedWell(r) => GrantOf(r) = r.free_initial_allocation
      BY <1>3 DEF GrantOf, AskedWell
    <3> QED BY <3>1, <3>2, <3>3
  <2>2. MetGoal(A, a) = Exclude([A EXCEPT ![a] = q], a, k)
    BY <1>0, <1>3 DEF MetGoal, ActMaps
  <2> HIDE DEF q, k
  <2> QED BY <2>1, <2>2, <2>3, ReplaceExclude, GracedWell
<1>4. r.free_goal \in Nat
  BY <1>0 DEF Acts
<1> QED BY <1>1, <1>2, <1>3, <1>4

LEMMA UsedAllocationHarmless ==
  ASSUME NEW A \in ActMaps, NEW a \in Activities
  PROVE  Harmless(A, UsedAllocation(A, a))
<1> DEFINE r == A[a]
<1>0. r \in Acts /\ BadKarma \in Nat
  BY FramesAssumption DEF ActMaps
<1>1. CASE r.free_allocations = 0
  BY <1>1, SameHarmless DEF UsedAllocation
<1>2. CASE r.free_allocations > 1
  <2> DEFINE q == [r EXCEPT !.free_allocations = @ - 1]
  <2>1. /\ q \in Acts /\ q.frames_local = r.frames_local /\ q.frames_total = r.frames_total
        /\ q.frames_pending_eviction = r.frames_pending_eviction
        /\ q.frames_excluded = r.frames_excluded
        /\ AskedWell(r) => GrantOf(q) = GrantOf(r) /\ AskedWell(q)
    BY <1>0, <1>2 DEF Acts, GrantOf, AskedWell
  <2>2. UsedAllocation(A, a) = [A EXCEPT ![a] = q]
    BY <1>0, <1>2 DEF UsedAllocation, ActMaps, Acts
  <2> HIDE DEF q
  <2> QED BY <2>1, <2>2, ReplaceKeep, GracedWell
<1>3. CASE r.free_allocations = 1
  <2> DEFINE karma == IF A[a].free_goal # 0 THEN BadKarma ELSE A[a].free_bad_karma
             q == [r EXCEPT !.free_allocations = 0, !.free_goal = 0,
                            !.free_bad_karma = karma]
             k == 0 - r.free_initial_allocation
  <2>1. /\ q \in Acts /\ q.frames_local = r.frames_local /\ q.frames_total = r.frames_total
        /\ q.frames_pending_eviction = r.frames_pending_eviction
        /\ q.frames_excluded = r.frames_excluded /\ k \in Int
        /\ q.free_allocations = 0 /\ q.free_goal = 0
    <3>1. k \in Int /\ karma \in Nat
      BY <1>0 DEF Acts
    <3> HIDE DEF r, k, karma
    <3> QED BY <1>0, <3>1 DEF Acts
  <2>3. AskedWell(r) => GrantOf(q) = GrantOf(r) + k /\ AskedWell(q)
    <3> HIDE DEF q, r
    <3>1. r.free_initial_allocation \in Nat
      BY <1>0 DEF Acts
    <3>2. GrantOf(q) = 0 /\ AskedWell(q)
      BY <2>1 DEF GrantOf, AskedWell
    <3>3. AskedWell(r) => GrantOf(r) = r.free_initial_allocation
      BY <1>3 DEF GrantOf, AskedWell
    <3> QED BY <3>1, <3>2, <3>3
  <2>2. UsedAllocation(A, a) = Exclude([A EXCEPT ![a] = q], a, k)
    <3>1. ~(r.free_allocations = 0) /\ ~(r.free_allocations > 1)
      BY <1>3
    <3> QED BY <3>1 DEF UsedAllocation
  <2> HIDE DEF q, k
  <2> QED BY <2>1, <2>2, <2>3, ReplaceExclude, GracedWell
<1>4. r.free_allocations \in Nat
  BY <1>0 DEF Acts
<1> QED BY <1>1, <1>2, <1>3, <1>4

-----------------------------------------------------------------------------
(***************************************************************************)
(* What descriptors say, and the state that handlers pass along.           *)
(***************************************************************************)
Descs == [live : BOOLEAN, activity : Activities \cup {None}, eviction_candidate : BOOLEAN,
          dirty : BOOLEAN, discardable : BOOLEAN, priority : Priorities,
          active : BOOLEAN, mapped : BOOLEAN, shared : BOOLEAN, floating : BOOLEAN]
DescMaps == [Frames -> Descs]
ListMaps == [Activities -> [ListNames -> SUBSET Frames]]
AnyPolicy == [discardable : BOOLEAN, priority : Priorities]

States == [desc : DescMaps, lists : ListMaps, act : ActMaps, laundry : SUBSET Frames,
           available : SUBSET Frames, mapped : SUBSET Frames, written : SUBSET Frames]

\* The frames that each activity pays for, and its dirty candidates.
Mine(D) == [a \in Activities |-> {f \in Frames : D[f].activity = a /\ ListOf(D[f]) # "eviction_clean"}]
Dirty(D) == [a \in Activities |-> {f \in Frames : D[f].activity = a /\ ListOf(D[f]) = "eviction_dirty"}]

\* Holdings without a frame, and with one more.
Less(M, f) == [a \in Activities |-> M[a] \ {f}]
More(M, b, f) == [a \in Activities |-> IF a = b THEN M[a] \cup {f} ELSE M[a]]

ListsOK(D, L) ==
    \A a \in Activities, l \in ListNames, f \in Frames :
        f \in L[a][l] <=> D[f].activity = a /\ ListOf(D[f]) = l

PoolsOK(D, la, av) ==
    \A f \in Frames :
        (f \in la <=> ListOf(D[f]) = "eviction_dirty") /\ (f \in av <=> ListOf(D[f]) = "eviction_clean")

OwnersOK(D, V) ==
    \A f \in Frames :
        D[f].activity \in V \cup {None} /\ (D[f].eviction_candidate => D[f].activity # None)

CountsOK(D, A) == Charged(A, Mine(D)) /\ Waiting(A, Dirty(D))

Good(s, V) ==
    /\ s \in States
    /\ ListsOK(s.desc, s.lists) /\ PoolsOK(s.desc, s.laundry, s.available)
    /\ OwnersOK(s.desc, V) /\ CountsOK(s.desc, s.act)

LEMMA NoneFacts == None \notin Activities /\ None \notin Frames
BY FramesAssumption

LEMMA ListOfFacts ==
  ASSUME NEW d \in Descs
  PROVE  /\ ListOf(d) \in ListNames
         /\ ListOf(d) = "eviction_dirty" <=> d.eviction_candidate /\ Precious(d)
         /\ ListOf(d) = "eviction_clean" <=> d.eviction_candidate /\ ~Precious(d)
         /\ ~d.eviction_candidate =>
               /\ ListOf(d) = "priorities" <=> d.priority # "lru"
               /\ ListOf(d) = "active" <=> d.priority = "lru" /\ d.active
               /\ ListOf(d) = "inactive" <=> d.priority = "lru" /\ ~d.active
BY DEF ListOf, ListNames

LEMMA HoldingFacts ==
  ASSUME NEW D \in DescMaps
  PROVE  /\ Mine(D) \in Holdings /\ Dirty(D) \in Holdings
         /\ \A a \in Activities, f \in Frames :
               /\ f \in Mine(D)[a] <=> D[f].activity = a /\ ListOf(D[f]) # "eviction_clean"
               /\ f \in Dirty(D)[a] <=> D[f].activity = a /\ ListOf(D[f]) = "eviction_dirty"
BY DEF Mine, Dirty, Holdings

LEMMA LessMore ==
  ASSUME NEW M \in Holdings, NEW f \in Frames, NEW b \in Activities
  PROVE  /\ Less(M, f) \in Holdings /\ More(M, b, f) \in Holdings
         /\ (\A a \in Activities : f \notin M[a]) => Less(M, f) = M
         /\ f \in M[b] /\ (\A a \in Activities : a # b => f \notin M[a]) =>
               /\ \A a \in Activities : a # b => Less(M, f)[a] = M[a]
               /\ Cardinality(Less(M, f)[b]) = Cardinality(M[b]) + (-1)
         /\ f \notin M[b] =>
               /\ \A a \in Activities : a # b => More(M, b, f)[a] = M[a]
               /\ Cardinality(More(M, b, f)[b]) = Cardinality(M[b]) + 1
<1>1. Less(M, f) \in Holdings /\ More(M, b, f) \in Holdings
  BY DEF Less, More, Holdings
<1>2. (\A a \in Activities : f \notin M[a]) => Less(M, f) = M
  <2>1. M = [a \in Activities |-> M[a]]
    BY DEF Holdings
  <2> SUFFICES ASSUME \A a \in Activities : f \notin M[a] PROVE Less(M, f) = M
    OBVIOUS
  <2>2. \A a \in Activities : M[a] \ {f} = M[a]
    OBVIOUS
  <2> QED BY <2>1, <2>2 DEF Less
<1>3. IsFiniteSet(M[b]) /\ Cardinality(M[b]) \in Nat
  BY SizesNat, FS_CardinalityType
<1>4. Less(M, f)[b] = M[b] \ {f} /\ More(M, b, f)[b] = M[b] \cup {f}
  BY DEF Less, More
<1>5. f \in M[b] => Cardinality(Less(M, f)[b]) = Cardinality(M[b]) - 1
  BY <1>3, <1>4, FS_RemoveElement
<1>6. f \notin M[b] => Cardinality(More(M, b, f)[b]) = Cardinality(M[b]) + 1
  BY <1>3, <1>4, FS_AddElement
<1>7. Cardinality(M[b]) - 1 = Cardinality(M[b]) + (-1)
  BY <1>3
<1>8. \A a \in Activities : a # b => More(M, b, f)[a] = M[a] /\ (f \notin M[a] => Less(M, f)[a] = M[a])
  BY DEF Less, More
<1> QED BY <1>1, <1>2, <1>5, <1>6, <1>7, <1>8

LEMMA MinusOne == -1 \in Int
OBVIOUS

(***************************************************************************)
(* The counters in the two halves of object_desc_claim.                    *)
(***************************************************************************)
Leaving(A, d, b) ==
    LET a == d.activity
        B == IF d.eviction_candidate /\ Precious(d) THEN Pending(A, a, -1) ELSE A
        C == IF b # a /\ ~(d.eviction_candidate /\ ~Precious(d)) THEN Charge(B, a, -1) ELSE B
    IN  IF Moves(d, b) THEN MetGoal(C, a) ELSE C

LEMMA LeavingCounts ==
  ASSUME NEW D \in DescMaps, NEW A \in ActMaps, CountsOK(D, A),
         NEW f \in Frames, D[f].activity \in Activities, NEW b
  PROVE  LET B == Leaving(A, D[f], b)
         IN  /\ B \in ActMaps /\ (Graced(A) => Graced(B))
             /\ Waiting(B, Less(Dirty(D), f))
             /\ Charged(B, IF Moves(D[f], b) THEN Less(Mine(D), f) ELSE Mine(D))
<1> DEFINE d == D[f]
           a == d.activity
           dirty == d.eviction_candidate /\ Precious(d)
           clean == d.eviction_candidate /\ ~Precious(d)
           B1 == IF dirty THEN Pending(A, a, -1) ELSE A
           out == b # a /\ ~clean
           B2 == IF out THEN Charge(B1, a, -1) ELSE B1
           M == Mine(D)
           Q == Dirty(D)
           N == IF Moves(d, b) THEN Less(M, f) ELSE M
<1>1. d \in Descs /\ a \in Activities
  BY DEF DescMaps
<1>2. /\ M \in Holdings /\ Q \in Holdings
      /\ \A x \in Activities : (f \in M[x] <=> x = a /\ ~clean) /\ (f \in Q[x] <=> x = a /\ dirty)
  BY <1>1, HoldingFacts, ListOfFacts
<1>3. Moves(d, b) <=> b # a \/ clean
  BY DEF Moves
<1>4. B1 \in ActMaps /\ SameCharges(A, B1) /\ SameGrace(A, B1) /\ Waiting(B1, Less(Q, f))
  <2> HIDE DEF d, a, dirty, clean, M, Q
  <2>1. CASE dirty
    <3>1. B1 = Pending(A, a, -1)
      BY <2>1
    <3>2. /\ Less(Q, f) \in Holdings /\ \A x \in Activities : x # a => Less(Q, f)[x] = Q[x]
          /\ Cardinality(Less(Q, f)[a]) = Cardinality(Q[a]) + (-1)
      BY <1>1, <1>2, <2>1, LessMore
    <3>3. Waiting(A, Q)
      BY DEF CountsOK, Q
    <3>4. Waiting(Pending(A, a, -1), Less(Q, f))
      BY <1>1, <1>2, <3>2, <3>3, PendBy, MinusOne
    <3> QED BY <1>1, <3>1, <3>4, PendingIs, MinusOne
  <2>2. CASE ~dirty
    <3>1. B1 = A
      BY <2>2
    <3>2. Less(Q, f) = Q
      BY <1>1, <1>2, <2>2, LessMore
    <3>3. Waiting(A, Q)
      BY DEF CountsOK, Q
    <3> QED BY <3>1, <3>2, <3>3 DEF SameCharges, SameGrace
  <2> QED BY <2>1, <2>2
<1>5. Charged(B1, M)
  BY <1>4, SameKeeps DEF CountsOK
<1>6. B2 \in ActMaps /\ SamePending(B1, B2) /\ SameGrace(B1, B2) /\ Charged(B2, N)
  <2> HIDE DEF d, a, dirty, clean, M, Q, B1
  <2>1. CASE out
    <3>1. B2 = Charge(B1, a, -1) /\ N = Less(M, f) /\ ~clean
      BY <1>3, <2>1
    <3>2. /\ Less(M, f) \in Holdings /\ \A x \in Activities : x # a => Less(M, f)[x] = M[x]
          /\ Cardinality(Less(M, f)[a]) = Cardinality(M[a]) + (-1)
      BY <1>1, <1>2, <3>1, LessMore
    <3>3. Charged(Charge(B1, a, -1), Less(M, f))
      BY <1>1, <1>2, <1>4, <1>5, <3>2, ChargeBy, MinusOne
    <3> QED BY <1>1, <1>4, <3>1, <3>3, ChargeIs, MinusOne
  <2>2. CASE ~out
    <3>1. B2 = B1
      BY <2>2
    <3>2. N = M
      <4>1. CASE clean
        <5>1. Less(M, f) = M
          BY <1>1, <1>2, <4>1, LessMore
        <5> QED BY <5>1
      <4>2. CASE ~clean
        <5>1. ~Moves(d, b)
          BY <1>3, <2>2, <4>2
        <5> QED BY <5>1
      <4> QED BY <4>1, <4>2
    <3> QED BY <1>4, <1>5, <3>1, <3>2 DEF SamePending, SameGrace
  <2> QED BY <2>1, <2>2
<1> DEFINE B3 == IF Moves(d, b) THEN MetGoal(B2, a) ELSE B2
<1>7. Harmless(B2, B3)
  <2> HIDE DEF d, a, B2
  <2> QED BY <1>1, <1>6, SameHarmless, MetGoalHarmless
<1>8. B3 = Leaving(A, D[f], b)
  BY DEF Leaving
<1> HIDE DEF d, a, dirty, clean, M, Q, B1, B2, B3, N
<1>9. /\ B3 \in ActMaps /\ (Graced(A) => Graced(B3)) /\ Waiting(B3, Less(Q, f)) /\ Charged(B3, N)
  BY <1>4, <1>6, <1>7, SameKeeps DEF Harmless
<1> QED BY <1>8, <1>9 DEF N, M, Q, d

LEMMA JoiningCounts ==
  ASSUME NEW A \in ActMaps, NEW M \in Holdings, NEW Q \in Holdings, Charged(A, M), Waiting(A, Q),
         NEW f \in Frames, NEW b \in Activities, f \notin M[b]
  PROVE  LET B == UsedAllocation(Charge(A, b, 1), b)
         IN  /\ B \in ActMaps /\ (Graced(A) => Graced(B))
             /\ Waiting(B, Q) /\ Charged(B, More(M, b, f))
<1> DEFINE C == Charge(A, b, 1)
           N == More(M, b, f)
<1>1. /\ N \in Holdings /\ \A x \in Activities : x # b => N[x] = M[x]
      /\ Cardinality(N[b]) = Cardinality(M[b]) + 1
  BY LessMore
<1>2. 1 \in Int
  OBVIOUS
<1>3. Charged(C, N)
  <2> HIDE DEF N
  <2> QED BY <1>1, <1>2, ChargeBy
<1>4. C \in ActMaps /\ SamePending(A, C) /\ SameGrace(A, C)
  BY <1>2, ChargeIs
<1> HIDE DEF C, N
<1>5. Harmless(C, UsedAllocation(C, b))
  BY <1>4, UsedAllocationHarmless
<1>6. LET B == UsedAllocation(C, b)
      IN  B \in ActMaps /\ (Graced(A) => Graced(B)) /\ Waiting(B, Q) /\ Charged(B, N)
  BY <1>3, <1>4, <1>5, SameKeeps DEF Harmless
<1> QED BY <1>6 DEF C, N

-----------------------------------------------------------------------------
(***************************************************************************)
(* A descriptor changes and the frame moves to the list it now calls for.  *)
(***************************************************************************)
Refit(s, t, f, e) ==
    /\ t \in States
    /\ t.desc = [s.desc EXCEPT ![f] = e]
    /\ \A a \in Activities, l \in ListNames, g \in Frames :
          g \in t.lists[a][l] <=> IF g = f THEN e.activity = a /\ ListOf(e) = l ELSE g \in s.lists[a][l]
    /\ \A g \in Frames :
          /\ g \in t.laundry <=> IF g = f THEN ListOf(e) = "eviction_dirty" ELSE g \in s.laundry
          /\ g \in t.available <=> IF g = f THEN ListOf(e) = "eviction_clean" ELSE g \in s.available

Fits(e, V) == e \in Descs /\ e.activity \in V \cup {None} /\ (e.eviction_candidate => e.activity # None)

LEMMA StateParts ==
  ASSUME NEW s, NEW V, Good(s, V)
  PROVE  /\ s \in States /\ s.desc \in DescMaps /\ s.lists \in ListMaps /\ s.act \in ActMaps
         /\ s.laundry \in SUBSET Frames /\ s.available \in SUBSET Frames
         /\ s.mapped \in SUBSET Frames /\ s.written \in SUBSET Frames
         /\ \A f \in Frames : Fits(s.desc[f], V)
         /\ s.desc \in DescMaps /\ CountsOK(s.desc, s.act)
         /\ ListsOK(s.desc, s.lists) /\ PoolsOK(s.desc, s.laundry, s.available)
BY DEF Good, States, OwnersOK, Fits, DescMaps

LEMMA Refitted ==
  ASSUME NEW s, NEW t, NEW V, NEW f \in Frames, NEW e, Good(s, V), Fits(e, V), Refit(s, t, f, e)
  PROVE  /\ ListsOK(t.desc, t.lists) /\ PoolsOK(t.desc, t.laundry, t.available)
         /\ OwnersOK(t.desc, V)
         /\ t.desc[f] = e /\ \A g \in Frames : g # f => t.desc[g] = s.desc[g]
<1>1. s.desc \in DescMaps
  BY StateParts
<1>2. t.desc[f] = e /\ \A g \in Frames : g # f => t.desc[g] = s.desc[g]
  BY <1>1 DEF Refit, DescMaps
<1>3. ListsOK(t.desc, t.lists)
  BY <1>2, StateParts DEF ListsOK, Refit
<1>4. PoolsOK(t.desc, t.laundry, t.available)
  BY <1>2, StateParts DEF PoolsOK, Refit
<1>5. OwnersOK(t.desc, V)
  BY <1>2 DEF OwnersOK, Good, Fits
<1> QED BY <1>2, <1>3, <1>4, <1>5

\* What the change does to the holdings.
LEMMA HoldingsChange ==
  ASSUME NEW D \in DescMaps, NEW f \in Frames, NEW e \in Descs
  PROVE  LET E == [D EXCEPT ![f] = e]
         IN  /\ E \in DescMaps
             /\ Mine(E) = IF e.activity \in Activities /\ ListOf(e) # "eviction_clean"
                          THEN More(Less(Mine(D), f), e.activity, f) ELSE Less(Mine(D), f)
             /\ Dirty(E) = IF e.activity \in Activities /\ ListOf(e) = "eviction_dirty"
                           THEN More(Less(Dirty(D), f), e.activity, f) ELSE Less(Dirty(D), f)
<1> DEFINE E == [D EXCEPT ![f] = e]
           M == IF e.activity \in Activities /\ ListOf(e) # "eviction_clean"
                THEN More(Less(Mine(D), f), e.activity, f) ELSE Less(Mine(D), f)
           Q == IF e.activity \in Activities /\ ListOf(e) = "eviction_dirty"
                THEN More(Less(Dirty(D), f), e.activity, f) ELSE Less(Dirty(D), f)
<1>1. E \in DescMaps /\ E[f] = e /\ \A g \in Frames : g # f => E[g] = D[g]
  BY DEF DescMaps
<1> HIDE DEF E
<1>2. ASSUME NEW a \in Activities PROVE Mine(E)[a] = M[a] /\ Dirty(E)[a] = Q[a]
  <2>1. \A g : g \in Mine(E)[a] <=> g \in Frames /\ E[g].activity = a /\ ListOf(E[g]) # "eviction_clean"
    BY DEF Mine
  <2>2. \A g : g \in Dirty(E)[a] <=> g \in Frames /\ E[g].activity = a /\ ListOf(E[g]) = "eviction_dirty"
    BY DEF Dirty
  <2>3. \A g : g \in Mine(D)[a] <=> g \in Frames /\ D[g].activity = a /\ ListOf(D[g]) # "eviction_clean"
    BY DEF Mine
  <2>4. \A g : g \in Dirty(D)[a] <=> g \in Frames /\ D[g].activity = a /\ ListOf(D[g]) = "eviction_dirty"
    BY DEF Dirty
  <2>5. \A g : g \in M[a] <=> (g \in Mine(D)[a] /\ g # f)
          \/ (g = f /\ e.activity = a /\ ListOf(e) # "eviction_clean")
    BY DEF More, Less
  <2>6. \A g : g \in Q[a] <=> (g \in Dirty(D)[a] /\ g # f)
          \/ (g = f /\ e.activity = a /\ ListOf(e) = "eviction_dirty")
    BY DEF More, Less
  <2> HIDE DEF M, Q
  <2>7. \A g : g \in Mine(E)[a] <=> g \in M[a]
    BY <1>1, <2>1, <2>3, <2>5
  <2>8. \A g : g \in Dirty(E)[a] <=> g \in Q[a]
    BY <1>1, <2>2, <2>4, <2>6
  <2> QED BY <2>7, <2>8
<1>3. /\ Mine(E) = [a \in Activities |-> Mine(E)[a]] /\ Dirty(E) = [a \in Activities |-> Dirty(E)[a]]
      /\ M = [a \in Activities |-> M[a]] /\ Q = [a \in Activities |-> Q[a]]
  BY DEF Mine, Dirty, More, Less
<1> HIDE DEF M, Q
<1>4. Mine(E) = M
  BY <1>2, <1>3
<1>5. Dirty(E) = Q
  BY <1>2, <1>3
<1> QED BY <1>1, <1>4, <1>5 DEF E, M, Q

\* Nothing moves when owner and list stay.
LEMMA HoldingsStay ==
  ASSUME NEW D \in DescMaps, NEW f \in Frames, NEW e \in Descs, e.activity = D[f].activity,
         ListOf(e) = "eviction_clean" <=> ListOf(D[f]) = "eviction_clean",
         ListOf(e) = "eviction_dirty" <=> ListOf(D[f]) = "eviction_dirty"
  PROVE  LET E == [D EXCEPT ![f] = e]
         IN  E \in DescMaps /\ Mine(E) = Mine(D) /\ Dirty(E) = Dirty(D)
<1> DEFINE E == [D EXCEPT ![f] = e]
<1>1. E \in DescMaps /\ E[f] = e /\ \A g \in Frames : g # f => E[g] = D[g]
  BY DEF DescMaps
<1> HIDE DEF E
<1>2. \A g \in Frames : /\ E[g].activity = D[g].activity
                        /\ ListOf(E[g]) = "eviction_clean" <=> ListOf(D[g]) = "eviction_clean"
                        /\ ListOf(E[g]) = "eviction_dirty" <=> ListOf(D[g]) = "eviction_dirty"
  BY <1>1
<1>3. Mine(E) = Mine(D)
  BY <1>2 DEF Mine
<1>4. Dirty(E) = Dirty(D)
  BY <1>2 DEF Dirty
<1> QED BY <1>1, <1>3, <1>4 DEF E

\* A frame changes neither owner nor list.
LEMMA Stays ==
  ASSUME NEW s, NEW V, Good(s, V), NEW f \in Frames, NEW e, Fits(e, V),
         e.activity = s.desc[f].activity, ListOf(e) = ListOf(s.desc[f]),
         NEW t \in States, t.desc = [s.desc EXCEPT ![f] = e],
         t.lists = s.lists, t.laundry = s.laundry, t.available = s.available, t.act = s.act
  PROVE  Good(t, V)
<1>1. Refit(s, t, f, e)
  BY StateParts DEF Refit, ListsOK, PoolsOK
<1>2. CountsOK(t.desc, t.act)
  <2>1. Mine(t.desc) = Mine(s.desc) /\ Dirty(t.desc) = Dirty(s.desc)
    BY StateParts, HoldingsStay DEF Fits
  <2> QED BY <2>1, StateParts DEF CountsOK
<1> QED BY <1>1, <1>2, Refitted DEF Good
-----------------------------------------------------------------------------
(***************************************************************************)
(* object_desc_claim.                                                      *)
(***************************************************************************)
LEMMA DisconnectIs ==
  ASSUME NEW s, NEW V \in SUBSET Activities, Good(s, V), NEW f \in Frames, NEW b,
         s.desc[f].activity \in Activities
  PROVE  LET t == Disconnect(s, f, b)
         IN  /\ t \in States /\ t.desc = s.desc /\ t.act = Leaving(s.act, s.desc[f], b)
             /\ t.mapped = s.mapped /\ t.written = s.written
             /\ \A a \in Activities, l \in ListNames : t.lists[a][l] = s.lists[a][l] \ {f}
             /\ t.laundry = s.laundry \ {f} /\ t.available = s.available \ {f}
<1> DEFINE d == s.desc[f]
           a == d.activity
           L == [s.lists EXCEPT ![a] = [s.lists[a] EXCEPT ![ListOf(d)] = @ \ {f}]]
           B == Leaving(s.act, d, b)
           la == IF d.eviction_candidate /\ Precious(d) THEN s.laundry \ {f} ELSE s.laundry
           av == IF d.eviction_candidate /\ ~Precious(d) THEN s.available \ {f} ELSE s.available
           t == Disconnect(s, f, b)
<1>1. t = [s EXCEPT !.lists = L, !.act = B, !.laundry = la, !.available = av]
  BY DEF Disconnect, Leaving
<1>2. d \in Descs /\ ListOf(d) \in ListNames /\ a \in Activities
  BY StateParts, ListOfFacts DEF Fits
<1>3. B \in ActMaps
  BY <1>2, StateParts, LeavingCounts
<1>4. L \in ListMaps
  BY <1>2, StateParts DEF ListMaps
<1>5. la \in SUBSET Frames /\ av \in SUBSET Frames
  BY StateParts
<1>6. \A x \in Activities, l \in ListNames : L[x][l] = s.lists[x][l] \ {f}
  <2> SUFFICES ASSUME NEW x \in Activities, NEW l \in ListNames PROVE L[x][l] = s.lists[x][l] \ {f}
    OBVIOUS
  <2>1. CASE x = a /\ l = ListOf(d)
    BY <1>2, <2>1, StateParts DEF ListMaps
  <2>2. CASE ~(x = a /\ l = ListOf(d))
    <3>1. L[x][l] = s.lists[x][l]
      BY <1>2, <2>2, StateParts DEF ListMaps
    <3>2. f \notin s.lists[x][l]
      BY <2>2, StateParts DEF ListsOK
    <3> QED BY <3>1, <3>2
  <2> QED BY <2>1, <2>2
<1>7. la = s.laundry \ {f} /\ av = s.available \ {f}
  BY <1>2, StateParts, ListOfFacts DEF PoolsOK
<1>0. s \in States
  BY StateParts
<1> HIDE DEF L, B, la, av, t, d, a
<1>8. /\ t \in States /\ t.desc = s.desc /\ t.act = B /\ t.mapped = s.mapped /\ t.written = s.written
      /\ t.lists = L /\ t.laundry = la /\ t.available = av
  BY <1>0, <1>1, <1>3, <1>4, <1>5 DEF States
<1> QED BY <1>6, <1>7, <1>8 DEF t, B, d

Claimed(d, b, policy) ==
    [d EXCEPT !.priority = policy.priority, !.discardable = policy.discardable,
              !.active = TRUE, !.eviction_candidate = FALSE, !.activity = b]

\* What object_desc_claim leaves of a descriptor.
Owned(d, e, b, policy) ==
    /\ e \in Descs /\ e.activity = b /\ ~e.eviction_candidate
    /\ e.priority = policy.priority /\ e.discardable = policy.discardable
    /\ e.live = d.live /\ e.dirty = d.dirty /\ e.mapped = d.mapped
    /\ e.shared = d.shared /\ e.floating = d.floating

LEMMA ClaimedIs ==
  ASSUME NEW d \in Descs, NEW b \in Activities, NEW policy \in AnyPolicy
  PROVE  Owned(d, Claimed(d, b, policy), b, policy)
BY DEF Claimed, Owned, Descs, AnyPolicy

\* The frame joins a list of its new owner.
Joined(s, t, f, b, e) ==
    /\ t \in States /\ t.desc = [s.desc EXCEPT ![f] = e]
    /\ t.act = IF Moves(s.desc[f], b) THEN UsedAllocation(Charge(s.act, b, 1), b) ELSE s.act
    /\ t.mapped = s.mapped /\ t.written = s.written
    /\ \A a \in Activities, l \in ListNames :
          t.lists[a][l] = IF a = b /\ l = ListOf(e) THEN s.lists[a][l] \cup {f} ELSE s.lists[a][l]
    /\ t.laundry = s.laundry /\ t.available = s.available

LEMMA ConnectIs ==
  ASSUME NEW s \in States, NEW f \in Frames, NEW b \in Activities, NEW policy \in AnyPolicy,
         UsedAllocation(Charge(s.act, b, 1), b) \in ActMaps
  PROVE  Joined(s, Connect(s, f, b, policy), f, b, Claimed(s.desc[f], b, policy))
<1> DEFINE d == s.desc[f]
           e == Claimed(d, b, policy)
           L == [s.lists EXCEPT ![b] = [s.lists[b] EXCEPT ![ListOf(e)] = @ \cup {f}]]
           D == [s.desc EXCEPT ![f] = e]
           B == IF Moves(s.desc[f], b) THEN UsedAllocation(Charge(s.act, b, 1), b) ELSE s.act
           t == Connect(s, f, b, policy)
<1>1. t = [s EXCEPT !.lists = L, !.act = B, !.desc = D]
  BY DEF Connect, Claimed
<1>0. s.desc \in DescMaps /\ s.lists \in ListMaps /\ s.act \in ActMaps
  BY DEF States
<1>2. e \in Descs /\ ListOf(e) \in ListNames
  <2>1. d \in Descs
    BY <1>0 DEF DescMaps
  <2>2. e \in Descs
    BY <2>1, ClaimedIs DEF Owned
  <2> QED BY <2>2, ListOfFacts
<1>3. B \in ActMaps
  BY <1>0
<1> HIDE DEF e
<1>4. L \in ListMaps
  BY <1>0, <1>2 DEF ListMaps
<1>5. D \in DescMaps
  BY <1>0, <1>2 DEF DescMaps
<1>6. \A a \in Activities, l \in ListNames :
          L[a][l] = IF a = b /\ l = ListOf(e) THEN s.lists[a][l] \cup {f} ELSE s.lists[a][l]
  BY <1>0, <1>2 DEF ListMaps
<1> HIDE DEF L, B, D, t
<1>8. /\ t \in States /\ t.desc = D /\ t.act = B /\ t.mapped = s.mapped /\ t.written = s.written
      /\ t.lists = L /\ t.laundry = s.laundry /\ t.available = s.available
  BY <1>1, <1>3, <1>4, <1>5 DEF States
<1> QED BY <1>6, <1>8 DEF t, B, d, D, e, Joined

\* The change of a handler to a frame, seen from the others and the hardware.
Leaves(s, t, f) ==
    /\ \A g \in Frames : g # f => t.desc[g] = s.desc[g]
    /\ Graced(s.act) => Graced(t.act)
SameHardware(s, t) == t.mapped = s.mapped /\ t.written = s.written

LEMMA ClaimGood ==
  ASSUME NEW s, NEW V \in SUBSET Activities, Good(s, V), NEW f \in Frames, NEW b \in V,
         NEW policy \in AnyPolicy
  PROVE  LET t == Claim(s, b, f, policy)
         IN  /\ Good(t, V) /\ Leaves(s, t, f) /\ SameHardware(s, t)
             /\ Owned(s.desc[f], t.desc[f], b, policy)
<1> DEFINE d == s.desc[f]
           left == IF d.activity = None THEN s ELSE Disconnect(s, f, b)
           t == Claim(s, b, f, policy)
<1>0. b # None /\ b \in Activities /\ d \in Descs /\ d.activity \in V \cup {None} /\ s.desc \in DescMaps
  BY StateParts, NoneFacts DEF Fits
<1>1. CASE d.activity = b /\ ~d.eviction_candidate /\ d.priority = policy.priority
  <2> DEFINE e == [d EXCEPT !.discardable = policy.discardable]
             D == [s.desc EXCEPT ![f] = e]
  <2>1. t = [s EXCEPT !.desc = D]
    BY <1>1 DEF Claim
  <2>2. Owned(d, e, b, policy) /\ e.active = d.active
    BY <1>0, <1>1 DEF Owned, Descs, AnyPolicy
  <2>3. Fits(e, V) /\ ListOf(e) = ListOf(d) /\ e.activity = d.activity
    BY <1>0, <1>1, <2>2 DEF Fits, ListOf, Owned
  <2>4. D \in DescMaps /\ D[f] = e /\ \A g \in Frames : g # f => D[g] = s.desc[g]
    BY <1>0, <2>2 DEF DescMaps, Owned
  <2> HIDE DEF t, e
  <2>5. /\ t \in States /\ t.desc = D /\ t.act = s.act /\ t.mapped = s.mapped /\ t.written = s.written
        /\ t.lists = s.lists /\ t.laundry = s.laundry /\ t.available = s.available
    BY <2>1, <2>4, StateParts DEF States
  <2>6. Good(t, V)
    BY <2>3, <2>5, Stays
  <2>7. Leaves(s, t, f) /\ SameHardware(s, t)
    BY <2>4, <2>5 DEF Leaves, SameHardware
  <2> QED BY <2>2, <2>4, <2>5, <2>6, <2>7 DEF t
<1>2. CASE ~(d.activity = b /\ ~d.eviction_candidate /\ d.priority = policy.priority)
  <2> DEFINE e == Claimed(d, b, policy)
             D == [s.desc EXCEPT ![f] = e]
             M == IF Moves(d, b) THEN Less(Mine(s.desc), f) ELSE Mine(s.desc)
             Q == Less(Dirty(s.desc), f)
  <2>1. t = Connect(left, f, b, policy)
    BY <1>0, <1>2 DEF Claim
  <2>2. /\ left \in States /\ left.desc = s.desc /\ SameHardware(s, left)
        /\ \A a \in Activities, l \in ListNames : left.lists[a][l] = s.lists[a][l] \ {f}
        /\ left.laundry = s.laundry \ {f} /\ left.available = s.available \ {f}
        /\ (Graced(s.act) => Graced(left.act)) /\ Waiting(left.act, Q) /\ Charged(left.act, M)
    <3>1. CASE d.activity = None
      <4>0. left = s
        BY <3>1
      <4>1. \A a \in Activities, l \in ListNames : f \notin s.lists[a][l]
        BY <3>1, StateParts, NoneFacts DEF ListsOK
      <4>2. f \notin s.laundry /\ f \notin s.available
        BY <3>1, StateParts, ListOfFacts DEF PoolsOK, Fits
      <4>3. Less(Mine(s.desc), f) = Mine(s.desc) /\ Less(Dirty(s.desc), f) = Dirty(s.desc)
        <5>1. /\ Mine(s.desc) \in Holdings /\ Dirty(s.desc) \in Holdings
              /\ \A a \in Activities : f \notin Mine(s.desc)[a] /\ f \notin Dirty(s.desc)[a]
          BY <1>0, <3>1, HoldingFacts, NoneFacts
        <5> QED BY <1>0, <5>1, LessMore
      <4>4. M = Mine(s.desc) /\ Q = Dirty(s.desc)
        BY <4>3
      <4>5. Waiting(s.act, Q) /\ Charged(s.act, M)
        BY <4>4, StateParts DEF CountsOK
      <4>6. \A a \in Activities, l \in ListNames : s.lists[a][l] = s.lists[a][l] \ {f}
        BY <4>1
      <4> HIDE DEF M, Q, left
      <4> QED BY <4>0, <4>2, <4>5, <4>6, StateParts DEF SameHardware
    <3>2. CASE d.activity # None
      <4>1. d.activity \in Activities
        BY <1>0, <3>2
      <4>2. left = Disconnect(s, f, b)
        BY <3>2
      <4>3. /\ Leaving(s.act, d, b) \in ActMaps /\ (Graced(s.act) => Graced(Leaving(s.act, d, b)))
            /\ Waiting(Leaving(s.act, d, b), Q) /\ Charged(Leaving(s.act, d, b), M)
        BY <4>1, StateParts, LeavingCounts
      <4> HIDE DEF M, Q, left
      <4> QED BY <4>1, <4>2, <4>3, DisconnectIs DEF SameHardware
    <3> QED BY <3>1, <3>2
  <2>3. Owned(d, e, b, policy)
    BY <1>0, ClaimedIs
  <2>4. e \in Descs /\ ListOf(e) \in ListNames /\ ListOf(e) # "eviction_clean"
          /\ ListOf(e) # "eviction_dirty"
    BY <2>3, ListOfFacts DEF Owned
  <2>5. Fits(e, V)
    BY <1>0, <2>3 DEF Fits, Owned
  <2>6. /\ M \in Holdings /\ Q \in Holdings /\ (Moves(d, b) => f \notin M[b])
    <3>1. Mine(s.desc) \in Holdings /\ Dirty(s.desc) \in Holdings
      BY <1>0, HoldingFacts
    <3>2. Less(Mine(s.desc), f) \in Holdings /\ Less(Dirty(s.desc), f) \in Holdings
      BY <1>0, <3>1, LessMore
    <3>3. f \notin Less(Mine(s.desc), f)[b]
      BY <1>0 DEF Less
    <3> QED BY <3>1, <3>2, <3>3
  <2> DEFINE U == UsedAllocation(Charge(left.act, b, 1), b)
             A == IF Moves(d, b) THEN U ELSE left.act
  <2> HIDE DEF left, t, M, Q, e
  <2>7. left.act \in ActMaps
    BY <2>2 DEF States
  <2>8. U \in ActMaps
    <3>1. 1 \in Int
      OBVIOUS
    <3>2. Charge(left.act, b, 1) \in ActMaps
      BY <1>0, <2>7, <3>1, ChargeIs
    <3> QED BY <1>0, <3>2, UsedAllocationHarmless DEF Harmless
  <2>9. /\ t \in States /\ t.desc = D /\ t.act = A /\ SameHardware(s, t)
        /\ \A a \in Activities, l \in ListNames :
              t.lists[a][l] = IF a = b /\ l = ListOf(e) THEN left.lists[a][l] \cup {f}
                              ELSE left.lists[a][l]
        /\ t.laundry = left.laundry /\ t.available = left.available
    <3>1. left.desc[f] = d /\ left.desc = s.desc /\ left \in States
      BY <2>2
    <3>2. Joined(left, Connect(left, f, b, policy), f, b, Claimed(left.desc[f], b, policy))
      BY <1>0, <2>8, <3>1, ConnectIs
    <3>3. Claimed(left.desc[f], b, policy) = e
      BY <3>1 DEF e
    <3>4. Joined(left, t, f, b, e)
      BY <2>1, <3>2, <3>3
    <3> QED BY <2>2, <3>1, <3>4 DEF SameHardware, Joined
  <2>10. Refit(s, t, f, e)
    <3>1. e.activity = b
      BY <2>3 DEF Owned
    <3>2. ASSUME NEW a \in Activities, NEW l \in ListNames, NEW g \in Frames
          PROVE  g \in t.lists[a][l] <=> IF g = f THEN e.activity = a
                /\ ListOf(e) = l ELSE g \in s.lists[a][l]
      <4>1. /\ t.lists[a][l] = IF a = b /\ l = ListOf(e) THEN left.lists[a][l] \cup {f} ELSE left.lists[a][l]
            /\ left.lists[a][l] = s.lists[a][l] \ {f}
        BY <2>2, <2>9
      <4> QED BY <3>1, <4>1
    <3>3. ASSUME NEW g \in Frames
          PROVE  /\ g \in t.laundry <=> IF g = f THEN ListOf(e) = "eviction_dirty" ELSE g \in s.laundry
                 /\ g \in t.available <=>
                      IF g = f THEN ListOf(e) = "eviction_clean" ELSE g \in s.available
      BY <2>2, <2>4, <2>9
    <3> QED BY <2>9, <3>2, <3>3 DEF Refit
  <2>11. Mine(D) = More(Less(Mine(s.desc), f), b, f) /\ Dirty(D) = Q
    <3>1. e.activity = b
      BY <2>3 DEF Owned
    <3> QED BY <1>0, <2>4, <3>1, HoldingsChange DEF Q
  <2>12. Waiting(A, Q) /\ Charged(A, Mine(D)) /\ (Graced(s.act) => Graced(A))
    <3>1. CASE Moves(d, b)
      <4>1. M = Less(Mine(s.desc), f) /\ A = U
        BY <3>1 DEF M
      <4>2. (Graced(left.act) => Graced(U)) /\ Waiting(U, Q) /\ Charged(U, More(M, b, f))
        BY <1>0, <2>2, <2>6, <2>7, <3>1, JoiningCounts
      <4> QED BY <2>2, <2>11, <4>1, <4>2
    <3>2. CASE ~Moves(d, b)
      <4>1. M = Mine(s.desc) /\ A = left.act
        BY <3>2 DEF M
      <4>2. d.activity = b /\ ~(d.eviction_candidate /\ ~Precious(d))
        BY <3>2 DEF Moves
      <4>3. Mine(D) = Mine(s.desc)
        <5>1. f \in Mine(s.desc)[b] /\ \A a \in Activities : a # b => f \notin Mine(s.desc)[a]
          BY <1>0, <4>2, HoldingFacts, ListOfFacts
        <5>2. \A a \in Activities : More(Less(Mine(s.desc), f), b, f)[a] = Mine(s.desc)[a]
          BY <1>0, <5>1 DEF More, Less
        <5>3. /\ More(Less(Mine(s.desc), f), b, f) =
                    [a \in Activities |-> More(Less(Mine(s.desc), f), b, f)[a]]
              /\ Mine(s.desc) = [a \in Activities |-> Mine(s.desc)[a]]
          BY DEF More, Mine
        <5> QED BY <2>11, <5>2, <5>3
      <4> QED BY <2>2, <4>1, <4>3
    <3> QED BY <3>1, <3>2
  <2>13. Good(t, V)
    BY <2>5, <2>9, <2>10, <2>11, <2>12, Refitted DEF Good, CountsOK
  <2>14. t.desc[f] = e /\ \A g \in Frames : g # f => t.desc[g] = s.desc[g]
    BY <1>0, <2>10 DEF Refit, DescMaps
  <2> QED BY <2>3, <2>9, <2>12, <2>13, <2>14 DEF Leaves, t
<1> QED BY <1>1, <1>2

\* The frame is given up.
LEMMA DropGood ==
  ASSUME NEW s, NEW V \in SUBSET Activities, Good(s, V), NEW f \in Frames,
         s.desc[f].activity \in V, NEW policy
  PROVE  LET t == [Claim(s, None, f, policy) EXCEPT !.desc[f] = Unused]
         IN  Good(t, V) /\ Leaves(s, t, f) /\ SameHardware(s, t) /\ t.desc[f] = Unused
<1> DEFINE u == Disconnect(s, f, None)
           d == s.desc[f]
           D == [s.desc EXCEPT ![f] = Unused]
           t == [Claim(s, None, f, policy) EXCEPT !.desc[f] = Unused]
<1>0. d \in Descs /\ d.activity \in Activities /\ d.activity # None /\ s.desc \in DescMaps
  BY StateParts, NoneFacts DEF Fits
<1>1. Claim(s, None, f, policy) = u
  BY <1>0 DEF Claim
<1>2. Unused \in Descs /\ Unused.activity = None /\ ~Unused.eviction_candidate
  BY DEF Unused, Descs, Priorities
<1>3. /\ ListOf(Unused) \in ListNames /\ ListOf(Unused) # "eviction_clean"
      /\ ListOf(Unused) # "eviction_dirty" /\ Fits(Unused, V)
  BY <1>2, ListOfFacts DEF Fits
<1>4. /\ u \in States /\ u.desc = s.desc /\ u.act = Leaving(s.act, d, None)
      /\ u.mapped = s.mapped /\ u.written = s.written
      /\ \A a \in Activities, l \in ListNames : u.lists[a][l] = s.lists[a][l] \ {f}
      /\ u.laundry = s.laundry \ {f} /\ u.available = s.available \ {f}
  BY <1>0, DisconnectIs
<1>5. D \in DescMaps
  BY <1>0, <1>2 DEF DescMaps
<1>6. t = [u EXCEPT !.desc = D]
  BY <1>1, <1>4
<1> HIDE DEF u, t
<1>7. /\ t \in States /\ t.desc = D /\ t.act = u.act /\ t.lists = u.lists /\ SameHardware(s, t)
      /\ t.laundry = u.laundry /\ t.available = u.available
  BY <1>4, <1>5, <1>6 DEF States, SameHardware
<1>8. Refit(s, t, f, Unused)
  <2>1. ASSUME NEW a \in Activities, NEW l \in ListNames, NEW g \in Frames
        PROVE  g \in t.lists[a][l] <=>
                   IF g = f THEN Unused.activity = a /\ ListOf(Unused) = l ELSE g \in s.lists[a][l]
    BY <1>2, <1>4, <1>7, NoneFacts
  <2>2. ASSUME NEW g \in Frames
        PROVE  /\ g \in t.laundry <=> IF g = f THEN ListOf(Unused) = "eviction_dirty" ELSE g \in s.laundry
               /\ g \in t.available <=> IF g = f THEN ListOf(Unused) = "eviction_clean" ELSE g \in s.available
    BY <1>3, <1>4, <1>7
  <2> QED BY <1>7, <2>1, <2>2 DEF Refit
<1>9. Mine(D) = Less(Mine(s.desc), f) /\ Dirty(D) = Less(Dirty(s.desc), f)
  BY <1>0, <1>2, HoldingsChange, NoneFacts
<1>10. Moves(d, None)
  BY <1>0 DEF Moves
<1>11. /\ Waiting(t.act, Dirty(D)) /\ Charged(t.act, Mine(D)) /\ (Graced(s.act) => Graced(t.act))
  <2> DEFINE B == Leaving(s.act, d, None)
  <2>1. s.act \in ActMaps /\ CountsOK(s.desc, s.act)
    BY StateParts
  <2>2. /\ Graced(s.act) => Graced(B)
        /\ Waiting(B, Less(Dirty(s.desc), f))
        /\ Charged(B, IF Moves(d, None) THEN Less(Mine(s.desc), f) ELSE Mine(s.desc))
    BY <1>0, <2>1, LeavingCounts
  <2>3. t.act = B
    BY <1>4, <1>7
  <2> HIDE DEF B
  <2> QED BY <1>9, <1>10, <2>2, <2>3
<1>12. Good(t, V)
  BY <1>3, <1>7, <1>8, <1>11, Refitted DEF Good, CountsOK
<1>13. t.desc[f] = Unused /\ \A g \in Frames : g # f => t.desc[g] = s.desc[g]
  BY <1>0, <1>8 DEF Refit, DescMaps
<1> QED BY <1>7, <1>11, <1>12, <1>13 DEF Leaves, t
-----------------------------------------------------------------------------
(***************************************************************************)
(* The operations on one frame.                                            *)
(***************************************************************************)
\* Only what is mapped is written to, and candidates are not noted as mapped.
Sound(s, f) ==
    /\ f \in s.written => f \in s.mapped
    /\ s.desc[f].eviction_candidate => ~s.desc[f].mapped

\* That the frame was written to is not forgotten.
Noted(s, f) == s.desc[f].dirty \/ f \in s.written

Keeps(s, t, f) ==
    /\ Sound(s, f) => Sound(t, f)
    /\ Noted(s, f) => Noted(t, f)
    /\ t.desc[f].live = s.desc[f].live

Elsewhere(s, t, f) ==
    \A g \in Frames : g # f => /\ t.desc[g] = s.desc[g]
                               /\ g \in t.mapped <=> g \in s.mapped
                               /\ g \in t.written <=> g \in s.written

Handles(s, t, f, V) ==
    /\ Good(t, V) /\ (Graced(s.act) => Graced(t.act))
    /\ Elsewhere(s, t, f) /\ Keeps(s, t, f)

LEMMA HandlesTwice ==
  ASSUME NEW s, NEW t, NEW u, NEW f, NEW V, Handles(s, t, f, V), Handles(t, u, f, V)
  PROVE  Handles(s, u, f, V)
<1>1. Elsewhere(s, u, f)
  BY DEF Handles, Elsewhere
<1>2. Keeps(s, u, f)
  BY DEF Handles, Keeps
<1> QED BY <1>1, <1>2 DEF Handles

LEMMA HandlesNone ==
  ASSUME NEW s, NEW V, Good(s, V), NEW f
  PROVE  Handles(s, s, f, V)
BY DEF Handles, Elsewhere, Keeps

\* Flags of a frame change, and its status in the hardware.
Flagged(s, t, f, e) ==
    /\ t \in States /\ t.desc = [s.desc EXCEPT ![f] = e]
    /\ t.lists = s.lists /\ t.laundry = s.laundry /\ t.available = s.available /\ t.act = s.act

LEMMA FlagsGood ==
  ASSUME NEW s, NEW V, Good(s, V), NEW f \in Frames, NEW e, Fits(e, V),
         e.activity = s.desc[f].activity, ListOf(e) = ListOf(s.desc[f]), NEW t, Flagged(s, t, f, e)
  PROVE  /\ Good(t, V) /\ t.desc[f] = e /\ \A g \in Frames : g # f => t.desc[g] = s.desc[g]
         /\ Graced(s.act) => Graced(t.act)
<1>1. Good(t, V)
  BY Stays DEF Flagged
<1>2. s.desc \in DescMaps
  BY StateParts
<1> QED BY <1>1, <1>2 DEF Flagged, DescMaps

\* A descriptor that differs in flags the lists do not depend on.
LEMMA SameList ==
  ASSUME NEW d \in Descs, NEW e \in Descs, ~d.eviction_candidate, ~e.eviction_candidate,
         e.priority = d.priority, e.active = d.active
  PROVE  ListOf(e) = ListOf(d)
BY DEF ListOf

Tame(s, f, V) == s.desc[f].activity \in V /\ ~s.desc[f].eviction_candidate

LEMMA ClaimHandles ==
  ASSUME NEW s, NEW V \in SUBSET Activities, Good(s, V), NEW f \in Frames, NEW b \in V,
         NEW policy \in AnyPolicy
  PROVE  LET t == Claim(s, b, f, policy)
         IN  /\ Handles(s, t, f, V) /\ SameHardware(s, t)
             /\ Owned(s.desc[f], t.desc[f], b, policy) /\ Tame(t, f, V)
<1> DEFINE t == Claim(s, b, f, policy)
<1>1. Good(t, V) /\ Leaves(s, t, f) /\ SameHardware(s, t) /\ Owned(s.desc[f], t.desc[f], b, policy)
  BY ClaimGood
<1> HIDE DEF t
<1>2. Keeps(s, t, f)
  BY <1>1 DEF Keeps, Sound, Noted, Owned, SameHardware
<1>3. Elsewhere(s, t, f)
  BY <1>1 DEF Elsewhere, Leaves, SameHardware
<1>4. Tame(t, f, V)
  BY <1>1 DEF Tame, Owned
<1> QED BY <1>1, <1>2, <1>3, <1>4 DEF Handles, Leaves, t

\* A tame frame gets other flags, in the kernel only.
Marked(s, t, f, e, V) ==
    /\ Good(t, V) /\ (Graced(s.act) => Graced(t.act)) /\ Elsewhere(s, t, f)
    /\ SameHardware(s, t) /\ t.desc[f] = e /\ Tame(t, f, V)

LEMMA FlagMarks ==
  ASSUME NEW s, NEW V \in SUBSET Activities, Good(s, V), NEW f \in Frames, Tame(s, f, V),
         NEW e \in Descs, e.activity = s.desc[f].activity, ~e.eviction_candidate,
         e.priority = s.desc[f].priority, e.active = s.desc[f].active
  PROVE  Marked(s, [s EXCEPT !.desc = [s.desc EXCEPT ![f] = e]], f, e, V)
<1> DEFINE D == [s.desc EXCEPT ![f] = e]
           t == [s EXCEPT !.desc = D]
<1>1. s \in States /\ s.desc \in DescMaps /\ s.desc[f] \in Descs
  BY StateParts DEF Fits
<1>2. D \in DescMaps
  BY <1>1 DEF DescMaps
<1>3. Fits(e, V) /\ ListOf(e) = ListOf(s.desc[f])
  BY <1>1, SameList DEF Fits, Tame
<1> HIDE DEF D
<1>4. /\ t \in States /\ t.desc = D /\ t.lists = s.lists /\ t.laundry = s.laundry
      /\ t.available = s.available /\ t.act = s.act /\ SameHardware(s, t)
  BY <1>1, <1>2 DEF States, SameHardware
<1> HIDE DEF t
<1>5. Flagged(s, t, f, e)
  BY <1>4 DEF Flagged, D
<1>6. /\ Good(t, V) /\ t.desc[f] = e /\ \A g \in Frames : g # f => t.desc[g] = s.desc[g]
      /\ Graced(s.act) => Graced(t.act)
  BY <1>3, <1>5, FlagsGood
<1>7. Elsewhere(s, t, f)
  BY <1>4, <1>6 DEF Elsewhere, SameHardware
<1>8. Tame(t, f, V)
  BY <1>6 DEF Tame
<1>9. Marked(s, t, f, e, V)
  BY <1>4, <1>6, <1>7, <1>8 DEF Marked
<1> QED BY <1>9 DEF t, D

LEMMA FlagHandles ==
  ASSUME NEW s, NEW V \in SUBSET Activities, Good(s, V), NEW f \in Frames, Tame(s, f, V),
         NEW e \in Descs, e.activity = s.desc[f].activity, ~e.eviction_candidate,
         e.priority = s.desc[f].priority, e.active = s.desc[f].active,
         e.live = s.desc[f].live, e.dirty = s.desc[f].dirty, e.mapped = s.desc[f].mapped
  PROVE  LET t == [s EXCEPT !.desc = [s.desc EXCEPT ![f] = e]]
         IN  Handles(s, t, f, V) /\ SameHardware(s, t) /\ t.desc[f] = e /\ Tame(t, f, V)
<1> DEFINE t == [s EXCEPT !.desc = [s.desc EXCEPT ![f] = e]]
<1>1. Marked(s, t, f, e, V)
  BY FlagMarks
<1> HIDE DEF t
<1>2. ~s.desc[f].eviction_candidate
  BY DEF Tame
<1>3. Keeps(s, t, f)
  BY <1>1, <1>2 DEF Keeps, Sound, Noted, SameHardware, Marked
<1> QED BY <1>1, <1>3 DEF Handles, Marked, t

LEMMA FindHandles ==
  ASSUME NEW s, NEW V \in SUBSET Activities, Good(s, V), NEW f \in Frames, s.desc[f].activity \in V,
         NEW a \in V, NEW policy \in AnyPolicy
  PROVE  LET t == Find(s, a, f, policy)
         IN  Handles(s, t, f, V) /\ SameHardware(s, t) /\ Tame(t, f, V)
<1> DEFINE d == s.desc[f]
           t == Find(s, a, f, policy)
<1>0. d \in Descs /\ s \in States
  BY StateParts DEF Fits
<1>1. CASE ~d.active \/ (d.activity # a /\ d.floating) \/ d.eviction_candidate
  <2> DEFINE u == Claim(s, a, f, policy)
             e == [u.desc[f] EXCEPT !.floating = FALSE]
  <2>1. t = [u EXCEPT !.desc = [u.desc EXCEPT ![f] = e]]
    BY <1>1 DEF Find
  <2>2. Handles(s, u, f, V) /\ SameHardware(s, u) /\ Tame(u, f, V) /\ u.desc[f] \in Descs
    BY ClaimHandles DEF Owned
  <2>3. /\ e \in Descs /\ e.activity = u.desc[f].activity /\ ~e.eviction_candidate
        /\ e.priority = u.desc[f].priority /\ e.active = u.desc[f].active
        /\ e.live = u.desc[f].live /\ e.dirty = u.desc[f].dirty /\ e.mapped = u.desc[f].mapped
    <3> DEFINE c == u.desc[f]
    <3>1. c \in Descs /\ ~c.eviction_candidate
      BY <2>2 DEF Tame
    <3> HIDE DEF c, u
    <3> QED BY <3>1 DEF Descs, c
  <2>4. Good(u, V)
    BY <2>2 DEF Handles
  <2> HIDE DEF u, e, t
  <2>5. Handles(u, t, f, V) /\ SameHardware(u, t) /\ Tame(t, f, V)
    BY <2>1, <2>2, <2>3, <2>4, FlagHandles
  <2> QED BY <2>2, <2>5, HandlesTwice DEF SameHardware, t
<1>2. CASE ~(~d.active \/ (d.activity # a /\ d.floating) \/ d.eviction_candidate)
  <2>1. Tame(s, f, V)
    BY <1>2 DEF Tame
  <2>2. CASE d.activity # a
    <3> DEFINE e == [d EXCEPT !.shared = TRUE]
    <3>1. t = [s EXCEPT !.desc = [s.desc EXCEPT ![f] = e]]
      BY <1>2, <2>2 DEF Find
    <3>2. /\ e \in Descs /\ e.activity = d.activity /\ ~e.eviction_candidate
          /\ e.priority = d.priority /\ e.active = d.active
          /\ e.live = d.live /\ e.dirty = d.dirty /\ e.mapped = d.mapped
      <4>1. ~d.eviction_candidate
        BY <1>2
      <4> HIDE DEF d
      <4> QED BY <1>0, <4>1 DEF Descs
    <3> HIDE DEF e, t
    <3> QED BY <2>1, <3>1, <3>2, FlagHandles DEF t
  <2>3. CASE d.activity = a
    <3>1. t = s
      BY <1>2, <2>3 DEF Find
    <3> QED BY <2>1, <3>1, HandlesNone DEF SameHardware
  <2> QED BY <2>2, <2>3
<1> QED BY <1>1, <1>2

\* The frame is not noted as mapped.
Off(s, f) == ~s.desc[f].mapped

LEMMA UnmapHandles ==
  ASSUME NEW s, NEW V \in SUBSET Activities, Good(s, V), NEW f \in Frames, Tame(s, f, V)
  PROVE  LET t == Unmap(s, f)
         IN  Handles(s, t, f, V) /\ Tame(t, f, V) /\ Off(t, f)
<1> DEFINE d == s.desc[f]
           t == Unmap(s, f)
           e == [d EXCEPT !.mapped = FALSE, !.dirty = @ \/ f \in s.written]
           D == [s.desc EXCEPT ![f] = e]
<1>0. d \in Descs /\ s \in States /\ s.desc \in DescMaps /\ ~d.eviction_candidate
  BY StateParts DEF Fits, Tame
<1>1. CASE ~d.mapped
  <2>1. t = s
    BY <1>1 DEF Unmap
  <2>2. Off(s, f)
    BY <1>1 DEF Off, Sound
  <2> QED BY <2>1, <2>2, HandlesNone
<1>2. CASE d.mapped
  <2>1. t = [s EXCEPT !.desc = D, !.mapped = s.mapped \ {f}, !.written = s.written \ {f}]
    BY <1>2 DEF Unmap
  <2>2. /\ e \in Descs /\ ~e.mapped /\ ~e.eviction_candidate /\ e.activity = d.activity
        /\ e.priority = d.priority /\ e.active = d.active /\ e.live = d.live
        /\ e.dirty = (d.dirty \/ f \in s.written)
    <3> DEFINE w == d.dirty \/ f \in s.written
    <3>1. w \in BOOLEAN /\ e = [d EXCEPT !.mapped = FALSE, !.dirty = w]
      BY <1>0 DEF Descs
    <3> HIDE DEF w, d, e
    <3>2. /\ e \in Descs /\ ~e.mapped /\ ~e.eviction_candidate /\ e.activity = d.activity
          /\ e.priority = d.priority /\ e.active = d.active /\ e.live = d.live /\ e.dirty = w
      BY <1>0, <3>1 DEF Descs
    <3> QED BY <3>2 DEF w
  <2>3. D \in DescMaps
    BY <1>0, <2>2 DEF DescMaps
  <2>4. Fits(e, V) /\ ListOf(e) = ListOf(d)
    <3>1. ListOf(e) = ListOf(d)
      BY <1>0, <2>2, SameList
    <3> QED BY <2>2, <3>1 DEF Fits, Tame
  <2> HIDE DEF D, t, e
  <2>5. /\ t \in States /\ t.desc = D /\ t.lists = s.lists /\ t.laundry = s.laundry
        /\ t.available = s.available /\ t.act = s.act
        /\ t.mapped = s.mapped \ {f} /\ t.written = s.written \ {f}
    BY <1>0, <2>1, <2>3 DEF States
  <2>6. Flagged(s, t, f, e)
    BY <2>5 DEF Flagged, D
  <2>7. /\ Good(t, V) /\ t.desc[f] = e /\ \A g \in Frames : g # f => t.desc[g] = s.desc[g]
        /\ Graced(s.act) => Graced(t.act)
    BY <2>2, <2>4, <2>6, FlagsGood
  <2>8. Keeps(s, t, f)
    BY <2>2, <2>5, <2>7 DEF Keeps, Sound, Noted
  <2>9. Elsewhere(s, t, f)
    BY <2>5, <2>7 DEF Elsewhere
  <2>10. Tame(t, f, V) /\ Off(t, f)
    BY <2>2, <2>5, <2>7 DEF Tame, Off
  <2> QED BY <2>7, <2>8, <2>9, <2>10 DEF Handles, t
<1> QED BY <1>1, <1>2

LEMMA FlushHandles ==
  ASSUME NEW s, NEW V \in SUBSET Activities, Good(s, V), NEW f \in Frames, Tame(s, f, V)
  PROVE  LET t == Flush(s, f)
         IN  Handles(s, t, f, V) /\ Tame(t, f, V) /\ Off(t, f) /\ f \notin t.written
<1> DEFINE u == Unmap(s, f)
           d == u.desc[f]
           t == Flush(s, f)
           e == [d EXCEPT !.dirty = @ \/ f \in u.written]
           D == [u.desc EXCEPT ![f] = e]
<1>0. Handles(s, u, f, V) /\ Tame(u, f, V) /\ Off(u, f)
  BY UnmapHandles
<1>1. t = [u EXCEPT !.desc = D, !.written = u.written \ {f}]
  BY DEF Flush
<1> HIDE DEF u
<1>a. Good(u, V)
  BY <1>0 DEF Handles
<1>b. d \in Descs /\ u \in States /\ u.desc \in DescMaps /\ ~d.eviction_candidate
  BY <1>0, <1>a, StateParts DEF Fits, Tame
<1>2. /\ e \in Descs /\ ~e.eviction_candidate /\ e.activity = d.activity
      /\ e.priority = d.priority /\ e.active = d.active /\ e.live = d.live /\ e.mapped = d.mapped
      /\ e.dirty = (d.dirty \/ f \in u.written)
  <2> DEFINE w == d.dirty \/ f \in u.written
  <2>1. w \in BOOLEAN /\ e = [d EXCEPT !.dirty = w]
    BY <1>b DEF Descs
  <2> HIDE DEF w, d, e
  <2>2. /\ e \in Descs /\ ~e.eviction_candidate /\ e.activity = d.activity
        /\ e.priority = d.priority /\ e.active = d.active /\ e.live = d.live /\ e.mapped = d.mapped
        /\ e.dirty = w
    BY <1>b, <2>1 DEF Descs
  <2> QED BY <2>2 DEF w
<1>3. D \in DescMaps
  BY <1>b, <1>2 DEF DescMaps
<1>4. Fits(e, V) /\ ListOf(e) = ListOf(d)
  <2>1. ListOf(e) = ListOf(d)
    BY <1>b, <1>2, SameList
  <2> QED BY <1>0, <1>2, <2>1 DEF Fits, Tame
<1> HIDE DEF D, t, e
<1>5. /\ t \in States /\ t.desc = D /\ t.lists = u.lists /\ t.laundry = u.laundry
      /\ t.available = u.available /\ t.act = u.act
      /\ t.mapped = u.mapped /\ t.written = u.written \ {f}
  BY <1>b, <1>1, <1>3 DEF States
<1>6. Flagged(u, t, f, e)
  BY <1>5 DEF Flagged, D
<1>7. /\ Good(t, V) /\ t.desc[f] = e /\ \A g \in Frames : g # f => t.desc[g] = u.desc[g]
      /\ Graced(u.act) => Graced(t.act)
  BY <1>a, <1>2, <1>4, <1>6, FlagsGood
<1>8. Keeps(u, t, f)
  BY <1>2, <1>5, <1>7 DEF Keeps, Sound, Noted
<1>9. Elsewhere(u, t, f)
  BY <1>5, <1>7 DEF Elsewhere
<1>10. Tame(t, f, V) /\ Off(t, f) /\ f \notin t.written
  BY <1>0, <1>2, <1>5, <1>7 DEF Tame, Off, Sound
<1>11. Handles(u, t, f, V)
  BY <1>7, <1>8, <1>9 DEF Handles
<1> QED BY <1>0, <1>10, <1>11, HandlesTwice DEF t

LEMMA PolicyOfIs ==
  ASSUME NEW d \in Descs PROVE PolicyOf(d) \in AnyPolicy
BY DEF PolicyOf, AnyPolicy, Descs

LEMMA ShootdownHandles ==
  ASSUME NEW s, NEW V \in SUBSET Activities, Good(s, V), NEW f \in Frames, s.desc[f].activity \in V,
         NEW a \in V
  PROVE  LET t == Shootdown(s, a, f)
         IN  Handles(s, t, f, V) /\ Tame(t, f, V) /\ Off(t, f)
<1> DEFINE u == Find(s, a, f, PolicyOf(s.desc[f]))
           t == Shootdown(s, a, f)
<1>0. PolicyOf(s.desc[f]) \in AnyPolicy
  BY StateParts, PolicyOfIs DEF Fits
<1>1. Handles(s, u, f, V) /\ Tame(u, f, V)
  BY <1>0, FindHandles
<1>2. t = Unmap(u, f)
  BY DEF Shootdown
<1> HIDE DEF u, t
<1>3. Good(u, V)
  BY <1>1 DEF Handles
<1>4. Handles(u, t, f, V) /\ Tame(t, f, V) /\ Off(t, f)
  BY <1>1, <1>2, <1>3, UnmapHandles
<1> QED BY <1>1, <1>4, HandlesTwice DEF t

\* The frame is nobody's.
Released(s, t, f, V) ==
    /\ Good(t, V) /\ (Graced(s.act) => Graced(t.act)) /\ Elsewhere(s, t, f)
    /\ t.desc[f] = Unused
    /\ Sound(s, f) => (f \in t.written => f \in t.mapped)

LEMMA ReleaseReleases ==
  ASSUME NEW s, NEW V \in SUBSET Activities, Good(s, V), NEW f \in Frames, s.desc[f].activity \in V,
         NEW a \in V
  PROVE  Released(s, Release(s, a, f), f, V)
<1> DEFINE u == Shootdown(s, a, f)
           t == Release(s, a, f)
<1>1. Handles(s, u, f, V) /\ Tame(u, f, V) /\ Off(u, f)
  BY ShootdownHandles
<1>2. t = [Claim(u, None, f, PolicyOf(u.desc[f])) EXCEPT !.desc[f] = Unused]
  BY DEF Release
<1> HIDE DEF u, t
<1>3. Good(u, V) /\ u.desc[f].activity \in V
  BY <1>1 DEF Handles, Tame
<1>4. Good(t, V) /\ Leaves(u, t, f) /\ SameHardware(u, t) /\ t.desc[f] = Unused
  BY <1>2, <1>3, DropGood
<1>5. Elsewhere(s, t, f)
  BY <1>1, <1>4 DEF Handles, Elsewhere, Leaves, SameHardware
<1>6. Graced(s.act) => Graced(t.act)
  BY <1>1, <1>4 DEF Handles, Leaves
<1>7. Sound(s, f) => (f \in t.written => f \in t.mapped)
  BY <1>1, <1>4 DEF Handles, Keeps, Sound, SameHardware
<1> QED BY <1>4, <1>5, <1>6, <1>7 DEF Released, t

LEMMA FindRelease ==
  ASSUME NEW s, NEW V \in SUBSET Activities, Good(s, V), NEW f \in Frames, s.desc[f].activity \in V,
         NEW a \in V, NEW policy \in AnyPolicy
  PROVE  Released(s, Release(Find(s, a, f, policy), a, f), f, V)
<1> DEFINE u == Find(s, a, f, policy)
           t == Release(u, a, f)
<1>1. Handles(s, u, f, V) /\ Tame(u, f, V)
  BY FindHandles
<1> HIDE DEF u
<1>2. Good(u, V) /\ u.desc[f].activity \in V
  BY <1>1 DEF Handles, Tame
<1>3. Released(u, t, f, V)
  BY <1>2, ReleaseReleases
<1> HIDE DEF t
<1>4. Elsewhere(s, t, f)
  BY <1>1, <1>3 DEF Handles, Elsewhere, Released
<1> QED BY <1>1, <1>3, <1>4 DEF Released, Handles, Keeps, t, u

(***************************************************************************)
(* A frame becomes a candidate.                                            *)
(***************************************************************************)
LEMMA EvictHandles ==
  ASSUME NEW s, NEW V \in SUBSET Activities, Good(s, V), NEW f \in Frames, Tame(s, f, V)
  PROVE  Handles(s, Evict(s, f), f, V) /\ Evict(s, f).desc[f].activity \in V
<1> DEFINE u == Flush(s, f)
           d == u.desc[f]
           t == Evict(s, f)
           e == [d EXCEPT !.eviction_candidate = TRUE]
           a == e.activity
           D == [u.desc EXCEPT ![f] = e]
           N == [l \in ListNames |-> IF l = ListOf(e) THEN u.lists[a][l] \cup {f} ELSE u.lists[a][l] \ {f}]
           L == [u.lists EXCEPT ![a] = N]
           la == IF Precious(e) THEN u.laundry \cup {f} ELSE u.laundry
           av == IF Precious(e) THEN u.available ELSE u.available \cup {f}
           A == IF Precious(e) THEN Pending(u.act, a, 1) ELSE Charge(u.act, a, -1)
<1>0. Handles(s, u, f, V) /\ Tame(u, f, V) /\ Off(u, f) /\ f \notin u.written
  BY FlushHandles
<1> DEFINE w == [u EXCEPT !.desc = D, !.lists = L]
<1>1. t = IF Precious(e) THEN [w EXCEPT !.laundry = @ \cup {f}, !.act = Pending(@, a, 1)]
          ELSE [w EXCEPT !.available = @ \cup {f}, !.act = Charge(@, a, -1)]
  BY DEF Evict
<1> HIDE DEF u, w
<1>2. Good(u, V)
  BY <1>0 DEF Handles
<1>3. /\ d \in Descs /\ u \in States /\ u.desc \in DescMaps /\ ~d.eviction_candidate
      /\ d.activity \in V /\ d.activity \in Activities
      /\ u.lists \in ListMaps /\ u.act \in ActMaps /\ CountsOK(u.desc, u.act)
      /\ ListsOK(u.desc, u.lists) /\ PoolsOK(u.desc, u.laundry, u.available)
      /\ u.laundry \in SUBSET Frames /\ u.available \in SUBSET Frames
  BY <1>0, <1>2, StateParts DEF Fits, Tame
<1>4. /\ e \in Descs /\ e.eviction_candidate /\ a = d.activity /\ e.live = d.live
      /\ e.dirty = d.dirty /\ e.mapped = d.mapped
  <2> HIDE DEF d
  <2> QED BY <1>3 DEF Descs
<1>5. /\ ListOf(e) \in ListNames
      /\ ListOf(e) = "eviction_dirty" <=> Precious(e)
      /\ ListOf(e) = "eviction_clean" <=> ~Precious(e)
      /\ ListOf(d) # "eviction_dirty" /\ ListOf(d) # "eviction_clean"
  BY <1>3, <1>4, ListOfFacts
<1>6. Fits(e, V)
  BY <1>3, <1>4, NoneFacts DEF Fits
<1> HIDE DEF d, e, a
<1>7. D \in DescMaps /\ D[f] = e /\ \A g \in Frames : g # f => D[g] = u.desc[g]
  BY <1>3, <1>4 DEF DescMaps
<1>8. L \in ListMaps /\ L[a] = N /\ \A x \in Activities : x # a => L[x] = u.lists[x]
  <2>1. N \in [ListNames -> SUBSET Frames]
    BY <1>3, <1>4 DEF ListMaps
  <2> HIDE DEF N
  <2> QED BY <1>3, <1>4, <2>1 DEF ListMaps
<1>9. la \in SUBSET Frames /\ av \in SUBSET Frames
  BY <1>3
<1>10. /\ A \in ActMaps /\ Charged(A, Mine(D)) /\ Waiting(A, Dirty(D))
       /\ Graced(u.act) => Graced(A)
  <2> DEFINE M == Mine(u.desc)
             Q == Dirty(u.desc)
  <2>0. Charged(u.act, M) /\ Waiting(u.act, Q)
    BY <1>3 DEF CountsOK
  <2>1. /\ Mine(D) = IF Precious(e) THEN More(Less(M, f), a, f) ELSE Less(M, f)
        /\ Dirty(D) = IF Precious(e) THEN More(Less(Q, f), a, f) ELSE Less(Q, f)
    <3>1. e \in Descs /\ e.activity \in Activities /\ e.activity = a
      BY <1>3, <1>4 DEF a
    <3>2. /\ Mine(D) = IF e.activity \in Activities /\ ListOf(e) # "eviction_clean"
                       THEN More(Less(M, f), e.activity, f) ELSE Less(M, f)
          /\ Dirty(D) = IF e.activity \in Activities /\ ListOf(e) = "eviction_dirty"
                        THEN More(Less(Q, f), e.activity, f) ELSE Less(Q, f)
      BY <1>3, <3>1, HoldingsChange
    <3> QED BY <1>5, <3>1, <3>2
  <2>2. /\ M \in Holdings /\ Q \in Holdings /\ a \in Activities
        /\ \A x \in Activities : f \notin Q[x] /\ (f \in M[x] <=> x = a)
    <3>1. a \in Activities /\ \A x \in Activities : d.activity = x <=> x = a
      BY <1>3, <1>4
    <3>2. d = u.desc[f]
      BY DEF d
    <3> QED BY <1>3, <1>5, <3>1, <3>2, HoldingFacts
  <2>3. Less(Q, f) = Q
    BY <2>2, LessMore
  <2> HIDE DEF M, Q
  <2>4. CASE Precious(e)
    <3>1. \A x \in Activities : More(Less(M, f), a, f)[x] = M[x]
      BY <2>2 DEF More, Less
    <3>2. More(Less(M, f), a, f) = M
      <4>1. More(Less(M, f), a, f) = [x \in Activities |-> More(Less(M, f), a, f)[x]]
        BY DEF More
      <4>2. M = [x \in Activities |-> M[x]]
        BY <2>2 DEF Holdings
      <4> QED BY <3>1, <4>1, <4>2
    <3>3. /\ More(Q, a, f) \in Holdings /\ \A x \in Activities : x # a => More(Q, a, f)[x] = Q[x]
          /\ Cardinality(More(Q, a, f)[a]) = Cardinality(Q[a]) + 1
      BY <2>2, LessMore
    <3>4. 1 \in Int
      OBVIOUS
    <3>5. A = Pending(u.act, a, 1)
      BY <2>4
    <3>6. A \in ActMaps /\ SameCharges(u.act, A) /\ SameGrace(u.act, A)
      BY <1>3, <2>2, <3>4, <3>5, PendingIs
    <3>7. Waiting(A, More(Q, a, f))
      BY <1>3, <2>0, <2>2, <3>3, <3>4, <3>5, PendBy
    <3>8. Mine(D) = M /\ Dirty(D) = More(Q, a, f)
      BY <2>1, <2>3, <2>4, <3>2
    <3> HIDE DEF A, D
    <3> QED BY <2>0, <3>6, <3>7, <3>8, SameKeeps
  <2>5. CASE ~Precious(e)
    <3>1. /\ Less(M, f) \in Holdings /\ \A x \in Activities : x # a => Less(M, f)[x] = M[x]
          /\ Cardinality(Less(M, f)[a]) = Cardinality(M[a]) + (-1)
      BY <2>2, LessMore
    <3>2. A = Charge(u.act, a, -1)
      BY <2>5
    <3>3. A \in ActMaps /\ SamePending(u.act, A) /\ SameGrace(u.act, A)
      BY <1>3, <2>2, <3>2, ChargeIs, MinusOne
    <3>4. Charged(A, Less(M, f))
      BY <1>3, <2>0, <2>2, <3>1, <3>2, ChargeBy, MinusOne
    <3>5. Mine(D) = Less(M, f) /\ Dirty(D) = Q
      BY <2>1, <2>3, <2>5
    <3> HIDE DEF A, D
    <3> QED BY <2>0, <3>3, <3>4, <3>5, SameKeeps
  <2> QED BY <2>4, <2>5
<1> HIDE DEF A, t
<1>11. /\ t \in States /\ t.desc = D /\ t.lists = L /\ t.laundry = la /\ t.available = av
       /\ t.act = A /\ t.mapped = u.mapped /\ t.written = u.written
  <2> HIDE DEF D, L
  <2>1. /\ w \in States /\ w.desc = D /\ w.lists = L /\ w.laundry = u.laundry
        /\ w.available = u.available /\ w.act = u.act /\ w.mapped = u.mapped /\ w.written = u.written
    BY <1>3, <1>7, <1>8 DEF States, w
  <2>2. CASE Precious(e)
    <3>1. t = [w EXCEPT !.laundry = la, !.act = A] /\ av = u.available
      BY <1>1, <2>1, <2>2 DEF A
    <3> HIDE DEF la, av
    <3> QED BY <1>9, <1>10, <2>1, <3>1 DEF States
  <2>3. CASE ~Precious(e)
    <3>1. t = [w EXCEPT !.available = av, !.act = A] /\ la = u.laundry
      BY <1>1, <2>1, <2>3 DEF A
    <3> HIDE DEF la, av
    <3> QED BY <1>9, <1>10, <2>1, <3>1 DEF States
  <2> QED BY <2>2, <2>3
<1>12. Refit(u, t, f, e)
  <2>1. ASSUME NEW x \in Activities, NEW l \in ListNames, NEW g \in Frames
        PROVE  g \in t.lists[x][l] <=> IF g = f THEN e.activity = x
              /\ ListOf(e) = l ELSE g \in u.lists[x][l]
    <3>1. e.activity = a
      BY DEF a
    <3>2. CASE x = a
      <4>1. N[l] = IF l = ListOf(e) THEN u.lists[a][l] \cup {f} ELSE u.lists[a][l] \ {f}
        OBVIOUS
      <4>2. t.lists[x] = N
        <5> HIDE DEF N, L, D, la, av
        <5> QED BY <1>8, <1>11, <3>2
      <4> HIDE DEF N, L, D, la, av
      <4>3. t.lists[x][l] = IF l = ListOf(e) THEN u.lists[a][l] \cup {f} ELSE u.lists[a][l] \ {f}
        BY <4>1, <4>2
      <4> QED BY <3>1, <3>2, <4>3
    <3>3. CASE x # a
      <4>1. t.lists[x][l] = u.lists[x][l]
        BY <1>8, <1>11, <3>3
      <4>2. f \notin u.lists[x][l]
        BY <1>3, <1>4, <3>3 DEF ListsOK, d
      <4> QED BY <3>1, <3>3, <4>1, <4>2
    <3> QED BY <3>2, <3>3
  <2>2. ASSUME NEW g \in Frames
        PROVE  /\ g \in t.laundry <=> IF g = f THEN ListOf(e) = "eviction_dirty" ELSE g \in u.laundry
               /\ g \in t.available <=> IF g = f THEN ListOf(e) = "eviction_clean" ELSE g \in u.available
    <3>1. f \notin u.laundry /\ f \notin u.available
      BY <1>3, <1>5 DEF PoolsOK, d
    <3> QED BY <1>5, <1>11, <3>1
  <2> QED BY <1>11, <2>1, <2>2 DEF Refit
<1>13. Good(t, V)
  <2>1. ListsOK(t.desc, t.lists) /\ PoolsOK(t.desc, t.laundry, t.available) /\ OwnersOK(t.desc, V)
    BY <1>2, <1>6, <1>12, Refitted
  <2> QED BY <1>10, <1>11, <2>1 DEF Good, CountsOK
<1>14. Keeps(u, t, f)
  BY <1>0, <1>4, <1>7, <1>11 DEF Keeps, Sound, Noted, Off, d
<1>15. Elsewhere(u, t, f)
  BY <1>7, <1>11 DEF Elsewhere
<1>16. Handles(u, t, f, V)
  BY <1>10, <1>11, <1>13, <1>14, <1>15 DEF Handles
<1>17. t.desc[f].activity \in V
  BY <1>3, <1>4, <1>7, <1>11 DEF a
<1> QED BY <1>0, <1>16, <1>17, HandlesTwice DEF t
-----------------------------------------------------------------------------
(***************************************************************************)
(* The loops of reclaim_from (evict) and activity_destroy.                 *)
(***************************************************************************)
Default == [discardable |-> FALSE, priority |-> "lru"]

LoopStep(evict, s, a, f) == IF evict THEN Evict(s, f) ELSE Release(Find(s, a, f, Default), a, f)

LoopRuns(g, evict, s, a, list, n) ==
    g = [i \in 0..n |-> IF i = 0 THEN s ELSE LoopStep(evict, g[i - 1], a, list[i])]

LEMMA LoopMore ==
  ASSUME NEW evict, NEW s, NEW a, NEW list, NEW n \in Nat, NEW g, LoopRuns(g, evict, s, a, list, n)
  PROVE  \E h : LoopRuns(h, evict, s, a, list, n + 1)
<1> DEFINE e == LoopStep(evict, g[n], a, list[n + 1])
           h == [i \in 0..(n + 1) |-> IF i = n + 1 THEN e ELSE g[i]]
           k == [i \in 0..(n + 1) |-> IF i = 0 THEN s ELSE LoopStep(evict, h[i - 1], a, list[i])]
<1>1. ASSUME NEW i \in 0..(n + 1) PROVE h[i] = k[i]
  <2>1. CASE i = n + 1
    <3>1. i # 0 /\ i - 1 = n /\ n \in 0..(n + 1) /\ n # n + 1
      BY <2>1
    <3>2. h[i - 1] = g[n] /\ h[i] = e
      <4> HIDE DEF e
      <4> QED BY <2>1, <3>1
    <3>3. k[i] = LoopStep(evict, h[i - 1], a, list[i])
      <4> HIDE DEF h
      <4> QED BY <3>1
    <3> HIDE DEF h, k
    <3> QED BY <2>1, <3>2, <3>3
  <2>2. CASE i # n + 1
    <3>1. i \in 0..n /\ h[i] = g[i]
      BY <2>2
    <3>2. g[i] = IF i = 0 THEN s ELSE LoopStep(evict, g[i - 1], a, list[i])
      BY <3>1 DEF LoopRuns
    <3>3. i # 0 => h[i - 1] = g[i - 1]
      <4>1. i # 0 => i - 1 \in 0..(n + 1) /\ i - 1 # n + 1
        BY <3>1
      <4> HIDE DEF e
      <4> QED BY <4>1
    <3>4. k[i] = IF i = 0 THEN s ELSE LoopStep(evict, h[i - 1], a, list[i])
      <4> HIDE DEF h
      <4> QED OBVIOUS
    <3> HIDE DEF h, k
    <3> QED BY <3>1, <3>2, <3>3, <3>4
  <2> QED BY <2>1, <2>2
<1>2. h = k
  <2>1. /\ DOMAIN h = 0..(n + 1) /\ DOMAIN k = 0..(n + 1)
        /\ h = [i \in DOMAIN h |-> h[i]] /\ k = [i \in DOMAIN k |-> k[i]]
    OBVIOUS
  <2> HIDE DEF h, k
  <2> QED BY <1>1, <2>1
<1>3. LoopRuns(h, evict, s, a, list, n + 1)
  <2> HIDE DEF h
  <2> QED BY <1>2 DEF LoopRuns, k
<1> QED BY <1>3

LEMMA LoopExists ==
  ASSUME NEW evict, NEW s, NEW a, NEW list, NEW n \in Nat
  PROVE  \E g : LoopRuns(g, evict, s, a, list, n)
<1> DEFINE Bad == {m \in Nat : ~ \E g : LoopRuns(g, evict, s, a, list, m)}
<1>1. SUFFICES ASSUME Bad # {} PROVE FALSE
  OBVIOUS
<1>2. PICK x \in Bad : \A y \in Bad : ~(<<y, x>> \in OpToRel(<, Nat))
  BY <1>1, NatLessThanWellFounded, WFMin, Zenon
<1>3. CASE x = 0
  <2>1. LoopRuns([i \in 0..0 |-> s], evict, s, a, list, 0)
    <3>1. \A i \in 0..0 : i = 0
      OBVIOUS
    <3> QED BY <3>1 DEF LoopRuns
  <2> QED BY <1>3, <2>1
<1>4. CASE x # 0
  <2>1. x - 1 \in Nat /\ x - 1 < x /\ (x - 1) + 1 = x
    BY <1>4
  <2>2. x - 1 \notin Bad
    <3>1. <<x - 1, x>> \in OpToRel(<, Nat)
      BY <2>1 DEF OpToRel
    <3> QED BY <1>2, <3>1
  <2>3. PICK g : LoopRuns(g, evict, s, a, list, x - 1)
    BY <2>1, <2>2
  <2>4. \E h : LoopRuns(h, evict, s, a, list, x)
    BY <2>1, <2>3, LoopMore
  <2> QED BY <2>4
<1> QED BY <1>3, <1>4

LEMMA EvictAllIs ==
  ASSUME NEW s, NEW a, NEW S, NEW list \in Seq(S)
  PROVE  \E g : LoopRuns(g, TRUE, s, a, list, Len(list)) /\ EvictAll(s, list) = g[Len(list)]
<1> DEFINE g == CHOOSE g : g = [i \in 0..Len(list) |-> IF i = 0 THEN s ELSE Evict(g[i - 1], list[i])]
<1>1. LoopRuns(g, TRUE, s, a, list, Len(list))
  <2>0. Len(list) \in Nat
    OBVIOUS
  <2>1. \E h : LoopRuns(h, TRUE, s, a, list, Len(list))
    BY <2>0, LoopExists
  <2> QED BY <2>1 DEF LoopRuns, LoopStep
<1>2. EvictAll(s, list) = g[Len(list)]
  BY DEF EvictAll
<1> QED BY <1>1, <1>2

LEMMA FreeAllIs ==
  ASSUME NEW s, NEW a, NEW S, NEW list \in Seq(S)
  PROVE  \E g : LoopRuns(g, FALSE, s, a, list, Len(list)) /\ FreeAll(s, a, list) = g[Len(list)]
<1> DEFINE g == CHOOSE g : g = [i \in 0..Len(list) |->
                   IF i = 0 THEN s ELSE Release(Find(g[i - 1], a, list[i], Default), a, list[i])]
<1>1. LoopRuns(g, FALSE, s, a, list, Len(list))
  <2>0. Len(list) \in Nat
    OBVIOUS
  <2>1. \E h : LoopRuns(h, FALSE, s, a, list, Len(list))
    BY <2>0, LoopExists
  <2> QED BY <2>1 DEF LoopRuns, LoopStep
<1>2. FreeAll(s, a, list) = g[Len(list)]
  BY DEF FreeAll, Default
<1> QED BY <1>1, <1>2

\* What has become of the frames in G, and of the others.
Untouched(s, u, g) ==
    u.desc[g] = s.desc[g] /\ (g \in u.mapped <=> g \in s.mapped) /\ (g \in u.written <=> g \in s.written)
Freed(s, u, g) ==
    u.desc[g] = Unused /\ (Sound(s, g) => (g \in u.written => g \in u.mapped))
Ran(evict, s, u, G, V) ==
    /\ Good(u, V) /\ (Graced(s.act) => Graced(u.act))
    /\ \A g \in Frames : /\ g \notin G => Untouched(s, u, g)
                         /\ g \in G => IF evict THEN Keeps(s, u, g) /\ u.desc[g].activity \in V
                                      ELSE Freed(s, u, g)

LEMMA RanMore ==
  ASSUME NEW evict \in BOOLEAN, NEW s, NEW u, NEW G, NEW V \in SUBSET Activities, Ran(evict, s, u, G, V),
         NEW f \in Frames, f \notin G, s.desc[f].activity \in V, evict => Tame(s, f, V), NEW a \in V
  PROVE  Ran(evict, s, LoopStep(evict, u, a, f), G \cup {f}, V)
<1> DEFINE t == LoopStep(evict, u, a, f)
<1>1. Good(u, V) /\ (Graced(s.act) => Graced(u.act)) /\ Untouched(s, u, f)
  BY DEF Ran
<1>2. u.desc[f] = s.desc[f]
  BY <1>1 DEF Untouched
<1>3. Default \in AnyPolicy
  BY DEF Default, AnyPolicy, Priorities
<1>4. CASE evict
  <2>1. t = Evict(u, f)
    BY <1>4 DEF LoopStep
  <2>2. Handles(u, t, f, V) /\ t.desc[f].activity \in V
    BY <1>1, <1>2, <1>4, <2>1, EvictHandles DEF Tame
  <2> HIDE DEF t
  <2>3. Keeps(s, t, f)
    BY <1>1, <2>2 DEF Handles, Keeps, Untouched, Sound, Noted
  <2>4. ASSUME NEW g \in Frames, g # f
        PROVE  /\ (Untouched(s, u, g) => Untouched(s, t, g)) /\ (Keeps(s, u, g) => Keeps(s, t, g))
               /\ t.desc[g] = u.desc[g]
    BY <2>2, <2>4 DEF Handles, Elsewhere, Keeps, Untouched, Sound, Noted
  <2>5. Good(t, V) /\ (Graced(s.act) => Graced(t.act))
    BY <1>1, <2>2 DEF Handles
  <2> QED BY <1>4, <2>2, <2>3, <2>4, <2>5 DEF Ran, t
<1>5. CASE ~evict
  <2>1. t = Release(Find(u, a, f, Default), a, f)
    BY <1>5 DEF LoopStep
  <2>2. Released(u, t, f, V)
    BY <1>1, <1>2, <1>3, <2>1, FindRelease
  <2> HIDE DEF t
  <2>3. Freed(s, t, f)
    BY <1>1, <2>2 DEF Released, Freed, Untouched, Sound
  <2>4. ASSUME NEW g \in Frames, g # f
        PROVE (Untouched(s, u, g) => Untouched(s, t, g)) /\ (Freed(s, u, g) => Freed(s, t, g))
    BY <2>2, <2>4 DEF Released, Elsewhere, Freed, Untouched, Sound
  <2>5. Good(t, V) /\ (Graced(s.act) => Graced(t.act))
    BY <1>1, <2>2 DEF Released
  <2> QED BY <1>5, <2>3, <2>4, <2>5 DEF Ran, t
<1> QED BY <1>4, <1>5

LEMMA LoopGood ==
  ASSUME NEW evict \in BOOLEAN, NEW s, NEW V \in SUBSET Activities, Good(s, V), NEW a \in V,
         NEW list \in Seq(Frames), IsInjective(list),
         \A f \in ToSet(list) : s.desc[f].activity \in V /\ (evict => Tame(s, f, V)),
         NEW g, LoopRuns(g, evict, s, a, list, Len(list))
  PROVE  Ran(evict, s, g[Len(list)], ToSet(list), V)
<1> DEFINE n == Len(list)
<1>2. n \in Nat /\ DOMAIN list = 1..n /\ \A i \in 1..n : list[i] \in Frames
  OBVIOUS
<1>3. \A i \in 0..n : g[i] = IF i = 0 THEN s ELSE LoopStep(evict, g[i - 1], a, list[i])
  BY DEF LoopRuns
<1>4. \A i, j \in 1..n : list[i] = list[j] => i = j
  BY <1>2 DEF IsInjective
<1>5. \A i \in 1..n : s.desc[list[i]].activity \in V /\ (evict => Tame(s, list[i], V))
  BY <1>2 DEF ToSet
<1> HIDE DEF n
<1> DEFINE G(i) == {list[j] : j \in 1..i}
           Right(i) == Ran(evict, s, g[i], G(i), V)
           Bad == {i \in 0..n : ~Right(i)}
<1>6. Right(0)
  <2>1. g[0] = s
    BY <1>2, <1>3
  <2>2. G(0) = {}
    OBVIOUS
  <2> HIDE DEF G
  <2> QED BY <2>1, <2>2 DEF Ran, Untouched
<1>7. ASSUME NEW i \in 1..n, Right(i - 1) PROVE Right(i)
  <2> DEFINE f == list[i]
             H == G(i - 1)
  <2>1. i \in 0..n /\ i # 0 /\ i - 1 \in Nat /\ f \in Frames
    BY <1>2
  <2>2. g[i] = LoopStep(evict, g[i - 1], a, f)
    BY <1>3, <2>1
  <2>3. G(i) = H \cup {f}
    <3>1. 1..i = (1..(i - 1)) \cup {i}
      BY <2>1
    <3> QED BY <3>1
  <2>4. f \notin H
    <3>1. \A j \in 1..(i - 1) : j \in 1..n /\ j # i
      BY <1>2, <2>1
    <3> QED BY <1>4, <3>1
  <2>5. s.desc[f].activity \in V /\ (evict => Tame(s, f, V))
    BY <1>5
  <2>6. Ran(evict, s, g[i - 1], H, V)
    BY <1>7
  <2> HIDE DEF f, H, G
  <2>7. Ran(evict, s, LoopStep(evict, g[i - 1], a, f), H \cup {f}, V)
    BY <2>1, <2>4, <2>5, <2>6, RanMore
  <2> QED BY <2>2, <2>3, <2>7
<1> HIDE DEF Right
<1>8. Bad = {}
  <2> SUFFICES ASSUME Bad # {} PROVE FALSE
    OBVIOUS
  <2>0. Bad \subseteq Nat
    BY <1>2
  <2>1. PICK x \in Bad : \A y \in Bad : ~(<<y, x>> \in OpToRel(<, Nat))
    BY <2>0, NatLessThanWellFounded, WFMin, Zenon
  <2>2. x \in 0..n /\ ~Right(x) /\ x # 0
    BY <1>6, <2>1
  <2>3. x \in 1..n /\ x - 1 \in 0..n /\ x - 1 \in Nat /\ x \in Nat /\ x - 1 < x
    BY <1>2, <2>2
  <2>4. <<x - 1, x>> \in OpToRel(<, Nat)
    BY <2>3 DEF OpToRel
  <2>5. Right(x - 1)
    BY <2>1, <2>3, <2>4
  <2> QED BY <1>7, <2>2, <2>3, <2>5
<1>9. Right(n)
  BY <1>2, <1>8
<1>10. G(n) = ToSet(list)
  BY <1>2 DEF ToSet
<1> QED BY <1>9, <1>10 DEF Right, n

\* The lists that a loop goes through.
LEMMA WithoutRepeats ==
  ASSUME NEW S \in SUBSET Frames, NEW list, list \in SetToAllKPermutations(S)
  PROVE  list \in Seq(Frames) /\ IsInjective(list) /\ ToSet(list) \in SUBSET S
<1>1. \E R \in SUBSET S : list \in SetToSeqs(R)
  BY DEF SetToAllKPermutations
<1>2. ASSUME NEW R \in SUBSET S, list \in SetToSeqs(R)
      PROVE  list \in Seq(Frames) /\ IsInjective(list) /\ ToSet(list) \in SUBSET S
  <2> DEFINE n == Cardinality(R)
  <2>2. list \in [1..n -> R] /\ \A i, j \in 1..n : i # j => list[i] # list[j]
    BY <1>2 DEF SetToSeqs
  <2>3. n \in Nat
    BY FramesAssumption, FS_Subset, FS_CardinalityType
  <2> HIDE DEF n
  <2>4. list \in [1..n -> Frames]
    BY <2>2
  <2>5. list \in Seq(Frames)
    BY <2>3, <2>4
  <2>6. IsInjective(list)
    BY <2>2 DEF IsInjective
  <2>7. ToSet(list) \in SUBSET S
    BY <2>2 DEF ToSet
  <2> QED BY <2>5, <2>6, <2>7
<1> QED BY <1>1, <1>2
-----------------------------------------------------------------------------
(***************************************************************************)
(* The invariant.                                                          *)
(***************************************************************************)
LiveFits(d, V) == (d.live => d.activity \in V) /\ (~d.live => d = Unused)

FrameInv ==
    /\ Good(Now, alive)
    /\ alive \in SUBSET Activities /\ Activities \ Mortal \subseteq alive
    /\ \A f \in Frames : LiveFits(desc[f], alive)
    /\ modified \in SUBSET Frames /\ reply \in Frames \cup {None}

\* What the hardware's bits mean, whatever replies are overtaken.
HardInv == \A f \in Frames : Sound(Now, f) /\ (f \in modified => Noted(Now, f))

LEMMA NowIs ==
  /\ Now.desc = desc /\ Now.lists = lists /\ Now.act = act /\ Now.laundry = laundry
  /\ Now.available = available /\ Now.mapped = mapped /\ Now.written = written
BY DEF Now

LEMMA Arrive ==
  ASSUME NEW t \in States, Becomes(t)
  PROVE  Now' = t /\ desc' = t.desc /\ act' = t.act
BY DEF Becomes, Now, States

\* A handler changed one frame.
LEMMA HandlerDone ==
  ASSUME FrameInv, NEW f \in Frames, NEW t, Becomes(t), alive' = alive,
         Good(t, alive), Graced(act) => Graced(t.act), Elsewhere(Now, t, f),
         LiveFits(t.desc[f], alive),
         modified' \in SUBSET modified, reply' \in Frames \cup {None},
         Sound(Now, f) => Sound(t, f),
         f \in modified' => (Noted(Now, f) => Noted(t, f))
  PROVE  FrameInv' /\ (HardInv => HardInv') /\ (Graced(act) => Graced(act'))
<1>0. t \in States
  BY StateParts
<1>1. Now' = t /\ desc' = t.desc /\ act' = t.act
  BY <1>0, Arrive
<1>2. /\ Good(Now, alive) /\ alive \in SUBSET Activities /\ Activities \ Mortal \subseteq alive
      /\ \A g \in Frames : LiveFits(desc[g], alive)
      /\ modified \in SUBSET Frames /\ reply \in Frames \cup {None}
  BY DEF FrameInv
<1>3. \A g \in Frames : g # f => t.desc[g] = desc[g]
  BY NowIs DEF Elsewhere
<1>4. \A g \in Frames : LiveFits(t.desc[g], alive)
  BY <1>2, <1>3
<1>5. FrameInv'
  <2>1. Good(Now', alive')
    BY <1>1
  <2>2. \A g \in Frames : LiveFits(desc'[g], alive')
    BY <1>1, <1>4
  <2>3. modified' \in SUBSET Frames
    BY <1>2
  <2> QED BY <1>2, <2>1, <2>2, <2>3 DEF FrameInv
<1>6. ASSUME HardInv PROVE HardInv'
  <2>1. \A g \in Frames : Sound(Now, g) /\ (g \in modified => Noted(Now, g))
    BY <1>6 DEF HardInv
  <2>3. ASSUME NEW g \in Frames PROVE Sound(t, g) /\ (g \in modified' => Noted(t, g))
    <3>1. g \in modified' => g \in modified
      OBVIOUS
    <3>2. CASE g = f
      BY <2>1, <3>1, <3>2
    <3>3. CASE g # f
      <4>1. (Sound(Now, g) => Sound(t, g)) /\ (Noted(Now, g) => Noted(t, g))
        BY <3>3 DEF Elsewhere, Sound, Noted
      <4> QED BY <2>1, <3>1, <4>1
    <3> QED BY <3>2, <3>3
  <2>4. \A g \in Frames : Sound(Now', g) /\ (g \in modified' => Noted(Now', g))
    BY <1>1, <2>3
  <2> QED BY <2>4 DEF HardInv
<1> QED BY <1>1, <1>5, <1>6

\* A handler that leaves the frame with an owner and what is known of it.
LEMMA HandledDone ==
  ASSUME FrameInv, NEW f \in Frames, NEW t, Becomes(t), UNCHANGED <<modified, alive, reply, failed>>,
         Handles(Now, t, f, alive), Tame(t, f, alive), desc[f].live
  PROVE  FrameInv' /\ (HardInv => HardInv') /\ (Graced(act) => Graced(act'))
<1>1. /\ Good(t, alive) /\ (Graced(act) => Graced(t.act)) /\ Elsewhere(Now, t, f)
      /\ Sound(Now, f) => Sound(t, f)
      /\ Noted(Now, f) => Noted(t, f)
      /\ t.desc[f].live = desc[f].live
  BY NowIs DEF Handles, Keeps
<1>2. LiveFits(t.desc[f], alive)
  BY <1>1 DEF LiveFits, Tame
<1>3. /\ alive' = alive /\ modified' \in SUBSET modified /\ reply' \in Frames \cup {None}
      /\ reply' = reply
  BY DEF FrameInv
<1> HIDE DEF Handles, FrameInv, HardInv
<1> QED BY <1>1, <1>2, <1>3, HandlerDone

\* What a handler finds.
LEMMA Finds ==
  ASSUME FrameInv, NEW a, Serving(a), NEW f \in Frames, NEW policy \in Policies
  PROVE  /\ Good(Now, alive) /\ a \in alive /\ alive \in SUBSET Activities /\ policy \in AnyPolicy
         /\ desc[f].live => Now.desc[f].activity \in alive
         /\ LiveFits(desc[f], alive) /\ reply = None
BY FramesAssumption, NowIs DEF FrameInv, Serving, LiveFits, AnyPolicy

Safely ==
    /\ FrameInv'
    /\ HardInv => HardInv'
    /\ Mortal = {} /\ Graced(act) => Graced(act')

LEMMA LookupSafe ==
  ASSUME FrameInv, NEW a, NEW f \in Frames, NEW policy \in Policies, Lookup(a, f, policy)
  PROVE  Safely
<1> DEFINE t == Find(Now, a, f, policy)
<1>1. Serving(a) /\ desc[f].live /\ Becomes(t) /\ UNCHANGED <<modified, alive, reply, failed>>
  BY DEF Lookup
<1>2. Handles(Now, t, f, alive) /\ Tame(t, f, alive)
  BY <1>1, Finds, FindHandles
<1> HIDE DEF t
<1> QED BY <1>1, <1>2, HandledDone DEF Safely

LEMMA CapRuboutSafe ==
  ASSUME FrameInv, NEW a, NEW f \in Frames, NEW policy \in Policies, CapRubout(a, f, policy)
  PROVE  Safely
<1> DEFINE u == Find(Now, a, f, policy)
           t == Unmap(u, f)
<1>1. Serving(a) /\ desc[f].live /\ Becomes(t) /\ UNCHANGED <<modified, alive, reply, failed>>
  BY DEF CapRubout
<1>2. Handles(Now, u, f, alive) /\ Tame(u, f, alive) /\ alive \in SUBSET Activities
  BY <1>1, Finds, FindHandles
<1> HIDE DEF u
<1>3. Good(u, alive)
  BY <1>2 DEF Handles
<1>4. Handles(u, t, f, alive) /\ Tame(t, f, alive)
  BY <1>2, <1>3, UnmapHandles
<1> HIDE DEF t
<1>5. Handles(Now, t, f, alive)
  BY <1>2, <1>4, HandlesTwice
<1> QED BY <1>1, <1>4, <1>5, HandledDone DEF Safely

LEMMA SetPolicySafe ==
  ASSUME FrameInv, NEW a, NEW f \in Frames, NEW policy \in Policies, SetPolicy(a, f, policy)
  PROVE  Safely
<1> DEFINE u == Find(Now, a, f, policy)
           d == u.desc[f]
           p == [discardable |-> policy.discardable,
                 priority |-> IF d.activity = a THEN policy.priority ELSE d.priority]
           t == Claim(u, d.activity, f, p)
<1>1. Serving(a) /\ desc[f].live /\ Becomes(t) /\ UNCHANGED <<modified, alive, reply, failed>>
  BY DEF SetPolicy
<1>2. /\ Handles(Now, u, f, alive) /\ Tame(u, f, alive) /\ alive \in SUBSET Activities
      /\ policy \in AnyPolicy
  BY <1>1, Finds, FindHandles
<1> HIDE DEF u
<1>3. Good(u, alive) /\ d.activity \in alive
  BY <1>2 DEF Handles, Tame
<1>4. d \in Descs
  BY <1>3, StateParts DEF Fits
<1>5. p \in AnyPolicy
  BY <1>2, <1>4 DEF AnyPolicy, Descs
<1> HIDE DEF p
<1>6. Handles(u, t, f, alive) /\ Tame(t, f, alive)
  BY <1>2, <1>3, <1>5, ClaimHandles
<1> HIDE DEF t
<1>7. Handles(Now, t, f, alive)
  BY <1>2, <1>6, HandlesTwice
<1> QED BY <1>1, <1>6, <1>7, HandledDone DEF Safely

LEMMA FrameFreeSafe ==
  ASSUME FrameInv, NEW a, NEW f \in Frames, NEW policy \in Policies, FrameFree(a, f, policy)
  PROVE  Safely
<1> DEFINE t == Release(Find(Now, a, f, policy), a, f)
<1>1. /\ Serving(a) /\ desc[f].live /\ Becomes(t) /\ modified' = modified \ {f}
      /\ alive' = alive /\ reply' = reply
  BY DEF FrameFree
<1>2. Released(Now, t, f, alive)
  BY <1>1, Finds, FindRelease
<1> HIDE DEF t
<1>3. /\ Good(t, alive) /\ (Graced(act) => Graced(t.act)) /\ Elsewhere(Now, t, f)
      /\ t.desc[f] = Unused /\ (Sound(Now, f) => (f \in t.written => f \in t.mapped))
  BY <1>2, NowIs DEF Released
<1>4. LiveFits(t.desc[f], alive) /\ ~Unused.eviction_candidate
  BY <1>3 DEF LiveFits, Unused
<1>5. Sound(Now, f) => Sound(t, f)
  BY <1>3, <1>4 DEF Sound
<1>6. modified' \in SUBSET modified /\ f \notin modified' /\ reply' \in Frames \cup {None}
  BY <1>1 DEF FrameInv
<1> QED BY <1>1, <1>3, <1>4, <1>5, <1>6, HandlerDone DEF Safely

LEMMA ReallocSafe ==
  ASSUME FrameInv, NEW a, NEW f \in Frames, NEW policy \in Policies, Realloc(a, f, policy)
  PROVE  Safely
<1> DEFINE u1 == Find(Now, a, f, policy)
           u2 == Shootdown(u1, a, f)
           u3 == Flush(u2, f)
           c == [u3.desc[f] EXCEPT !.dirty = FALSE]
           u4 == [u3 EXCEPT !.desc = [u3.desc EXCEPT ![f] = c]]
           u5 == Claim(u4, a, f, policy)
           e == [u5.desc[f] EXCEPT !.shared = FALSE]
           t == [u5 EXCEPT !.desc = [u5.desc EXCEPT ![f] = e]]
<1>1. /\ Serving(a) /\ desc[f].live /\ Becomes(t) /\ modified' = modified \ {f}
      /\ alive' = alive /\ reply' = reply
  BY DEF Realloc
<1>2. /\ Handles(Now, u1, f, alive) /\ Tame(u1, f, alive) /\ alive \in SUBSET Activities
      /\ policy \in AnyPolicy /\ a \in alive
  BY <1>1, Finds, FindHandles
<1> HIDE DEF u1
<1>3. Good(u1, alive) /\ u1.desc[f].activity \in alive
  BY <1>2 DEF Handles, Tame
<1>4. Handles(u1, u2, f, alive) /\ Tame(u2, f, alive) /\ Off(u2, f)
  BY <1>2, <1>3, ShootdownHandles
<1> HIDE DEF u2
<1>5. Good(u2, alive)
  BY <1>4 DEF Handles
<1>6. Handles(u2, u3, f, alive) /\ Tame(u3, f, alive) /\ Off(u3, f) /\ f \notin u3.written
  BY <1>2, <1>4, <1>5, FlushHandles
<1> HIDE DEF u3
<1>7. Handles(Now, u3, f, alive) /\ Good(u3, alive)
  BY <1>2, <1>4, <1>6, HandlesTwice DEF Handles
<1>8. /\ c \in Descs /\ ~c.eviction_candidate /\ c.activity = u3.desc[f].activity
      /\ c.priority = u3.desc[f].priority /\ c.active = u3.desc[f].active
      /\ c.live = u3.desc[f].live /\ c.mapped = u3.desc[f].mapped
  <2> DEFINE d == u3.desc[f]
  <2>1. d \in Descs /\ ~d.eviction_candidate
    BY <1>6, <1>7, StateParts DEF Fits, Tame
  <2> HIDE DEF d
  <2>2. c = [d EXCEPT !.dirty = FALSE]
    BY DEF d
  <2> HIDE DEF c
  <2>3. /\ c \in Descs /\ ~c.eviction_candidate /\ c.activity = d.activity /\ c.priority = d.priority
        /\ c.active = d.active /\ c.live = d.live /\ c.mapped = d.mapped
    BY <2>1, <2>2 DEF Descs
  <2> QED BY <2>3 DEF d
<1> HIDE DEF c
<1>9. Marked(u3, u4, f, c, alive)
  BY <1>2, <1>6, <1>7, <1>8, FlagMarks
<1> HIDE DEF u4
<1>10. Good(u4, alive)
  BY <1>9 DEF Marked
<1>11. Handles(u4, u5, f, alive) /\ Tame(u5, f, alive) /\ u5.desc[f] \in Descs
  BY <1>2, <1>10, ClaimHandles DEF Owned
<1> HIDE DEF u5
<1>12. /\ e \in Descs /\ ~e.eviction_candidate /\ e.activity = u5.desc[f].activity
       /\ e.priority = u5.desc[f].priority /\ e.active = u5.desc[f].active
       /\ e.live = u5.desc[f].live /\ e.dirty = u5.desc[f].dirty /\ e.mapped = u5.desc[f].mapped
  <2> DEFINE d == u5.desc[f]
  <2>1. d \in Descs /\ ~d.eviction_candidate
    BY <1>11 DEF Tame
  <2> HIDE DEF d
  <2>2. e = [d EXCEPT !.shared = FALSE]
    BY DEF d
  <2> HIDE DEF e
  <2>3. /\ e \in Descs /\ ~e.eviction_candidate /\ e.activity = d.activity /\ e.priority = d.priority
        /\ e.active = d.active /\ e.live = d.live /\ e.dirty = d.dirty /\ e.mapped = d.mapped
    BY <2>1, <2>2 DEF Descs
  <2> QED BY <2>3 DEF d
<1> HIDE DEF e
<1>13. Good(u5, alive)
  BY <1>11 DEF Handles
<1>14. Handles(u5, t, f, alive) /\ Tame(t, f, alive)
  BY <1>2, <1>11, <1>12, <1>13, FlagHandles
<1> HIDE DEF t
<1>15. Handles(u4, t, f, alive)
  BY <1>11, <1>14, HandlesTwice
<1>16. /\ Good(t, alive) /\ (Graced(act) => Graced(t.act)) /\ Elsewhere(Now, t, f)
  <2>1. Graced(act) => Graced(t.act)
    BY <1>7, <1>9, <1>15, NowIs DEF Handles, Marked
  <2>2. Elsewhere(Now, t, f)
    BY <1>7, <1>9, <1>15 DEF Handles, Marked, Elsewhere
  <2> QED BY <1>15, <2>1, <2>2 DEF Handles
<1>17. t.desc[f].live = desc[f].live
  BY <1>7, <1>8, <1>9, <1>15, NowIs DEF Handles, Keeps, Marked
<1>18. LiveFits(t.desc[f], alive)
  BY <1>1, <1>14, <1>17 DEF LiveFits, Tame
<1>19. Sound(Now, f) => Sound(t, f)
  <2>1. Sound(Now, f) => Sound(u3, f)
    BY <1>7 DEF Handles, Keeps
  <2>2. Sound(u3, f) => Sound(u4, f)
    BY <1>8, <1>9 DEF Marked, SameHardware, Sound
  <2>3. Sound(u4, f) => Sound(t, f)
    BY <1>15 DEF Handles, Keeps
  <2> QED BY <2>1, <2>2, <2>3
<1>20. modified' \in SUBSET modified /\ f \notin modified' /\ reply' \in Frames \cup {None}
  BY <1>1 DEF FrameInv
<1> QED BY <1>1, <1>16, <1>18, <1>19, <1>20, HandlerDone DEF Safely

LEMMA FaultSafe ==
  ASSUME FrameInv, NEW a, NEW f \in Frames, NEW policy \in Policies, Fault(a, f, policy)
  PROVE  Safely
<1> DEFINE u == Find(Now, a, f, policy)
           e == [u.desc[f] EXCEPT !.mapped = TRUE]
           w == [u EXCEPT !.desc = [u.desc EXCEPT ![f] = e]]
<1>1. /\ Serving(a) /\ desc[f].live /\ Becomes(w) /\ modified' = modified /\ alive' = alive
      /\ reply' = f
  BY FramesAssumption DEF Fault
<1>2. /\ Handles(Now, u, f, alive) /\ SameHardware(Now, u) /\ Tame(u, f, alive)
      /\ alive \in SUBSET Activities
  BY <1>1, Finds, FindHandles
<1> HIDE DEF u
<1>3. Good(u, alive) /\ u.desc[f] \in Descs
  BY <1>2, StateParts DEF Handles, Fits
<1>4. /\ e \in Descs /\ ~e.eviction_candidate /\ e.activity = u.desc[f].activity
      /\ e.priority = u.desc[f].priority /\ e.active = u.desc[f].active
      /\ e.live = u.desc[f].live /\ e.dirty = u.desc[f].dirty /\ e.mapped
  <2> DEFINE d == u.desc[f]
  <2>1. d \in Descs /\ ~d.eviction_candidate
    BY <1>2, <1>3 DEF Tame
  <2> HIDE DEF d
  <2>2. e = [d EXCEPT !.mapped = TRUE]
    BY DEF d
  <2> HIDE DEF e
  <2>3. /\ e \in Descs /\ ~e.eviction_candidate /\ e.activity = d.activity /\ e.priority = d.priority
        /\ e.active = d.active /\ e.live = d.live /\ e.dirty = d.dirty /\ e.mapped
    BY <2>1, <2>2 DEF Descs
  <2> QED BY <2>3 DEF d
<1> HIDE DEF e
<1>5. Marked(u, w, f, e, alive)
  BY <1>2, <1>3, <1>4, FlagMarks
<1> HIDE DEF w
<1>8. Good(w, alive)
  BY <1>5 DEF Marked
<1>9. Graced(act) => Graced(w.act)
  BY <1>2, <1>5, NowIs DEF Handles, Marked
<1>10. Elsewhere(Now, w, f)
  BY <1>2, <1>5 DEF Handles, Marked, Elsewhere
<1>11. w.desc[f] = e /\ e.live = desc[f].live /\ e.activity \in alive
  BY <1>2, <1>4, <1>5, NowIs DEF Marked, Handles, Keeps, Tame
<1>12. LiveFits(w.desc[f], alive)
  BY <1>1, <1>11 DEF LiveFits
<1>13. Sound(Now, f) => Sound(w, f)
  <2>1. Sound(Now, f) => Sound(u, f)
    BY <1>2 DEF Handles, Keeps
  <2>2. Sound(u, f) => Sound(w, f)
    BY <1>4, <1>5, <1>11 DEF Marked, SameHardware, Sound
  <2> QED BY <2>1, <2>2
<1>14. Noted(Now, f) => Noted(w, f)
  <2>1. Noted(Now, f) => Noted(u, f)
    BY <1>2 DEF Handles, Keeps
  <2>2. Noted(u, f) => Noted(w, f)
    BY <1>4, <1>5, <1>11 DEF Marked, SameHardware, Noted
  <2> QED BY <2>1, <2>2
<1>15. modified' \in SUBSET modified /\ reply' \in Frames \cup {None}
  BY <1>1
<1> QED BY <1>1, <1>8, <1>9, <1>10, <1>12, <1>13, <1>14, <1>15, HandlerDone DEF Safely

LEMMA FrameAllocSafe ==
  ASSUME FrameInv, NEW a, NEW f \in Frames, NEW policy \in Policies, FrameAlloc(a, f, policy)
  PROVE  Safely
<1> DEFINE s == IF desc[f].live THEN Release(Now, a, f) ELSE Now
           e == [Unused EXCEPT !.live = TRUE]
           D == [s.desc EXCEPT ![f] = e]
           u == [s EXCEPT !.desc = D, !.written = s.written \ {f}]
           t == Claim(u, a, f, policy)
<1>1. /\ Serving(a) /\ Becomes(t) /\ modified' = modified \ {f} /\ alive' = alive /\ reply' = reply
  BY DEF FrameAlloc
<1>2. /\ Good(Now, alive) /\ a \in alive /\ alive \in SUBSET Activities /\ policy \in AnyPolicy
      /\ desc[f].live => Now.desc[f].activity \in alive
      /\ LiveFits(desc[f], alive)
  BY <1>1, Finds
<1>3. /\ Good(s, alive) /\ (Graced(act) => Graced(s.act)) /\ Elsewhere(Now, s, f)
      /\ s.desc[f] = Unused /\ (Sound(Now, f) => (f \in s.written => f \in s.mapped))
  <2>1. CASE desc[f].live
    <3>1. s = Release(Now, a, f)
      BY <2>1
    <3>2. Released(Now, s, f, alive)
      BY <1>2, <2>1, <3>1, ReleaseReleases
    <3> HIDE DEF s
    <3> QED BY <3>2, NowIs DEF Released
  <2>2. CASE ~desc[f].live
    <3>1. s = Now
      BY <2>2
    <3>2. Now.desc[f] = Unused
      BY <1>2, <2>2, NowIs DEF LiveFits
    <3>3. ~Unused.live
      BY DEF Unused
    <3>4. Sound(Now, f) => (f \in Now.written => f \in Now.mapped)
      BY <3>2, <3>3 DEF Sound
    <3> HIDE DEF s
    <3> QED BY <1>2, <3>1, <3>2, <3>4, NowIs DEF Elsewhere
  <2> QED BY <2>1, <2>2
<1> HIDE DEF s
<1>4. /\ e \in Descs /\ e.activity = None /\ ~e.eviction_candidate /\ e.live
      /\ Unused \in Descs /\ Unused.activity = None /\ ~Unused.eviction_candidate
      /\ e.priority = Unused.priority /\ e.active = Unused.active
  BY DEF Unused, Descs, Priorities
<1>5. ListOf(e) = ListOf(Unused) /\ Fits(e, alive)
  BY <1>4, SameList DEF Fits
<1>6. s \in States /\ s.desc \in DescMaps /\ s.written \in SUBSET Frames
  BY <1>3, StateParts
<1> HIDE DEF e
<1>7. D \in DescMaps
  BY <1>4, <1>6 DEF DescMaps
<1>8. /\ u \in States /\ u.desc = D /\ u.lists = s.lists /\ u.laundry = s.laundry
      /\ u.available = s.available /\ u.act = s.act
      /\ u.mapped = s.mapped /\ u.written = s.written \ {f}
  <2> DEFINE w == s.written \ {f}
  <2>1. w \in SUBSET Frames
    BY <1>6
  <2> HIDE DEF w, D
  <2>2. u = [s EXCEPT !.desc = D, !.written = w]
    BY DEF w
  <2> HIDE DEF u
  <2>3. /\ u \in States /\ u.desc = D /\ u.lists = s.lists /\ u.laundry = s.laundry
        /\ u.available = s.available /\ u.act = s.act
        /\ u.mapped = s.mapped /\ u.written = w
    BY <1>6, <1>7, <2>1, <2>2 DEF States
  <2> QED BY <2>3 DEF w
<1> HIDE DEF u
<1>9. Flagged(s, u, f, e)
  BY <1>8 DEF Flagged
<1>10. /\ Good(u, alive) /\ u.desc[f] = e /\ \A g \in Frames : g # f => u.desc[g] = s.desc[g]
       /\ Graced(s.act) => Graced(u.act)
  BY <1>3, <1>4, <1>5, <1>9, FlagsGood
<1>11. /\ Handles(u, t, f, alive) /\ SameHardware(u, t) /\ Tame(t, f, alive)
  BY <1>2, <1>10, ClaimHandles
<1> HIDE DEF t
<1>12. Good(t, alive) /\ (Graced(act) => Graced(t.act))
  BY <1>3, <1>10, <1>11 DEF Handles
<1>13. Elsewhere(Now, t, f)
  <2>1. Elsewhere(s, u, f)
    BY <1>8, <1>10 DEF Elsewhere
  <2> QED BY <1>3, <1>11, <2>1 DEF Handles, Elsewhere
<1>14. LiveFits(t.desc[f], alive)
  BY <1>4, <1>10, <1>11 DEF LiveFits, Handles, Keeps, Tame
<1>15. Sound(Now, f) => Sound(t, f)
  <2>1. Sound(Now, f) => Sound(u, f)
    BY <1>3, <1>4, <1>8, <1>10 DEF Sound
  <2> QED BY <1>11, <2>1 DEF Handles, Keeps
<1>16. modified' \in SUBSET modified /\ f \notin modified' /\ reply' \in Frames \cup {None}
  BY <1>1 DEF FrameInv
<1> QED BY <1>1, <1>12, <1>13, <1>14, <1>15, <1>16, HandlerDone DEF Safely

LEMMA SendReplySafe == ASSUME FrameInv, SendReply PROVE Safely
<1> DEFINE t == [Now EXCEPT !.mapped = mapped \cup {reply}]
<1>1. Good(Now, alive) /\ reply \in Frames /\ mapped \in SUBSET Frames
  BY StateParts, NowIs DEF FrameInv, SendReply
<1>2. Now' = t
  BY DEF Now, SendReply
<1>3. Now \in States
  BY <1>1, StateParts
<1>4. /\ t \in States /\ t.desc = Now.desc /\ t.lists = Now.lists /\ t.act = Now.act
      /\ t.laundry = Now.laundry /\ t.available = Now.available
      /\ t.mapped = Now.mapped \cup {reply} /\ t.written = Now.written
  <2> DEFINE m == mapped \cup {reply}
  <2>1. m \in SUBSET Frames
    BY <1>1
  <2>2. t = [Now EXCEPT !.mapped = m]
    OBVIOUS
  <2> HIDE DEF m, t
  <2>3. /\ t \in States /\ t.desc = Now.desc /\ t.lists = Now.lists /\ t.act = Now.act
        /\ t.laundry = Now.laundry /\ t.available = Now.available
        /\ t.mapped = m /\ t.written = Now.written
    BY <1>3, <2>1, <2>2 DEF States
  <2> QED BY <2>3, NowIs DEF m
<1> HIDE DEF t
<1>5. Good(t, alive)
  BY <1>1, <1>4 DEF Good
<1>6. FrameInv'
  BY <1>2, <1>5 DEF FrameInv, SendReply
<1>7. modified' = modified /\ act' = act
  BY DEF SendReply
<1>8. ASSUME HardInv PROVE HardInv'
  <2>1. \A g \in Frames : (Sound(Now, g) => Sound(t, g)) /\ (Noted(Now, g) => Noted(t, g))
    BY <1>4 DEF Sound, Noted
  <2> QED BY <1>2, <1>7, <1>8, <2>1 DEF HardInv
<1> QED BY <1>6, <1>7, <1>8 DEF Safely

LEMMA UserWriteSafe == ASSUME FrameInv, NEW f \in Frames, UserWrite(f) PROVE Safely
<1> DEFINE t == [Now EXCEPT !.written = written \cup {f}]
<1>1. Good(Now, alive) /\ written \in SUBSET Frames /\ modified \in SUBSET Frames
  BY StateParts, NowIs DEF FrameInv
<1>2. Now' = t
  BY DEF Now, UserWrite
<1>3. Now \in States
  BY <1>1, StateParts
<1>4. /\ t \in States /\ t.desc = Now.desc /\ t.lists = Now.lists /\ t.act = Now.act
      /\ t.laundry = Now.laundry /\ t.available = Now.available
      /\ t.mapped = Now.mapped /\ t.written = Now.written \cup {f}
  <2> DEFINE m == written \cup {f}
  <2>1. m \in SUBSET Frames
    BY <1>1
  <2>0. t = [Now EXCEPT !.written = m]
    OBVIOUS
  <2> HIDE DEF m, t
  <2>2. /\ t \in States /\ t.desc = Now.desc /\ t.lists = Now.lists /\ t.act = Now.act
        /\ t.laundry = Now.laundry /\ t.available = Now.available
        /\ t.mapped = Now.mapped /\ t.written = m
    BY <1>3, <2>0, <2>1 DEF States
  <2> QED BY <2>2, NowIs DEF m
<1> HIDE DEF t
<1>5. Good(t, alive)
  BY <1>1, <1>4 DEF Good
<1>6. /\ f \in mapped /\ modified' = modified \cup {f} /\ alive' = alive /\ reply' = reply
      /\ desc' = desc /\ act' = act
  BY DEF UserWrite
<1>7. FrameInv'
  BY <1>1, <1>2, <1>5, <1>6 DEF FrameInv
<1>8. ASSUME HardInv PROVE HardInv'
  <2>1. ASSUME NEW g \in Frames PROVE Sound(t, g) /\ (g \in modified' => Noted(t, g))
    <3>1. Sound(Now, g) /\ (g \in modified => Noted(Now, g)) /\ f \in Now.mapped /\ Sound(Now, f)
      BY <1>6, <1>8, NowIs DEF HardInv
    <3>2. Sound(t, g)
      BY <1>4, <3>1 DEF Sound
    <3>3. g \in modified' => Noted(t, g)
      BY <1>4, <1>6, <3>1 DEF Noted, Sound
    <3> QED BY <3>2, <3>3
  <2> QED BY <1>2, <2>1 DEF HardInv
<1> QED BY <1>6, <1>7, <1>8 DEF Safely

LEMMA AgerVisitSafe ==
  ASSUME FrameInv, NEW f \in Frames, NEW period \in BOOLEAN, NEW referenced \in BOOLEAN,
         NEW ages \in BOOLEAN, AgerVisit(f, period, referenced, ages)
  PROVE  Safely
<1> DEFINE d == desc[f]
           acts == referenced \/ (d.active /\ ~ages)
           takes == period /\ d.shared
           e == [d EXCEPT !.active = acts, !.dirty = @ \/ f \in written,
                          !.mapped = @ /\ ~takes, !.floating = @ \/ takes]
           D == [desc EXCEPT ![f] = e]
           L == IF d.priority = "lru" THEN Moved(d.activity, f, acts) ELSE lists
           m == IF takes THEN mapped \ {f} ELSE mapped
           w == written \ {f}
           t == [desc |-> D, lists |-> L, act |-> act, laundry |-> laundry,
                 available |-> available, mapped |-> m, written |-> w]
<1>1. /\ d.live /\ ~d.eviction_candidate /\ Becomes(t)
      /\ modified' = modified /\ alive' = alive /\ reply' = reply
  BY DEF AgerVisit, Becomes
<1>2. /\ Good(Now, alive) /\ alive \in SUBSET Activities /\ LiveFits(desc[f], alive)
  BY DEF FrameInv
<1>3. /\ desc \in DescMaps /\ lists \in ListMaps /\ act \in ActMaps
      /\ laundry \in SUBSET Frames /\ available \in SUBSET Frames
      /\ mapped \in SUBSET Frames /\ written \in SUBSET Frames
      /\ ListsOK(desc, lists) /\ PoolsOK(desc, laundry, available) /\ CountsOK(desc, act)
  BY <1>2, StateParts, NowIs
<1>4. d \in Descs /\ d.activity \in alive /\ d.activity \in Activities
  BY <1>1, <1>2, <1>3 DEF LiveFits, DescMaps
<1>5. /\ e \in Descs /\ e.active = acts /\ e.dirty = (d.dirty \/ f \in written)
      /\ e.mapped = (d.mapped /\ ~takes) /\ ~e.eviction_candidate
      /\ e.activity = d.activity /\ e.priority = d.priority /\ e.live = d.live
  <2> DEFINE x == d.dirty \/ f \in written
             y == d.mapped /\ ~takes
             z == d.floating \/ takes
  <2>1. acts \in BOOLEAN /\ x \in BOOLEAN /\ y \in BOOLEAN /\ z \in BOOLEAN
    BY <1>4 DEF Descs
  <2>2. e = [d EXCEPT !.active = acts, !.dirty = x, !.mapped = y, !.floating = z]
    OBVIOUS
  <2>3. ~d.eviction_candidate
    BY <1>1
  <2> HIDE DEF x, y, z, acts, d, e
  <2>4. /\ e \in Descs /\ e.active = acts /\ e.dirty = x /\ e.mapped = y /\ ~e.eviction_candidate
        /\ e.activity = d.activity /\ e.priority = d.priority /\ e.live = d.live
    BY <1>4, <2>1, <2>2, <2>3 DEF Descs
  <2> QED BY <2>4 DEF x, y
<1>6. Fits(e, alive)
  BY <1>4, <1>5 DEF Fits
<1>7. /\ ListOf(d) \in ListNames /\ ListOf(e) \in ListNames
      /\ ListOf(d) # "eviction_dirty" /\ ListOf(d) # "eviction_clean"
      /\ ListOf(e) # "eviction_dirty" /\ ListOf(e) # "eviction_clean"
      /\ d.priority # "lru" => ListOf(d) = "priorities" /\ ListOf(e) = "priorities"
      /\ d.priority = "lru" =>
            /\ ListOf(d) = "active" \/ ListOf(d) = "inactive"
            /\ ListOf(e) = IF acts THEN "active" ELSE "inactive"
  BY <1>1, <1>4, <1>5, ListOfFacts
<1> HIDE DEF e
<1>8. D \in DescMaps /\ D[f] = e /\ \A g \in Frames : g # f => D[g] = desc[g]
  BY <1>3, <1>5 DEF DescMaps
<1>9. /\ L \in ListMaps
      /\ \A x \in Activities, l \in ListNames, g \in Frames :
            g \in L[x][l] <=> IF g = f THEN e.activity = x /\ ListOf(e) = l ELSE g \in lists[x][l]
  <2> DEFINE a == d.activity
             N == [l \in ListNames |->
                     IF l = "active" THEN IF acts THEN lists[a][l] \cup {f} ELSE lists[a][l] \ {f}
                     ELSE IF l = "inactive" THEN IF acts THEN lists[a][l] \ {f} ELSE lists[a][l] \cup {f}
                     ELSE lists[a][l]]
  <2>1. CASE d.priority # "lru"
    <3>1. L = lists /\ ListOf(e) = ListOf(d)
      BY <1>7, <2>1
    <3> QED BY <1>3, <1>5, <3>1 DEF ListsOK
  <2>2. CASE d.priority = "lru"
    <3>1. L = [lists EXCEPT ![a] = N]
      BY <2>2 DEF Moved
    <3>2. N \in [ListNames -> SUBSET Frames]
      BY <1>3, <1>4 DEF ListMaps
    <3>3. \A l \in ListNames : N[l] =
                     IF l = "active" THEN IF acts THEN lists[a][l] \cup {f} ELSE lists[a][l] \ {f}
                     ELSE IF l = "inactive" THEN IF acts THEN lists[a][l] \ {f} ELSE lists[a][l] \cup {f}
                     ELSE lists[a][l]
      OBVIOUS
    <3>4. "active" # "inactive"
      OBVIOUS
    <3> HIDE DEF N, L, a
    <3>5. L \in ListMaps /\ L[a] = N /\ \A x \in Activities : x # a => L[x] = lists[x]
      BY <1>3, <1>4, <3>1, <3>2 DEF ListMaps, a
    <3>6. ASSUME NEW x \in Activities, NEW l \in ListNames, NEW g \in Frames
          PROVE  g \in L[x][l] <=> IF g = f THEN e.activity = x /\ ListOf(e) = l ELSE g \in lists[x][l]
      <4>1. f \in lists[x][l] <=> d.activity = x /\ ListOf(d) = l
        BY <1>3 DEF ListsOK
      <4>2. e.activity = a /\ d.activity = a
        BY <1>5 DEF a
      <4> HIDE DEF d, acts
      <4>3. CASE x # a
        BY <3>5, <4>1, <4>2, <4>3
      <4>4. CASE x = a /\ l = "active"
        BY <1>7, <2>2, <3>3, <3>4, <3>5, <4>2, <4>4
      <4>5. CASE x = a /\ l = "inactive"
        BY <1>7, <2>2, <3>3, <3>4, <3>5, <4>2, <4>5
      <4>6. CASE x = a /\ l # "active" /\ l # "inactive"
        BY <1>7, <2>2, <3>3, <3>5, <4>1, <4>2, <4>6
      <4> QED BY <4>3, <4>4, <4>5, <4>6
    <3> QED BY <3>5, <3>6
  <2> QED BY <2>1, <2>2
<1>10. m \in SUBSET Frames /\ w \in SUBSET Frames
  BY <1>3
<1>11. /\ t \in States /\ t.desc = D /\ t.lists = L /\ t.act = act /\ t.laundry = laundry
       /\ t.available = available /\ t.mapped = m /\ t.written = w
  <2> HIDE DEF D, L, m, w
  <2> QED BY <1>3, <1>8, <1>9, <1>10 DEF States
<1> HIDE DEF t, L
<1>12. Refit(Now, t, f, e)
  <2>1. t.desc = [Now.desc EXCEPT ![f] = e]
    BY <1>11, NowIs
  <2>2. \A x \in Activities, l \in ListNames, g \in Frames :
            g \in t.lists[x][l] <=> IF g = f THEN e.activity = x
              /\ ListOf(e) = l ELSE g \in Now.lists[x][l]
    BY <1>9, <1>11, NowIs
  <2>3. f \notin laundry /\ f \notin available
    BY <1>3, <1>7 DEF PoolsOK
  <2>4. \A g \in Frames :
          /\ g \in t.laundry <=> IF g = f THEN ListOf(e) = "eviction_dirty" ELSE g \in Now.laundry
          /\ g \in t.available <=> IF g = f THEN ListOf(e) = "eviction_clean" ELSE g \in Now.available
    BY <1>7, <1>11, <2>3, NowIs
  <2> QED BY <1>11, <2>1, <2>2, <2>4 DEF Refit
<1>13. Good(t, alive)
  <2>1. Mine(D) = Mine(desc) /\ Dirty(D) = Dirty(desc)
    BY <1>3, <1>5, <1>7, HoldingsStay
  <2>2. CountsOK(t.desc, t.act)
    BY <1>3, <1>11, <2>1 DEF CountsOK
  <2>3. ListsOK(t.desc, t.lists) /\ PoolsOK(t.desc, t.laundry, t.available) /\ OwnersOK(t.desc, alive)
    BY <1>2, <1>6, <1>12, Refitted
  <2> QED BY <1>11, <2>2, <2>3 DEF Good
<1>14. Elsewhere(Now, t, f)
  BY <1>8, <1>11, NowIs DEF Elsewhere
<1>15. t.desc[f] = e
  BY <1>8, <1>11
<1>16. LiveFits(t.desc[f], alive)
  BY <1>1, <1>4, <1>5, <1>15 DEF LiveFits
<1>17. Sound(Now, f) => Sound(t, f)
  <2>1. f \notin t.written /\ (f \in t.mapped => ~takes /\ f \in mapped)
    BY <1>11
  <2> HIDE DEF takes
  <2> QED BY <1>1, <1>5, <1>15, <2>1, NowIs DEF Sound
<1>18. Noted(Now, f) => Noted(t, f)
  BY <1>1, <1>5, <1>15, NowIs DEF Noted
<1>19. modified' \in SUBSET modified /\ reply' \in Frames \cup {None} /\ reply' = reply
  BY <1>1 DEF FrameInv
<1>20. Graced(act) => Graced(t.act)
  BY <1>11
<1> QED BY <1>1, <1>13, <1>14, <1>16, <1>17, <1>18, <1>19, <1>20, HandlerDone DEF Safely

\* The counters change harmlessly.
LEMMA ActGood ==
  ASSUME NEW s, NEW V, Good(s, V), NEW B, Harmless(s.act, B)
  PROVE  LET t == [s EXCEPT !.act = B]
         IN  /\ Good(t, V) /\ t.desc = s.desc /\ t.mapped = s.mapped /\ t.written = s.written
             /\ t.act = B /\ (Graced(s.act) => Graced(t.act))
<1> DEFINE t == [s EXCEPT !.act = B]
<1>1. s \in States /\ B \in ActMaps
  BY StateParts DEF Harmless
<1>2. /\ t \in States /\ t.desc = s.desc /\ t.lists = s.lists /\ t.act = B /\ t.laundry = s.laundry
      /\ t.available = s.available /\ t.mapped = s.mapped /\ t.written = s.written
  BY <1>1 DEF States
<1> HIDE DEF t
<1>3. CountsOK(s.desc, B)
  BY StateParts, SameKeeps DEF CountsOK, Harmless
<1>4. Good(t, V)
  BY <1>2, <1>3 DEF Good
<1> QED BY <1>2, <1>4 DEF Harmless, t

LEMMA AskToFreeSafe ==
  ASSUME FrameInv, NEW v \in Activities, NEW goal \in Goals, AskToFree(v, goal) PROVE Safely
<1> DEFINE q == act[v]
           k == q.frames_local
           h == goal \div 2
           r == [q EXCEPT !.free_goal = h, !.free_allocations = FreeAllocations,
                          !.free_initial_allocation = k]
           B == Exclude([act EXCEPT ![v] = r], v, k)
           t == [Now EXCEPT !.act = B]
<1>1. /\ q.free_goal = 0 /\ q.free_bad_karma = 0 /\ act' = B
      /\ UNCHANGED <<desc, lists, laundry, available, mapped, written, modified, alive, reply>>
  BY DEF AskToFree
<1>2. Good(Now, alive) /\ act \in ActMaps /\ CountsOK(desc, act) /\ desc \in DescMaps
  BY StateParts, NowIs DEF FrameInv
<1>3. q \in Acts /\ k \in Nat
  <2>1. q \in Acts
    BY <1>2 DEF ActMaps
  <2>2. k = Cardinality(Mine(desc)[v]) /\ IsFiniteSet(Mine(desc)[v])
    BY <1>2, HoldingFacts, SizesNat DEF CountsOK, Charged
  <2>3. k \in Nat
    BY <2>2, FS_CardinalityType
  <2> QED BY <2>1, <2>3
<1>4. h \in Nat /\ h # 0 /\ FreeAllocations \in Nat /\ FreeAllocations # 0
  <2>1. goal \in Nat /\ goal >= 2
    BY FramesAssumption
  <2>2. h \in Nat /\ h # 0
    BY <2>1
  <2> QED BY <2>2, FramesAssumption
<1>5. Harmless(act, B)
  <2> HIDE DEF q, k, h
  <2>1. /\ r \in Acts /\ r.frames_local = q.frames_local /\ r.frames_total = q.frames_total
        /\ r.frames_pending_eviction = q.frames_pending_eviction
        /\ r.frames_excluded = q.frames_excluded
        /\ r.free_goal = h /\ r.free_allocations = FreeAllocations /\ r.free_initial_allocation = k
        /\ r.free_bad_karma = q.free_bad_karma
    BY <1>3, <1>4 DEF Acts
  <2> HIDE DEF r
  <2>2. Graced(act) => GrantOf(r) = GrantOf(q) + k /\ AskedWell(r)
    <3> SUFFICES ASSUME Graced(act) PROVE GrantOf(r) = GrantOf(q) + k /\ AskedWell(r)
      OBVIOUS
    <3>1. AskedWell(q)
      BY GracedWell DEF q
    <3>2. GrantOf(q) = 0
      BY <1>1, <3>1 DEF AskedWell, GrantOf
    <3>3. GrantOf(r) = k /\ AskedWell(r)
      BY <1>1, <1>4, <2>1 DEF AskedWell, GrantOf
    <3> QED BY <1>3, <3>2, <3>3
  <2>3. k \in Int
    BY <1>3
  <2> QED BY <1>2, <2>1, <2>2, <2>3, ReplaceExclude DEF q
<1> HIDE DEF B
<1>6. /\ Good(t, alive) /\ t.desc = Now.desc /\ t.mapped = Now.mapped /\ t.written = Now.written
      /\ t.act = B /\ (Graced(act) => Graced(t.act))
  BY <1>2, <1>5, ActGood, NowIs
<1>7. Now' = t
  BY <1>1 DEF Now
<1> HIDE DEF t
<1>8. FrameInv'
  BY <1>1, <1>6, <1>7 DEF FrameInv
<1>9. ASSUME HardInv PROVE HardInv'
  <2>1. \A g \in Frames : (Sound(Now, g) <=> Sound(t, g)) /\ (Noted(Now, g) <=> Noted(t, g))
    BY <1>6 DEF Sound, Noted
  <2> QED BY <1>1, <1>7, <1>9, <2>1 DEF HardInv
<1> QED BY <1>1, <1>6, <1>8, <1>9 DEF Safely

\* What may be taken from an activity is not a candidate.
LEMMA YieldsTame ==
  ASSUME FrameInv, NEW v \in alive
  PROVE  Yields(v) \in SUBSET Frames /\ \A f \in Yields(v) : Tame(Now, f, alive)
<1>1. /\ Good(Now, alive) /\ v \in Activities /\ desc \in DescMaps /\ lists \in ListMaps
      /\ ListsOK(desc, lists)
  BY StateParts, NowIs DEF FrameInv
<1>2. "priorities" \in ListNames /\ "active" \in ListNames /\ "inactive" \in ListNames
  BY DEF ListNames
<1>3. Yields(v) \in SUBSET Frames
  BY <1>1, <1>2 DEF Yields, ListMaps
<1>4. ASSUME NEW f \in Yields(v) PROVE Tame(Now, f, alive)
  <2>1. f \in Frames /\ desc[f] \in Descs
    BY <1>1, <1>3 DEF DescMaps
  <2>2. desc[f].activity = v /\
        (ListOf(desc[f]) = "priorities" \/ ListOf(desc[f]) = "active" \/ ListOf(desc[f]) = "inactive")
    BY <1>1, <1>2, <2>1 DEF Yields, ListsOK
  <2>3. ~desc[f].eviction_candidate
    BY <2>1, <2>2 DEF ListOf
  <2> QED BY <2>2, <2>3, NowIs DEF Tame
<1> QED BY <1>3, <1>4

LEMMA ForgivenHarmless ==
  ASSUME NEW A \in ActMaps, NEW v \in Activities
  PROVE  Harmless(A, Forgiven(A, v))
<1> DEFINE q == A[v]
           k == IF q.free_bad_karma = 0 THEN 0 ELSE q.free_bad_karma - 1
           r == [q EXCEPT !.free_bad_karma = k]
<1>1. q \in Acts
  BY DEF ActMaps
<1>2. k \in Nat /\ (q.free_bad_karma = 0 => k = 0)
  BY <1>1 DEF Acts
<1>3. Forgiven(A, v) = [A EXCEPT ![v] = r]
  BY DEF Forgiven
<1> HIDE DEF q, k
<1>4. /\ r \in Acts /\ r.frames_local = q.frames_local /\ r.frames_total = q.frames_total
      /\ r.frames_pending_eviction = q.frames_pending_eviction
      /\ r.frames_excluded = q.frames_excluded
      /\ r.free_goal = q.free_goal /\ r.free_allocations = q.free_allocations
      /\ r.free_initial_allocation = q.free_initial_allocation /\ r.free_bad_karma = k
  BY <1>1, <1>2 DEF Acts
<1> HIDE DEF r
<1>5. AskedWell(q) => GrantOf(r) = GrantOf(q) /\ AskedWell(r)
  BY <1>2, <1>4 DEF AskedWell, GrantOf
<1>6. Graced(A) => AskedWell(q)
  BY GracedWell DEF q
<1> QED BY <1>3, <1>4, <1>5, <1>6, ReplaceKeep DEF q

LEMMA ReclaimSafe ==
  ASSUME FrameInv, NEW v \in Activities, NEW list \in SetToAllKPermutations(Yields(v)), Reclaim(v, list)
  PROVE  Safely
<1> DEFINE s == [Now EXCEPT !.act = Forgiven(act, v)]
           t == EvictAll(s, list)
           G == ToSet(list)
<1>1. /\ v \in alive /\ Becomes(t) /\ modified' = modified /\ alive' = alive /\ reply' = reply
  BY NowIs DEF Reclaim
<1>2. /\ Good(Now, alive) /\ alive \in SUBSET Activities /\ Activities \ Mortal \subseteq alive
      /\ \A f \in Frames : LiveFits(desc[f], alive)
      /\ modified \in SUBSET Frames /\ reply \in Frames \cup {None}
  BY DEF FrameInv
<1>3. Yields(v) \in SUBSET Frames /\ \A f \in Yields(v) : Tame(Now, f, alive)
  BY <1>1, YieldsTame
<1>4. list \in Seq(Frames) /\ IsInjective(list) /\ G \in SUBSET Yields(v)
  BY <1>3, WithoutRepeats
<1>5. Harmless(act, Forgiven(act, v))
  BY <1>2, StateParts, NowIs, ForgivenHarmless
<1>6. /\ Good(s, alive) /\ s.desc = desc /\ s.mapped = mapped /\ s.written = written
      /\ (Graced(act) => Graced(s.act))
  BY <1>2, <1>5, ActGood, NowIs
<1> HIDE DEF s
<1>7. \A f \in G : s.desc[f].activity \in alive /\ Tame(s, f, alive)
  BY <1>3, <1>4, <1>6, NowIs DEF Tame
<1>8. PICK g : LoopRuns(g, TRUE, s, v, list, Len(list)) /\ t = g[Len(list)]
  BY <1>4, EvictAllIs
<1>9. Ran(TRUE, s, t, G, alive)
  <2> HIDE DEF t
  <2>1. TRUE \in BOOLEAN /\ Ran(TRUE, s, g[Len(list)], G, alive)
    BY <1>1, <1>2, <1>4, <1>6, <1>7, <1>8, LoopGood
  <2> QED BY <1>8, <2>1
<1> HIDE DEF t, G
<1>10. /\ Good(t, alive) /\ (Graced(act) => Graced(t.act))
       /\ \A f \in Frames : /\ f \notin G => Untouched(s, t, f)
                            /\ f \in G => Keeps(s, t, f) /\ t.desc[f].activity \in alive
  BY <1>6, <1>9 DEF Ran
<1>11. t \in States /\ Now' = t /\ desc' = t.desc /\ act' = t.act
  BY <1>1, <1>10, StateParts, Arrive
<1>12. ASSUME NEW f \in Frames
       PROVE  /\ LiveFits(t.desc[f], alive)
              /\ Sound(Now, f) => Sound(t, f)
              /\ Noted(Now, f) => Noted(t, f)
  <2>1. (Sound(Now, f) <=> Sound(s, f)) /\ (Noted(Now, f) <=> Noted(s, f)) /\ LiveFits(s.desc[f], alive)
    BY <1>2, <1>6, NowIs DEF Sound, Noted
  <2>2. CASE f \notin G
    <3>1. Untouched(s, t, f)
      BY <1>10, <2>2
    <3> QED BY <2>1, <3>1 DEF Untouched, Sound, Noted
  <2>3. CASE f \in G
    <3>1. Keeps(s, t, f) /\ t.desc[f].activity \in alive /\ s.desc[f].activity \in alive
      BY <1>7, <1>10, <2>3
    <3>2. s.desc[f].live
      BY <1>2, <2>1, <3>1, NoneFacts DEF LiveFits, Unused
    <3> QED BY <2>1, <3>1, <3>2 DEF Keeps, LiveFits
  <2> QED BY <2>2, <2>3
<1>13. FrameInv'
  BY <1>1, <1>2, <1>10, <1>11, <1>12 DEF FrameInv
<1>14. ASSUME HardInv PROVE HardInv'
  BY <1>1, <1>11, <1>12, <1>14 DEF HardInv
<1> QED BY <1>10, <1>11, <1>13, <1>14 DEF Safely
-----------------------------------------------------------------------------
(***************************************************************************)
(* The lists of an activity are its holdings.                              *)
(***************************************************************************)
LEMMA CardDisjoint ==
  ASSUME NEW S, NEW T, IsFiniteSet(S), IsFiniteSet(T), S \cap T = {}
  PROVE  /\ IsFiniteSet(S \cup T) /\ Cardinality(S \cup T) = Cardinality(S) + Cardinality(T)
         /\ Cardinality(S) \in Nat /\ Cardinality(T) \in Nat
<1>1. Cardinality(S) \in Nat /\ Cardinality(T) \in Nat
  BY FS_CardinalityType
<1>2. Cardinality(S \cap T) = 0
  BY FS_EmptySet
<1>3. IsFiniteSet(S \cup T) /\ Cardinality(S \cup T) = Cardinality(S) + Cardinality(T) - Cardinality(S \cap T)
  BY FS_Union
<1> QED BY <1>1, <1>2, <1>3

LEMMA MineLists ==
  ASSUME NEW D \in DescMaps, NEW L \in ListMaps, ListsOK(D, L), NEW a \in Activities
  PROVE  LET P == L[a]["priorities"]
             C == L[a]["active"]
             I == L[a]["inactive"]
             Q == L[a]["eviction_dirty"]
         IN  /\ Dirty(D)[a] = Q /\ Mine(D)[a] = (P \cup C \cup I) \cup Q
             /\ Cardinality(P \cup C \cup I) = Cardinality(C) + Cardinality(P) + Cardinality(I)
             /\ Cardinality(Mine(D)[a]) = Cardinality(P \cup C \cup I) + Cardinality(Q)
             /\ IsFiniteSet(Q) /\ Cardinality(Q) \in Nat /\ Cardinality(P \cup C \cup I) \in Nat
<1> DEFINE P == L[a]["priorities"]
           C == L[a]["active"]
           I == L[a]["inactive"]
           Q == L[a]["eviction_dirty"]
           Is(f, l) == f \in Frames /\ D[f].activity = a /\ ListOf(D[f]) = l
<1>1. /\ \A f : f \in P <=> Is(f, "priorities")
      /\ \A f : f \in C <=> Is(f, "active")
      /\ \A f : f \in I <=> Is(f, "inactive")
      /\ \A f : f \in Q <=> Is(f, "eviction_dirty")
  BY DEF ListsOK, ListMaps, ListNames
<1>2. /\ "priorities" # "active" /\ "priorities" # "inactive" /\ "active" # "inactive"
      /\ "eviction_dirty" # "priorities" /\ "eviction_dirty" # "active" /\ "eviction_dirty" # "inactive"
      /\ "eviction_clean" # "priorities" /\ "eviction_clean" # "active"
      /\ "eviction_clean" # "inactive" /\ "eviction_clean" # "eviction_dirty"
  OBVIOUS
<1>3. P \in SUBSET Frames /\ C \in SUBSET Frames /\ I \in SUBSET Frames /\ Q \in SUBSET Frames
  BY <1>1
<1>4. IsFiniteSet(P) /\ IsFiniteSet(C) /\ IsFiniteSet(I) /\ IsFiniteSet(Q)
  BY <1>3, FramesAssumption, FS_Subset
<1>5. P \cap C = {} /\ (P \cup C) \cap I = {} /\ (P \cup C \cup I) \cap Q = {}
  BY <1>1, <1>2
<1>6. Dirty(D)[a] = Q
  <2>1. \A f : f \in Dirty(D)[a] <=> Is(f, "eviction_dirty")
    BY DEF Dirty
  <2> HIDE DEF Is
  <2> QED BY <1>1, <2>1
<1>7. Mine(D)[a] = (P \cup C \cup I) \cup Q
  <2>1. \A f : f \in Mine(D)[a] <=> f \in Frames /\ D[f].activity = a /\ ListOf(D[f]) # "eviction_clean"
    BY DEF Mine
  <2>2. \A f \in Frames : ListOf(D[f]) \in ListNames
    BY ListOfFacts DEF DescMaps
  <2>3. \A f : f \in Mine(D)[a] <=> f \in (P \cup C \cup I) \cup Q
    BY <1>1, <1>2, <2>1, <2>2 DEF ListNames
  <2> QED BY <2>3
<1> HIDE DEF P, C, I, Q
<1>8. /\ IsFiniteSet(P \cup C) /\ Cardinality(P \cup C) = Cardinality(P) + Cardinality(C)
      /\ Cardinality(P) \in Nat /\ Cardinality(C) \in Nat
  BY <1>4, <1>5, CardDisjoint
<1>9. /\ IsFiniteSet(P \cup C \cup I) /\ Cardinality(I) \in Nat
      /\ Cardinality(P \cup C \cup I) = Cardinality(P \cup C) + Cardinality(I)
  BY <1>4, <1>5, <1>8, CardDisjoint
<1>10. /\ Cardinality((P \cup C \cup I) \cup Q) = Cardinality(P \cup C \cup I) + Cardinality(Q)
       /\ Cardinality(P \cup C \cup I) \in Nat /\ Cardinality(Q) \in Nat
  BY <1>4, <1>5, <1>9, CardDisjoint
<1>11. Cardinality(P \cup C \cup I) = Cardinality(C) + Cardinality(P) + Cardinality(I)
  BY <1>8, <1>9
<1> QED BY <1>4, <1>6, <1>7, <1>10, <1>11 DEF P, C, I, Q

(***************************************************************************)
(* The parent inherits.                                                    *)
(***************************************************************************)
\* The holdings of v are those of p.
Passed(M, v, p) == [a \in Activities |-> IF a = v THEN {} ELSE IF a = p THEN M[p] \cup M[v] ELSE M[a]]

LEMMA PassedTotals ==
  ASSUME NEW M \in Holdings, NEW v \in Activities, NEW p \in Activities, p = Parent[v], p # v,
         \A b \in Activities : Parent[b] # v, M[p] \cap M[v] = {}
  PROVE  LET N == Passed(M, v, p)
         IN  /\ N \in Holdings
             /\ Cardinality(N[v]) = 0 /\ Cardinality(N[p]) = Cardinality(M[p]) + Cardinality(M[v])
             /\ \A a \in Activities : a # v /\ a # p => N[a] = M[a]
             /\ Total(Sizes(N), Under(v)) = 0
             /\ \A a \in Activities : a # v => Total(Sizes(N), Under(a)) = Total(Sizes(M), Under(a))
<1> DEFINE N == Passed(M, v, p)
           K == [M EXCEPT ![v] = {}]
           k == Cardinality(M[v])
<1>1. N \in Holdings /\ K \in Holdings
  BY DEF Passed, Holdings
<1>2. /\ N[v] = {} /\ N[p] = M[p] \cup M[v] /\ K[v] = {} /\ K[p] = M[p]
      /\ \A a \in Activities : a # v /\ a # p => N[a] = M[a]
      /\ \A a \in Activities : a # v => K[a] = M[a]
      /\ \A a \in Activities : a # p => N[a] = K[a]
  BY DEF Passed, Holdings
<1>3. IsFiniteSet(M[p]) /\ IsFiniteSet(M[v])
  BY SizesNat
<1>4. /\ Cardinality(N[p]) = Cardinality(M[p]) + k /\ k \in Nat /\ Cardinality(M[p]) \in Nat
      /\ Cardinality(N[v]) = 0 /\ Cardinality(K[v]) = 0
  <2>1. /\ Cardinality(M[p] \cup M[v]) = Cardinality(M[p]) + Cardinality(M[v])
        /\ Cardinality(M[p]) \in Nat /\ Cardinality(M[v]) \in Nat
    BY <1>3, CardDisjoint
  <2>2. Cardinality({}) = 0
    BY FS_EmptySet
  <2> HIDE DEF N, K
  <2> QED BY <1>2, <2>1, <2>2
<1>5. -k \in Int /\ k \in Int /\ Cardinality(K[v]) = Cardinality(M[v]) + (-k)
      /\ Cardinality(N[p]) = Cardinality(K[p]) + k
  BY <1>2, <1>4
<1> HIDE DEF N, K, k
<1>6. ASSUME NEW a \in Activities, a # v
      PROVE  Total(Sizes(N), Under(a)) = Total(Sizes(M), Under(a))
  <2>1. Total(Sizes(K), Under(a)) =
            IF a \in Above[v] THEN Total(Sizes(M), Under(a)) + (-k) ELSE Total(Sizes(M), Under(a))
    <3> DEFINE j == -k
    <3>1. j \in Int /\ Cardinality(K[v]) = Cardinality(M[v]) + j
      BY <1>5
    <3>2. \A b \in Activities : b # v => K[b] = M[b]
      BY <1>2
    <3> HIDE DEF j
    <3>3. Total(Sizes(K), Under(a)) =
              IF a \in Above[v] THEN Total(Sizes(M), Under(a)) + j ELSE Total(Sizes(M), Under(a))
      BY <1>1, <3>1, <3>2, HoldingChange
    <3> QED BY <3>3 DEF j
  <2>2. Total(Sizes(N), Under(a)) =
            IF a \in Above[p] THEN Total(Sizes(K), Under(a)) + k ELSE Total(Sizes(K), Under(a))
    <3>1. k \in Int /\ Cardinality(N[p]) = Cardinality(K[p]) + k
      BY <1>5
    <3>2. \A b \in Activities : b # p => N[b] = K[b]
      BY <1>2
    <3> QED BY <1>1, <3>1, <3>2, HoldingChange
  <2>3. a \in Above[v] <=> a \in Above[p]
    BY <1>6, ParentAbove, NoneFacts
  <2>4. Total(Sizes(M), Under(a)) \in Nat
    BY SizesNat, TotalNat, AboveFacts
  <2> QED BY <1>4, <2>1, <2>2, <2>3, <2>4
<1>7. Total(Sizes(N), Under(v)) = 0
  <2>1. Under(v) = {v}
    BY LeafUnder
  <2>2. Sizes(N) \in [Activities -> Nat] /\ Sizes(N)[v] = 0
    BY <1>1, <1>4, SizesNat
  <2>3. Total(Sizes(N), {v}) = Total(Sizes(N), {v} \ {v}) + Sizes(N)[v]
    BY <2>2, TotalSplit
  <2>4. Total(Sizes(N), {v} \ {v}) = Total(Sizes(N), {})
    <3>1. {v} \ {v} = {}
      OBVIOUS
    <3> QED BY <3>1
  <2>5. Total(Sizes(N), {}) = 0
    <3>1. UNION {{b} \X (1..Sizes(N)[b]) : b \in {}} = {}
      OBVIOUS
    <3> QED BY <3>1, FS_EmptySet DEF Total
  <2> QED BY <2>1, <2>2, <2>3, <2>4, <2>5
<1> QED BY <1>1, <1>2, <1>4, <1>6, <1>7 DEF N, k

\* The descriptor of an inherited frame.
Inherited(d, e, v, p) ==
    IF d.activity # v THEN e = d
    ELSE /\ e \in Descs /\ e.activity = p
         /\ e.live = d.live /\ e.eviction_candidate = d.eviction_candidate /\ e.dirty = d.dirty
         /\ e.discardable = d.discardable /\ e.priority = d.priority /\ e.mapped = d.mapped
         /\ ListOf(e) = IF ListOf(d) = "active" THEN "inactive" ELSE ListOf(d)

LEMMA InheritGood ==
  ASSUME NEW s, NEW V \in SUBSET Activities, Good(s, V), NEW v \in V, v \in Mortal,
         NEW p \in V, p = Parent[v], NEW count \in Nat,
         count = Cardinality(s.lists[v]["active"]) + Cardinality(s.lists[v]["priorities"])
                     + Cardinality(s.lists[v]["inactive"]),
         count = s.act[v].frames_local
  PROVE  LET t == Inherit(s, v, count)
         IN  /\ Good(t, V \ {v}) /\ SameHardware(s, t)
             /\ \A f \in Frames : Inherited(s.desc[f], t.desc[f], v, p)
<1> DEFINE W == s.lists[v]
           on(f) == s.desc[f].active /\ f \notin W["active"] \cup W["priorities"]
           from(l) == IF l = "inactive" THEN W["inactive"] \cup W["active"]
                      ELSE IF l = "active" THEN {} ELSE W[l]
           D == [f \in Frames |-> IF s.desc[f].activity # v THEN s.desc[f]
                                  ELSE [s.desc[f] EXCEPT !.activity = p, !.active = on(f)]]
           L == [a \in Activities |-> [l \in ListNames |-> IF a = v THEN {}
                                                           ELSE IF a = p THEN s.lists[p][l] \cup from(l)
                                                           ELSE s.lists[a][l]]]
           A == [a \in Activities |->
                    IF a = v THEN Idle
                    ELSE [s.act[a] EXCEPT !.frames_local = IF a = p THEN @ + count ELSE @]]
           t == Inherit(s, v, count)
           M == Mine(s.desc)
           Q == Dirty(s.desc)
<1>1. t = [s EXCEPT !.desc = D, !.lists = L, !.act = A]
  BY DEF Inherit
<1>2. /\ s \in States /\ s.desc \in DescMaps /\ s.lists \in ListMaps /\ s.act \in ActMaps
      /\ CountsOK(s.desc, s.act) /\ ListsOK(s.desc, s.lists)
      /\ PoolsOK(s.desc, s.laundry, s.available)
      /\ \A f \in Frames : Fits(s.desc[f], V)
  BY StateParts
<1>3. v \in Activities /\ p \in Activities /\ p # v /\ \A b \in Activities : Parent[b] # v
  BY FramesAssumption
<1>4. /\ M \in Holdings /\ Q \in Holdings /\ Charged(s.act, M) /\ Waiting(s.act, Q)
      /\ Cardinality(M[v]) = count /\ M[p] \cap M[v] = {}
  <2>1. M \in Holdings /\ Q \in Holdings
    BY <1>2, HoldingFacts
  <2>2. M[p] \cap M[v] = {}
    BY <1>3 DEF Mine
  <2> QED BY <1>2, <1>3, <2>1, <2>2 DEF CountsOK, Charged
<1>5. Q[v] = {}
  <2> DEFINE x == Cardinality(W["priorities"] \cup W["active"] \cup W["inactive"])
             y == Cardinality(W["eviction_dirty"])
  <2>1. /\ Q[v] = W["eviction_dirty"] /\ x = count /\ Cardinality(M[v]) = x + y
        /\ IsFiniteSet(W["eviction_dirty"]) /\ y \in Nat /\ x \in Nat
    BY <1>2, <1>3, MineLists
  <2> HIDE DEF x
  <2>2. y = 0
    <3> HIDE DEF y
    <3> QED BY <1>4, <2>1
  <2> QED BY <2>1, <2>2, FS_EmptySet
<1>6. ASSUME NEW f \in Frames
      PROVE  D[f] \in Descs /\ Inherited(s.desc[f], D[f], v, p)
  <2> DEFINE d == s.desc[f]
             e == D[f]
             o == on(f)
  <2>1. d \in Descs
    BY <1>2 DEF Fits
  <2>2. CASE d.activity # v
    <3>1. e = d
      BY <2>2
    <3> QED BY <2>1, <2>2, <3>1 DEF Inherited
  <2>3. CASE d.activity = v
    <3>1. e = [d EXCEPT !.activity = p, !.active = o]
      BY <2>3
    <3>2. o \in BOOLEAN
      BY <2>1 DEF Descs
    <3>3. ListOf(d) = "active" => ~o
      BY <1>2, <1>3, <2>3 DEF ListsOK, ListNames
    <3>4. ListOf(d) = "inactive" => ~o
      BY <2>1, ListOfFacts DEF ListOf
    <3>5. p \in Activities \cup {None}
      BY <1>3
    <3> HIDE DEF d, e, o
    <3>6. /\ e \in Descs /\ e.activity = p /\ e.active = o
          /\ e.live = d.live /\ e.eviction_candidate = d.eviction_candidate /\ e.dirty = d.dirty
          /\ e.discardable = d.discardable /\ e.priority = d.priority /\ e.mapped = d.mapped
      BY <2>1, <3>1, <3>2, <3>5 DEF Descs
    <3>7. ListOf(e) = IF ListOf(d) = "active" THEN "inactive" ELSE ListOf(d)
      <4>1. CASE d.eviction_candidate
        BY <3>6, <4>1 DEF ListOf, Precious
      <4>2. CASE ~d.eviction_candidate /\ d.priority # "lru"
        BY <3>6, <4>2 DEF ListOf
      <4>3. CASE ~d.eviction_candidate /\ d.priority = "lru"
        <5>1. ListOf(d) = "active" \/ ListOf(d) = "inactive"
          BY <4>3 DEF ListOf
        <5>2. ListOf(e) = "inactive"
          BY <3>3, <3>4, <3>6, <4>3, <5>1 DEF ListOf
        <5> QED BY <5>1, <5>2
      <4> QED BY <4>1, <4>2, <4>3
    <3>8. Inherited(d, e, v, p)
      BY <2>3, <3>6, <3>7 DEF Inherited
    <3> QED BY <3>6, <3>8 DEF d, e
  <2> QED BY <2>2, <2>3
<1>7. D \in DescMaps
  <2>1. D = [f \in Frames |-> D[f]]
    OBVIOUS
  <2> HIDE DEF D
  <2> QED BY <1>6, <2>1 DEF DescMaps
<1>8. /\ L \in ListMaps
      /\ \A a \in Activities, l \in ListNames :
            L[a][l] = IF a = v THEN {} ELSE IF a = p THEN s.lists[p][l] \cup from(l) ELSE s.lists[a][l]
  <2>1. \A l \in ListNames : from(l) \in SUBSET Frames
    BY <1>2, <1>3 DEF ListMaps, ListNames
  <2> HIDE DEF from
  <2> QED BY <1>2, <1>3, <2>1 DEF ListMaps
<1>9. /\ A \in ActMaps
      /\ A[v] = Idle
      /\ \A a \in Activities : a # v =>
            /\ A[a].frames_local = IF a = p THEN s.act[a].frames_local + count ELSE s.act[a].frames_local
            /\ A[a].frames_total = s.act[a].frames_total
            /\ A[a].frames_pending_eviction = s.act[a].frames_pending_eviction
  <2>1. Idle \in Acts
    BY DEF Idle, Acts
  <2>2. ASSUME NEW a \in Activities, a # v
        PROVE  /\ A[a] \in Acts
               /\ A[a].frames_local = IF a = p THEN s.act[a].frames_local + count ELSE s.act[a].frames_local
               /\ A[a].frames_total = s.act[a].frames_total
               /\ A[a].frames_pending_eviction = s.act[a].frames_pending_eviction
    <3> DEFINE r == s.act[a]
               n == IF a = p THEN r.frames_local + count ELSE r.frames_local
               x == A[a]
    <3>1. r \in Acts
      BY <1>2 DEF ActMaps
    <3>2. n \in Int
      BY <3>1 DEF Acts
    <3>3. x = [r EXCEPT !.frames_local = n]
      BY <2>2
    <3> HIDE DEF r, n, x
    <3>4. /\ x \in Acts /\ x.frames_local = n /\ x.frames_total = r.frames_total
          /\ x.frames_pending_eviction = r.frames_pending_eviction
      BY <3>1, <3>2, <3>3 DEF Acts
    <3> QED BY <3>4 DEF r, n, x
  <2>3. A[v] = Idle
    BY <1>3
  <2>4. A = [a \in Activities |-> A[a]]
    OBVIOUS
  <2> HIDE DEF A
  <2>5. A \in ActMaps
    BY <2>1, <2>2, <2>3, <2>4 DEF ActMaps
  <2> QED BY <2>2, <2>3, <2>5
<1> HIDE DEF D, L, A, t
<1>10. /\ t \in States /\ t.desc = D /\ t.lists = L /\ t.act = A /\ t.laundry = s.laundry
       /\ t.available = s.available /\ t.mapped = s.mapped /\ t.written = s.written
  BY <1>1, <1>2, <1>7, <1>8, <1>9 DEF States
<1>11. ListsOK(D, L)
  <2> SUFFICES ASSUME NEW a \in Activities, NEW l \in ListNames, NEW f \in Frames
               PROVE  f \in L[a][l] <=> D[f].activity = a /\ ListOf(D[f]) = l
    BY DEF ListsOK
  <2> DEFINE d == s.desc[f]
             e == D[f]
  <2>1. Inherited(d, e, v, p)
    BY <1>6
  <2>2. \A x \in Activities, k \in ListNames : f \in s.lists[x][k] <=> d.activity = x /\ ListOf(d) = k
    BY <1>2 DEF ListsOK
  <2>3. L[a][l] = IF a = v THEN {} ELSE IF a = p THEN s.lists[p][l] \cup from(l) ELSE s.lists[a][l]
    BY <1>8
  <2>4. f \in from(l) <=> d.activity = v /\ (IF ListOf(d) = "active" THEN "inactive" ELSE ListOf(d)) = l
    <3>1. "inactive" \in ListNames /\ "active" \in ListNames /\ "inactive" # "active"
      BY DEF ListNames
    <3>2. W = s.lists[v]
      OBVIOUS
    <3> HIDE DEF d, W
    <3> QED BY <1>3, <2>2, <3>1, <3>2
  <2> HIDE DEF d, e, from
  <2>5. CASE a = v
    <3>1. e.activity # v
      BY <1>3, <2>1 DEF Inherited
    <3> QED BY <2>3, <2>5, <3>1 DEF e
  <2>6. CASE a = p
    <3>1. CASE d.activity = v
      <4>1. e.activity = p /\ ListOf(e) = IF ListOf(d) = "active" THEN "inactive" ELSE ListOf(d)
        BY <2>1, <3>1 DEF Inherited
      <4>2. f \notin s.lists[p][l]
        BY <1>3, <2>2, <3>1
      <4> QED BY <1>3, <2>3, <2>4, <2>6, <3>1, <4>1, <4>2 DEF e
    <3>2. CASE d.activity # v
      <4>1. e = d
        BY <2>1, <3>2 DEF Inherited
      <4> QED BY <1>3, <2>2, <2>3, <2>4, <2>6, <3>2, <4>1 DEF e
    <3> QED BY <3>1, <3>2
  <2>7. CASE a # v /\ a # p
    <3>1. CASE d.activity = v
      <4>1. e.activity = p
        BY <2>1, <3>1 DEF Inherited
      <4> QED BY <2>2, <2>3, <2>7, <3>1, <4>1 DEF e
    <3>2. CASE d.activity # v
      <4>1. e = d
        BY <2>1, <3>2 DEF Inherited
      <4> QED BY <2>2, <2>3, <2>7, <4>1 DEF e
    <3> QED BY <3>1, <3>2
  <2> QED BY <2>5, <2>6, <2>7
<1>12. \A f \in Frames : /\ ListOf(D[f]) = "eviction_dirty" <=> ListOf(s.desc[f]) = "eviction_dirty"
                         /\ ListOf(D[f]) = "eviction_clean" <=> ListOf(s.desc[f]) = "eviction_clean"
                         /\ D[f].activity = IF s.desc[f].activity = v THEN p ELSE s.desc[f].activity
                         /\ D[f].eviction_candidate = s.desc[f].eviction_candidate
  BY <1>6 DEF Inherited
<1>13. PoolsOK(D, s.laundry, s.available)
  BY <1>2, <1>12 DEF PoolsOK
<1>14. OwnersOK(D, V \ {v})
  <2>1. p \in V \ {v} /\ p # None /\ v # None
    BY <1>3, NoneFacts
  <2> QED BY <1>2, <1>12, <2>1 DEF OwnersOK, Fits
<1>15. Mine(D) = Passed(M, v, p) /\ Dirty(D) = Q
  <2>1. ASSUME NEW a \in Activities PROVE Mine(D)[a] = Passed(M, v, p)[a] /\ Dirty(D)[a] = Q[a]
    <3>1. \A f : f \in Mine(D)[a] <=> f \in Frames /\ D[f].activity = a /\ ListOf(D[f]) # "eviction_clean"
      BY DEF Mine
    <3>2. \A f : f \in Dirty(D)[a] <=> f \in Frames /\ D[f].activity = a
            /\ ListOf(D[f]) = "eviction_dirty"
      BY DEF Dirty
    <3>3. \A b \in Activities : \A f : f \in M[b] <=>
              f \in Frames /\ s.desc[f].activity = b /\ ListOf(s.desc[f]) # "eviction_clean"
      BY DEF Mine
    <3>4. \A b \in Activities : \A f : f \in Q[b] <=>
              f \in Frames /\ s.desc[f].activity = b /\ ListOf(s.desc[f]) = "eviction_dirty"
      BY DEF Dirty
    <3>5. \A f : f \in Passed(M, v, p)[a] <=>
              a # v /\ (f \in M[a] \/ (a = p /\ f \in M[v]))
      <4> HIDE DEF M
      <4> QED BY DEF Passed
    <3> HIDE DEF M, Q
    <3>6. \A f : f \in Mine(D)[a] <=> f \in Passed(M, v, p)[a]
      BY <1>3, <1>12, <3>1, <3>3, <3>5
    <3>7. \A f : f \in Dirty(D)[a] <=> f \in Q[a]
      BY <1>3, <1>5, <1>12, <3>2, <3>4
    <3> QED BY <3>6, <3>7
  <2>2. /\ Mine(D) = [a \in Activities |-> Mine(D)[a]]
        /\ Passed(M, v, p) = [a \in Activities |-> Passed(M, v, p)[a]]
        /\ Dirty(D) = [a \in Activities |-> Dirty(D)[a]] /\ Q = [a \in Activities |-> Q[a]]
    BY DEF Mine, Dirty, Passed
  <2> HIDE DEF M, Q
  <2>3. Mine(D) = Passed(M, v, p)
    BY <2>1, <2>2
  <2>4. Dirty(D) = Q
    BY <2>1, <2>2
  <2> QED BY <2>3, <2>4
<1>16. CountsOK(D, A)
  <2> DEFINE N == Passed(M, v, p)
             R == Passed(Q, v, p)
  <2> HIDE DEF M, Q
  <2>1. /\ Cardinality(N[v]) = 0 /\ Cardinality(N[p]) = Cardinality(M[p]) + Cardinality(M[v])
        /\ \A a \in Activities : a # v /\ a # p => N[a] = M[a]
        /\ Total(Sizes(N), Under(v)) = 0
        /\ \A a \in Activities : a # v => Total(Sizes(N), Under(a)) = Total(Sizes(M), Under(a))
    BY <1>3, <1>4, PassedTotals
  <2>2. Q[p] \cap Q[v] = {}
    BY <1>5
  <2>3. Total(Sizes(R), Under(v)) = 0
    BY <1>3, <1>4, <2>2, PassedTotals
  <2>4. R = Q
    <3>1. \A a \in Activities : R[a] = Q[a]
      BY <1>3, <1>5 DEF Passed
    <3>2. R = [a \in Activities |-> R[a]] /\ Q = [a \in Activities |-> Q[a]]
      BY <1>4 DEF Passed, Holdings
    <3> QED BY <3>1, <3>2
  <2> HIDE DEF N, R
  <2>5. Idle.frames_local = 0 /\ Idle.frames_total = 0 /\ Idle.frames_pending_eviction = 0
    BY DEF Idle
  <2>6. Charged(A, N)
    <3> SUFFICES ASSUME NEW a \in Activities
                 PROVE  A[a].frames_local = Cardinality(N[a])
                       /\ A[a].frames_total = Total(Sizes(N), Under(a))
      BY DEF Charged
    <3>1. CASE a = v
      BY <1>9, <2>1, <2>5, <3>1
    <3>2. CASE a # v
      <4>1. s.act[a].frames_local = Cardinality(M[a]) /\ s.act[a].frames_total = Total(Sizes(M), Under(a))
        BY <1>4 DEF Charged
      <4> QED BY <1>4, <1>9, <2>1, <3>2, <4>1
    <3> QED BY <3>1, <3>2
  <2>7. Waiting(A, Q)
    BY <1>4, <1>9, <2>3, <2>4, <2>5 DEF Waiting
  <2> QED BY <1>15, <2>6, <2>7 DEF CountsOK, N
<1>17. Good(t, V \ {v})
  BY <1>10, <1>11, <1>13, <1>14, <1>16 DEF Good
<1>18. \A f \in Frames : Inherited(s.desc[f], t.desc[f], v, p)
  BY <1>6, <1>10
<1> QED BY <1>10, <1>17, <1>18 DEF SameHardware, t

LEMMA ActivityDestroySafe ==
  ASSUME FrameInv, NEW a \in Activities, NEW v \in Mortal, NEW list \in SetToAllKPermutations(Frames),
         ActivityDestroy(a, v, list)
  PROVE  Safely
<1> DEFINE s == FreeAll(Now, a, list)
           G == ToSet(list)
           W == s.lists[v]
           count == Cardinality(W["active"]) + Cardinality(W["priorities"]) + Cardinality(W["inactive"])
           p == Parent[v]
           t == Inherit(s, v, count)
<1>1. /\ a \in alive /\ v \in alive /\ (\A f \in G : desc[f].live)
      /\ modified' = modified \ G /\ reply' = reply
      /\ \/ count = s.act[v].frames_local /\ Becomes(t) /\ alive' = alive \ {v}
         \/ Becomes(s) /\ alive' = alive
  BY DEF ActivityDestroy, Serving
<1>2. /\ Good(Now, alive) /\ alive \in SUBSET Activities /\ Activities \ Mortal \subseteq alive
      /\ \A f \in Frames : LiveFits(desc[f], alive)
      /\ modified \in SUBSET Frames /\ reply \in Frames \cup {None}
  BY DEF FrameInv
<1>3. list \in Seq(Frames) /\ IsInjective(list) /\ G \in SUBSET Frames
  BY WithoutRepeats
<1>4. \A f \in G : Now.desc[f].activity \in alive
  BY <1>1, <1>2, <1>3, NowIs DEF LiveFits
<1>5. PICK g : LoopRuns(g, FALSE, Now, a, list, Len(list)) /\ s = g[Len(list)]
  BY <1>3, FreeAllIs
<1>6. Ran(FALSE, Now, s, G, alive)
  <2> HIDE DEF s
  <2>1. FALSE \in BOOLEAN
    OBVIOUS
  <2>2. Ran(FALSE, Now, g[Len(list)], G, alive)
    BY <1>1, <1>2, <1>3, <1>4, <1>5, <2>1, LoopGood
  <2> QED BY <1>5, <2>2
<1> HIDE DEF s, G
<1>7. /\ Good(s, alive)
      /\ \A f \in Frames : (f \notin G => Untouched(Now, s, f)) /\ (f \in G => Freed(Now, s, f))
  BY <1>6 DEF Ran
<1>8. ASSUME NEW f \in Frames
      PROVE  /\ LiveFits(s.desc[f], alive)
             /\ Sound(Now, f) => Sound(s, f)
             /\ f \notin G => (Noted(Now, f) => Noted(s, f))
  <2>1. CASE f \notin G
    <3>1. Untouched(Now, s, f) /\ LiveFits(desc[f], alive)
      BY <1>2, <1>7, <2>1
    <3> QED BY <2>1, <3>1, NowIs DEF Untouched, Sound, Noted
  <2>2. CASE f \in G
    <3>1. Freed(Now, s, f)
      BY <1>7, <2>2
    <3>2. LiveFits(Unused, alive) /\ ~Unused.eviction_candidate
      BY DEF LiveFits, Unused
    <3> QED BY <2>2, <3>1, <3>2 DEF Freed, Sound
  <2> QED BY <2>1, <2>2
<1>9. Mortal # {} /\ modified' \in SUBSET Frames
  BY <1>1, <1>2
<1>10. CASE Becomes(s) /\ alive' = alive
  <2>1. s \in States /\ Now' = s /\ desc' = s.desc
    BY <1>7, <1>10, StateParts, Arrive
  <2>2. FrameInv'
    BY <1>1, <1>2, <1>7, <1>8, <1>9, <1>10, <2>1 DEF FrameInv
  <2>3. HardInv => HardInv'
    BY <1>1, <1>8, <2>1 DEF HardInv
  <2> QED BY <1>9, <2>2, <2>3 DEF Safely
<1>11. CASE count = s.act[v].frames_local /\ Becomes(t) /\ alive' = alive \ {v}
  <2>1. v \in Activities /\ p \in Activities /\ p \in alive /\ p # v
    BY <1>2, FramesAssumption
  <2>2. count \in Nat
    <3> DEFINE x == Cardinality(W["priorities"] \cup W["active"] \cup W["inactive"])
    <3>1. s.desc \in DescMaps /\ s.lists \in ListMaps /\ ListsOK(s.desc, s.lists)
      BY <1>7, StateParts
    <3>2. x = count /\ x \in Nat
      BY <2>1, <3>1, MineLists
    <3> QED BY <3>2
  <2>3. /\ Good(t, alive \ {v}) /\ SameHardware(s, t)
        /\ \A f \in Frames : Inherited(s.desc[f], t.desc[f], v, p)
    BY <1>1, <1>2, <1>7, <1>11, <2>1, <2>2, InheritGood
  <2> HIDE DEF t, count, p, W
  <2>4. t \in States /\ Now' = t /\ desc' = t.desc
    BY <1>11, <2>3, StateParts, Arrive
  <2>5. ASSUME NEW f \in Frames
        PROVE  /\ LiveFits(t.desc[f], alive \ {v})
               /\ Sound(s, f) => Sound(t, f)
               /\ Noted(s, f) => Noted(t, f)
    <3>1. Inherited(s.desc[f], t.desc[f], v, p) /\ LiveFits(s.desc[f], alive)
      BY <1>8, <2>3
    <3>2. CASE s.desc[f].activity # v
      <4>1. t.desc[f] = s.desc[f]
        BY <3>1, <3>2 DEF Inherited
      <4> QED BY <2>3, <3>1, <3>2, <4>1 DEF LiveFits, Sound, Noted, SameHardware
    <3>3. CASE s.desc[f].activity = v
      <4>1. Unused.activity = None /\ v # None
        BY <2>1, NoneFacts DEF Unused
      <4>2. s.desc[f].live
        BY <3>1, <3>3, <4>1 DEF LiveFits
      <4> QED BY <2>1, <2>3, <3>1, <3>3, <4>2 DEF LiveFits, Sound, Noted, SameHardware, Inherited
    <3> QED BY <3>2, <3>3
  <2>6. alive' \in SUBSET Activities /\ Activities \ Mortal \subseteq alive'
    BY <1>2, <1>11
  <2>7. FrameInv'
    BY <1>1, <1>2, <1>9, <1>11, <2>3, <2>4, <2>5, <2>6 DEF FrameInv
  <2>8. HardInv => HardInv'
    <3> SUFFICES ASSUME HardInv PROVE HardInv'
      OBVIOUS
    <3>1. \A f \in Frames : Sound(t, f) /\ (f \in modified' => Noted(t, f))
      BY <1>1, <1>8, <2>5 DEF HardInv
    <3> QED BY <1>1, <2>4, <3>1 DEF HardInv
  <2> QED BY <1>9, <2>7, <2>8 DEF Safely
<1> QED BY <1>1, <1>10, <1>11

-----------------------------------------------------------------------------
(***************************************************************************)
(* The invariant holds.                                                    *)
(***************************************************************************)
LEMMA EmptyTotal ==
  ASSUME NEW n \in [Activities -> Nat], \A a \in Activities : n[a] = 0, NEW S \in SUBSET Activities
  PROVE  Total(n, S) = 0
<1>1. Total(n, S) = Total(n, {})
  BY TotalZero
<1>2. UNION {{b} \X (1..n[b]) : b \in {}} = {}
  OBVIOUS
<1> QED BY <1>1, <1>2, FS_EmptySet DEF Total

LEMMA FramesInit == ASSUME Init PROVE FrameInv /\ HardInv /\ Graced(act)
<1>1. /\ Unused \in Descs /\ Unused.activity = None /\ ~Unused.eviction_candidate
      /\ ListOf(Unused) # "eviction_clean" /\ ListOf(Unused) # "eviction_dirty" /\ ~Unused.live
      /\ ~Unused.mapped
  BY DEF Unused, Descs, Priorities, ListOf
<1>2. /\ Idle \in Acts /\ Idle.frames_local = 0 /\ Idle.frames_total = 0
      /\ Idle.frames_pending_eviction = 0 /\ Idle.frames_excluded = 0 /\ Idle.free_goal = 0
      /\ Idle.free_allocations = 0
  BY DEF Idle, Acts
<1>3. /\ \A f \in Frames : desc[f] = Unused
      /\ \A a \in Activities : act[a] = Idle
      /\ \A a \in Activities, l \in ListNames : lists[a][l] = {}
      /\ laundry = {} /\ available = {} /\ alive = Activities
      /\ mapped = {} /\ written = {} /\ modified = {} /\ reply = None
  BY DEF Init
<1>4. desc \in DescMaps /\ lists \in ListMaps /\ act \in ActMaps
  BY <1>1, <1>2 DEF Init, DescMaps, ListMaps, ActMaps
<1>5. Now \in States
  BY <1>3, <1>4 DEF Now, States
<1>6. ListsOK(desc, lists) /\ PoolsOK(desc, laundry, available) /\ OwnersOK(desc, alive)
  BY <1>1, <1>3, NoneFacts DEF ListsOK, PoolsOK, OwnersOK
<1>7. ASSUME NEW M \in Holdings, \A a \in Activities : M[a] = {}, NEW a \in Activities
      PROVE  Cardinality(M[a]) = 0 /\ Total(Sizes(M), Under(a)) = 0
  <2>1. Sizes(M) \in [Activities -> Nat] /\ \A b \in Activities : Sizes(M)[b] = 0
    BY <1>7, SizesNat, FS_EmptySet
  <2> QED BY <1>7, <2>1, EmptyTotal, AboveFacts, FS_EmptySet
<1>8. /\ Mine(desc) \in Holdings /\ \A a \in Activities : Mine(desc)[a] = {}
      /\ Dirty(desc) \in Holdings /\ \A a \in Activities : Dirty(desc)[a] = {}
  <2>1. Mine(desc) \in Holdings /\ Dirty(desc) \in Holdings
    BY <1>4, HoldingFacts
  <2> QED BY <1>1, <1>3, <2>1, NoneFacts DEF Mine, Dirty
<1>9. CountsOK(desc, act)
  BY <1>2, <1>3, <1>7, <1>8 DEF CountsOK, Charged, Waiting
<1>10. Good(Now, alive)
  BY <1>5, <1>6, <1>9, NowIs DEF Good
<1>11. FrameInv
  BY <1>1, <1>3, <1>10 DEF FrameInv, LiveFits
<1>12. HardInv
  BY <1>1, <1>3, NowIs DEF HardInv, Sound
<1>13. Graced(act)
  <2>1. Grants(act) \in [Activities -> Nat] /\ \A a \in Activities : Grants(act)[a] = 0
    BY <1>2, <1>3, <1>4, GrantsNat DEF GrantOf
  <2>2. \A a \in Activities : Total(Grants(act), Under(a)) = 0
    BY <2>1, EmptyTotal, AboveFacts
  <2> QED BY <1>2, <1>3, <2>2 DEF Graced
<1> QED BY <1>11, <1>12, <1>13

LEMMA FramesStutter == ASSUME FrameInv, UNCHANGED vars PROVE Safely
<1>1. /\ Now' = Now /\ desc' = desc /\ act' = act /\ alive' = alive /\ modified' = modified
      /\ reply' = reply
  BY DEF vars, Now
<1> QED BY <1>1 DEF Safely, FrameInv, HardInv

LEMMA FramesStep == ASSUME FrameInv, [Next]_vars PROVE Safely
<1>1. CASE UNCHANGED vars
  BY <1>1, FramesStutter
<1>2. ASSUME NEW a \in Activities, NEW f \in Frames, NEW policy \in Policies, Handler(a, f, policy)
      PROVE  Safely
  BY <1>2, FrameAllocSafe, FrameFreeSafe, ReallocSafe, LookupSafe, CapRuboutSafe, SetPolicySafe,
     FaultSafe DEF Handler
<1>3. CASE SendReply
  BY <1>3, SendReplySafe
<1>4. ASSUME NEW f \in Frames, UserWrite(f) PROVE Safely
  BY <1>4, UserWriteSafe
<1>5. ASSUME NEW f \in Frames, NEW period \in BOOLEAN, NEW referenced \in BOOLEAN, NEW ages \in BOOLEAN,
             AgerVisit(f, period, referenced, ages)
      PROVE  Safely
  BY <1>5, AgerVisitSafe
<1>6. ASSUME NEW v \in Activities, NEW list \in SetToAllKPermutations(Yields(v)), Reclaim(v, list)
      PROVE  Safely
  BY <1>6, ReclaimSafe
<1>7. ASSUME NEW v \in Activities, NEW goal \in Goals, AskToFree(v, goal) PROVE Safely
  BY <1>7, AskToFreeSafe
<1>8. ASSUME NEW a \in Activities, NEW v \in Mortal, NEW list \in SetToAllKPermutations(Frames),
             ActivityDestroy(a, v, list)
      PROVE  Safely
  BY <1>8, ActivityDestroySafe
<1> QED BY <1>1, <1>2, <1>3, <1>4, <1>5, <1>6, <1>7, <1>8 DEF Next

-----------------------------------------------------------------------------
(***************************************************************************)
(* What the invariant says.                                                *)
(***************************************************************************)
LEMMA FramesParts ==
  ASSUME FrameInv
  PROVE  /\ desc \in DescMaps /\ lists \in ListMaps /\ act \in ActMaps
         /\ laundry \in SUBSET Frames /\ available \in SUBSET Frames /\ mapped \in SUBSET Frames
         /\ ListsOK(desc, lists) /\ PoolsOK(desc, laundry, available) /\ CountsOK(desc, act)
         /\ \A f \in Frames : Fits(desc[f], alive) /\ LiveFits(desc[f], alive)
         /\ alive \in SUBSET Activities /\ modified \in SUBSET Frames
<1>1. Good(Now, alive)
  BY DEF FrameInv
<1> QED BY <1>1, StateParts, NowIs DEF FrameInv

\* A frame with an owner is in use.
LEMMA OwnedLive ==
  ASSUME FrameInv, NEW f \in Frames
  PROVE  /\ desc[f].activity \in alive => desc[f].live
         /\ desc[f].eviction_candidate => desc[f].live
         /\ desc[f].live => desc[f].activity \in alive
<1>1. Unused.activity = None /\ ~Unused.eviction_candidate /\ None \notin alive
  BY FramesParts, NoneFacts DEF Unused
<1> QED BY <1>1, FramesParts DEF LiveFits

LEMMA FramesAttached == ASSUME FrameInv PROVE Attached
<1>1. ASSUME NEW a \in alive, NEW l \in ListNames
      PROVE  lists[a][l] = {f \in Live : desc[f].activity = a /\ ListOf(desc[f]) = l}
  <2>1. a \in Activities /\ lists[a][l] \in SUBSET Frames
    BY FramesParts DEF ListMaps
  <2>2. \A f \in Frames : f \in lists[a][l] <=> desc[f].activity = a /\ ListOf(desc[f]) = l
    BY <2>1, FramesParts DEF ListsOK
  <2> QED BY <2>1, <2>2, OwnedLive DEF Live
<1>2. \A f \in Frames : /\ ListOf(desc[f]) = "eviction_dirty" => desc[f].live
                        /\ ListOf(desc[f]) = "eviction_clean" => desc[f].live
  BY FramesParts, OwnedLive, ListOfFacts DEF DescMaps
<1>3. laundry = {f \in Live : ListOf(desc[f]) = "eviction_dirty"}
  BY <1>2, FramesParts DEF PoolsOK, Live
<1>4. available = {f \in Live : ListOf(desc[f]) = "eviction_clean"}
  BY <1>2, FramesParts DEF PoolsOK, Live
<1> QED BY <1>1, <1>3, <1>4 DEF Attached

LEMMA FramesLocalHolds == ASSUME FrameInv PROVE FramesLocal
<1> SUFFICES ASSUME NEW a \in alive
             PROVE  act[a].frames_local = Cardinality(Yields(a)) + Cardinality(lists[a]["eviction_dirty"])
  BY DEF FramesLocal
<1>1. a \in Activities /\ act[a].frames_local = Cardinality(Mine(desc)[a])
  BY FramesParts DEF CountsOK, Charged
<1>2. Cardinality(Mine(desc)[a]) =
          Cardinality(lists[a]["priorities"] \cup lists[a]["active"] \cup lists[a]["inactive"])
              + Cardinality(lists[a]["eviction_dirty"])
  BY <1>1, FramesParts, MineLists
<1> QED BY <1>1, <1>2 DEF Yields

\* The sum over those still alive.
LEMMA TotalBelow ==
  ASSUME FrameInv, NEW M \in Holdings, \A b \in Activities \ alive : M[b] = {}, NEW a \in Activities,
         NEW n, \A b \in Activities : n[b] = Cardinality(M[b])
  PROVE  Total(Sizes(M), Under(a)) = Total(n, Below(a))
<1>1. Below(a) \in SUBSET Under(a) /\ Under(a) \in SUBSET Activities
  BY FramesParts, AboveFacts DEF Below, Under
<1>2. Sizes(M) \in [Activities -> Nat] /\ \A b \in Activities : Sizes(M)[b] = Cardinality(M[b])
  BY SizesNat
<1>3. \A b \in Under(a) \ Below(a) : Sizes(M)[b] = 0
  <2>1. \A b \in Under(a) \ Below(a) : b \in Activities \ alive
    BY DEF Under, Below
  <2> QED BY <1>2, <2>1, FS_EmptySet
<1>4. Total(Sizes(M), Under(a)) = Total(Sizes(M), Below(a))
  BY <1>1, <1>2, <1>3, TotalZero
<1>5. \A b \in Below(a) : n[b] = Sizes(M)[b]
  BY <1>1, <1>2
<1>6. Total(n, Below(a)) = Total(Sizes(M), Below(a))
  BY <1>5, TotalSame
<1> QED BY <1>4, <1>6

LEMMA TotalsHold == ASSUME FrameInv PROVE TotalsAddUp
<1> DEFINE n == [b \in Activities |-> act[b].frames_local]
           m == [b \in Activities |-> Cardinality(lists[b]["eviction_dirty"])]
<1>1. /\ Mine(desc) \in Holdings /\ Dirty(desc) \in Holdings
      /\ \A b \in Activities \ alive : Mine(desc)[b] = {} /\ Dirty(desc)[b] = {}
  <2>1. \A f \in Frames : desc[f].activity \in alive \cup {None}
    BY FramesParts DEF Fits
  <2>2. \A b \in Activities \ alive, f \in Frames : desc[f].activity # b
    BY <2>1, NoneFacts
  <2> QED BY <2>2, FramesParts, HoldingFacts DEF Mine, Dirty
<1>2. Charged(act, Mine(desc)) /\ Waiting(act, Dirty(desc))
  BY FramesParts DEF CountsOK
<1>3. \A b \in Activities : n[b] = Cardinality(Mine(desc)[b])
  BY <1>2 DEF Charged
<1>4. \A b \in Activities : m[b] = Cardinality(Dirty(desc)[b])
  BY FramesParts, MineLists
<1> HIDE DEF n, m
<1>5. \A a \in alive : act[a].frames_total = Total(n, Below(a))
  BY <1>1, <1>2, <1>3, FramesParts, TotalBelow DEF Charged
<1>6. \A a \in alive : act[a].frames_pending_eviction = Total(m, Below(a))
  BY <1>1, <1>2, <1>4, FramesParts, TotalBelow DEF Waiting
<1> QED BY <1>5, <1>6 DEF TotalsAddUp, n, m

LEMMA NothingLostHolds == ASSUME FrameInv, HardInv PROVE NothingLost
<1>1. ASSUME NEW f \in Frames
      PROVE  /\ f \in written => f \in mapped
             /\ desc[f].eviction_candidate => ~desc[f].mapped
             /\ f \in modified => desc[f].dirty \/ f \in written
  BY NowIs DEF HardInv, Sound, Noted
<1>2. modified \in SUBSET Frames
  BY DEF FrameInv
<1>3. \A f \in modified : desc[f].dirty \/ f \in written
  BY <1>1, <1>2
<1>4. \A f \in Live : desc[f].eviction_candidate => ~desc[f].mapped
  BY <1>1 DEF Live
<1>5. ASSUME NEW f \in available \cap modified
      PROVE  desc[f].discardable \/ (f \in mapped \cap written /\ ~desc[f].mapped)
  <2>1. f \in Frames /\ desc[f] \in Descs /\ ListOf(desc[f]) = "eviction_clean"
    BY FramesParts DEF PoolsOK, DescMaps
  <2>2. desc[f].eviction_candidate /\ ~Precious(desc[f])
    BY <2>1, ListOfFacts
  <2> QED BY <1>1, <2>1, <2>2 DEF Precious
<1> QED BY <1>3, <1>4, <1>5 DEF NothingLost

LEMMA CountersNat == ASSUME FrameInv, Graced(act) PROVE TypeOK
<1>1. ASSUME NEW a \in Activities
      PROVE  /\ act[a].frames_local \in Nat /\ act[a].frames_total \in Nat
             /\ act[a].frames_pending_eviction \in Nat /\ act[a].frames_excluded \in Nat
             /\ act[a].free_goal \in Nat /\ act[a].free_allocations \in Nat
             /\ act[a].free_initial_allocation \in Nat /\ act[a].free_bad_karma \in Nat
  <2>1. Mine(desc) \in Holdings /\ Dirty(desc) \in Holdings
    BY FramesParts, HoldingFacts
  <2>2. /\ Sizes(Mine(desc)) \in [Activities -> Nat] /\ Sizes(Dirty(desc)) \in [Activities -> Nat]
        /\ Sizes(Mine(desc))[a] = Cardinality(Mine(desc)[a])
    BY <2>1, SizesNat
  <2>3. Grants(act) \in [Activities -> Nat]
    BY FramesParts, GrantsNat
  <2>4. /\ Total(Sizes(Mine(desc)), Under(a)) \in Nat /\ Total(Sizes(Dirty(desc)), Under(a)) \in Nat
        /\ Total(Grants(act), Under(a)) \in Nat
    BY <2>2, <2>3, TotalNat, AboveFacts
  <2>5. Cardinality(Mine(desc)[a]) \in Nat
    BY <2>2
  <2>6. act[a] \in Acts
    BY FramesParts DEF ActMaps
  <2>7. Charged(act, Mine(desc)) /\ Waiting(act, Dirty(desc))
    BY FramesParts DEF CountsOK
  <2>8. /\ act[a].free_goal \in Nat /\ act[a].free_allocations \in Nat
        /\ act[a].free_initial_allocation \in Nat /\ act[a].free_bad_karma \in Nat
    BY <2>6 DEF Acts
  <2> QED BY <2>4, <2>5, <2>7, <2>8 DEF Charged, Waiting, Graced
<1>2. \A a \in Activities, c \in Counters : act[a][c] \in Nat
  BY <1>1 DEF Counters
<1>3. \A f \in Live : desc[f].activity \in alive
  BY OwnedLive DEF Live
<1> QED BY <1>2, <1>3 DEF TypeOK

LEMMA GraceHolds == ASSUME FrameInv, Mortal = {}, Graced(act) PROVE GraceOK
<1> DEFINE asked == {a \in alive : act[a].free_allocations # 0}
           n == [b \in Activities |-> act[b].free_initial_allocation]
<1>1. alive = Activities
  BY DEF FrameInv
<1>2. /\ Grants(act) \in [Activities -> Nat]
      /\ \A b \in Activities : Grants(act)[b] = IF b \in asked THEN n[b] ELSE 0
  BY <1>1, FramesParts, GrantsNat DEF GrantOf
<1>3. ASSUME NEW a \in alive PROVE act[a].frames_excluded = Total(n, Below(a) \cap asked)
  <2>1. Below(a) = Under(a) /\ Under(a) \in SUBSET Activities /\ a \in Activities
    BY <1>1, AboveFacts DEF Below, Under
  <2> HIDE DEF n, asked
  <2>2. Total(Grants(act), Under(a)) = Total(Grants(act), Under(a) \cap asked)
    <3>1. Under(a) \cap asked \in SUBSET Under(a) /\ Under(a) \in SUBSET Activities
      BY <2>1
    <3>2. \A b \in Under(a) \ (Under(a) \cap asked) : Grants(act)[b] = 0
      BY <1>2, <2>1
    <3> QED BY <1>2, <3>1, <3>2, TotalZero
  <2>3. \A b \in Under(a) \cap asked : n[b] = Grants(act)[b]
    BY <1>2, <2>1
  <2>4. Total(n, Under(a) \cap asked) = Total(Grants(act), Under(a) \cap asked)
    BY <2>3, TotalSame
  <2> QED BY <2>1, <2>2, <2>4 DEF Graced
<1>4. \A a \in alive : a \in asked <=> act[a].free_goal # 0
  BY <1>1 DEF Graced
<1>5. \A a \in asked : act[a].free_bad_karma = 0
  BY <1>1 DEF Graced
<1> QED BY <1>3, <1>4, <1>5 DEF GraceOK

-----------------------------------------------------------------------------
(***************************************************************************)
(* FrameInv holds in every reachable state, for any frames, tree of        *)
(* activities and policies, also when replies are overtaken and activities *)
(* are destroyed: between two handlers every descriptor, list and counter  *)
(* tells the same.                                                         *)
(***************************************************************************)
THEOREM FramesInvariant == Spec => []FrameInv
<1>1. Init => FrameInv
  BY FramesInit
<1>2. FrameInv /\ [Next]_vars => FrameInv'
  BY FramesStep DEF Safely
<1> QED BY <1>1, <1>2, PTL DEF Spec

(***************************************************************************)
(* Each frame in use is on the one list its descriptor calls for, and the  *)
(* local counts and the totals up the tree are exact, through every change *)
(* of owner, eviction, rescue and inheritance (object_desc_claim,          *)
(* reclaim_from, activity_destroy).                                        *)
(***************************************************************************)
THEOREM FrameAccounting == Spec => []Accounting
<1>1. FrameInv => Accounting
  BY FramesAttached, FramesLocalHolds, TotalsHold DEF Accounting
<1> QED BY <1>1, FramesInvariant, PTL

(***************************************************************************)
(* No write of a user is forgotten by those who read the hardware's bits   *)
(* (object_desc_unmap, object_desc_flush, ager_loop), however the ager and *)
(* the replies to faults interleave: a page that was written to is dirty,  *)
(* or its bit is still there to be read, and one that is offered for reuse *)
(* may be discarded or was written to through a mapping that is not noted. *)
(***************************************************************************)
THEOREM FramesKeepWrites == Spec => []NothingLost
<1>1. Init => FrameInv /\ HardInv
  BY FramesInit
<1>2. FrameInv /\ HardInv /\ [Next]_vars => FrameInv' /\ HardInv'
  BY FramesStep DEF Safely
<1>3. FrameInv /\ HardInv => NothingLost
  BY NothingLostHolds
<1> QED BY <1>1, <1>2, <1>3, PTL DEF Spec

(***************************************************************************)
(* While no activity is destroyed, what is excluded from collection is     *)
(* exactly what the activities that were asked to free memory had then, no *)
(* counter falls below zero, and the lists agree with the descriptors      *)
(* (pager_collect, object_desc_claim).                                     *)
(***************************************************************************)
THEOREM FramesGrace ==
  ASSUME Mortal = {}
  PROVE  Spec => []GraceAccounting
<1>1. Init => FrameInv /\ Graced(act)
  BY FramesInit
<1>2. FrameInv /\ Graced(act) /\ [Next]_vars => FrameInv' /\ Graced(act)'
  BY FramesStep DEF Safely
<1>3. FrameInv /\ Graced(act) => GraceAccounting
  BY FramesAttached, CountersNat, GraceHolds DEF GraceAccounting
<1> QED BY <1>1, <1>2, <1>3, PTL DEF Spec

-----------------------------------------------------------------------------
(***************************************************************************)
(* The order of the children and the search for a victim.                  *)
(***************************************************************************)
LEMMA LeastIs ==
  ASSUME NEW S \in SUBSET Nat, S # {}
  PROVE  Least(S) \in S /\ \A y \in S : Least(S) <= y
<1>1. PICK x \in S : \A y \in S : ~(<<y, x>> \in OpToRel(<, Nat))
  BY NatLessThanWellFounded, WFMin, Zenon
<1>2. ASSUME NEW y \in S PROVE x <= y
  <2>1. x \in Nat /\ y \in Nat
    OBVIOUS
  <2>2. y < x => <<y, x>> \in OpToRel(<, Nat)
    BY <2>1 DEF OpToRel
  <2>3. ~(y < x)
    BY <1>1, <2>2, Zenon
  <2> QED BY <2>1, <2>3
<1> QED BY <1>2 DEF Least

LEMMA LastIs ==
  ASSUME NEW n \in Nat, NEW S \in SUBSET (1..n)
  PROVE  /\ S = {} => LastOf(S) = 0
         /\ S # {} => LastOf(S) \in S /\ \A y \in S : y <= LastOf(S)
<1>1. S = {} => LastOf(S) = 0
  BY DEF LastOf
<1>2. ASSUME S # {} PROVE LastOf(S) \in S /\ \A y \in S : y <= LastOf(S)
  <2> DEFINE T == {n - x : x \in S}
  <2>0. \A x \in S : n - x \in Nat /\ n - x \in T
    OBVIOUS
  <2>1. T \in SUBSET Nat /\ T # {}
    BY <1>2, <2>0
  <2>2. PICK x \in S : Least(T) = n - x
    BY <2>1, LeastIs
  <2>3. ASSUME NEW y \in S PROVE y <= x
    <3>1. n - x <= n - y
      <4> HIDE DEF T
      <4> QED BY <2>0, <2>1, <2>2, LeastIs
    <3>2. x \in Nat /\ y \in Nat
      OBVIOUS
    <3> QED BY <3>1, <3>2
  <2> HIDE DEF T
  <2>4. \E z \in S : \A y \in S : y <= z
    BY <2>3
  <2> QED BY <1>2, <2>4 DEF LastOf
<1> QED BY <1>1, <1>2

LEMMA FirstIs ==
  ASSUME NEW n \in Nat, NEW S \in SUBSET (1..n)
  PROVE  /\ FirstOf(S, n) \in 1..(n + 1)
         /\ FirstOf(S, n) <= n => FirstOf(S, n) \in S
         /\ \A y \in S : FirstOf(S, n) <= y
<1>1. CASE S = {}
  BY <1>1 DEF FirstOf
<1>2. CASE S # {}
  <2>1. S \in SUBSET Nat
    OBVIOUS
  <2>2. Least(S) \in S /\ \A y \in S : Least(S) <= y
    BY <1>2, <2>1, LeastIs
  <2> DEFINE m == Least(S)
  <2>3. FirstOf(S, n) = m
    BY <1>2 DEF FirstOf
  <2> HIDE DEF m
  <2>4. m \in 1..n /\ m \in S /\ \A y \in S : m <= y
    BY <2>2 DEF m
  <2> QED BY <2>3, <2>4
<1> QED BY <1>1, <1>2

LEMMA InsertIs ==
  ASSUME NEW S, NEW list \in Seq(S), NEW a \in S, NEW n \in 0..Len(list)
  PROVE  /\ InsertAfter(list, n, a) \in Seq(S)
         /\ Len(InsertAfter(list, n, a)) = Len(list) + 1
         /\ \A i \in 1..n : InsertAfter(list, n, a)[i] = list[i]
         /\ InsertAfter(list, n, a)[n + 1] = a
         /\ \A i \in (n + 2)..(Len(list) + 1) : InsertAfter(list, n, a)[i] = list[i - 1]
<1> DEFINE l == SubSeq(list, 1, n)
           r == SubSeq(list, n + 1, Len(list))
<1>0. Len(list) \in Nat /\ n \in Nat
  OBVIOUS
<1>1. l \in Seq(S) /\ Len(l) = n /\ \A i \in 1..n : l[i] = list[i]
  BY <1>0
<1>2. r \in Seq(S) /\ Len(r) = Len(list) - n /\ \A i \in 1..(Len(list) - n) : r[i] = list[n + i]
  BY <1>0
<1>3. InsertAfter(list, n, a) = l \o <<a>> \o r
  <2>1. (n + 1) - 1 = n
    BY <1>0
  <2> QED BY <2>1 DEF InsertAfter, InsertAt
<1> HIDE DEF l, r
<1> DEFINE m == l \o <<a>>
<1>4. m \in Seq(S) /\ Len(m) = n + 1 /\ (\A i \in 1..n : m[i] = list[i]) /\ m[n + 1] = a
  BY <1>0, <1>1
<1> HIDE DEF m
<1>5. m \o r \in Seq(S) /\ Len(m \o r) = Len(list) + 1
      /\ \A i \in 1..(Len(list) + 1) : (m \o r)[i] = IF i <= n + 1 THEN m[i] ELSE r[i - (n + 1)]
  <2>1. /\ m \o r \in Seq(S) /\ Len(m \o r) = Len(m) + Len(r)
        /\ \A i \in 1..(Len(m) + Len(r)) : (m \o r)[i] = IF i <= Len(m) THEN m[i] ELSE r[i - Len(m)]
    BY <1>2, <1>4, ConcatProperties
  <2>2. Len(m) + Len(r) = Len(list) + 1
    BY <1>0, <1>2, <1>4
  <2> QED BY <1>4, <2>1, <2>2
<1>6. \A i \in 1..(n + 1) : (m \o r)[i] = m[i]
  BY <1>0, <1>5
<1>7. ASSUME NEW i \in (n + 2)..(Len(list) + 1) PROVE (m \o r)[i] = list[i - 1]
  <2>1. i \in 1..(Len(list) + 1) /\ ~(i <= n + 1) /\ i - (n + 1) \in 1..(Len(list) - n)
        /\ n + (i - (n + 1)) = i - 1
    BY <1>0
  <2>2. (m \o r)[i] = r[i - (n + 1)]
    BY <1>5, <2>1
  <2>3. r[i - (n + 1)] = list[n + (i - (n + 1))]
    BY <1>2, <2>1
  <2> QED BY <2>1, <2>2, <2>3
<1> QED BY <1>0, <1>3, <1>4, <1>5, <1>6, <1>7 DEF m

LEMMA RemoveIs ==
  ASSUME NEW S, NEW list \in Seq(S), NEW n \in 1..Len(list)
  PROVE  /\ RemoveAt(list, n) \in Seq(S)
         /\ Len(RemoveAt(list, n)) = Len(list) - 1
         /\ \A i \in 1..(n - 1) : RemoveAt(list, n)[i] = list[i]
         /\ \A i \in n..(Len(list) - 1) : RemoveAt(list, n)[i] = list[i + 1]
<1> DEFINE l == SubSeq(list, 1, n - 1)
           r == SubSeq(list, n + 1, Len(list))
<1>0. Len(list) \in Nat /\ n \in Nat
  OBVIOUS
<1>1. l \in Seq(S) /\ Len(l) = n - 1 /\ \A i \in 1..(n - 1) : l[i] = list[i]
  BY <1>0
<1>2. r \in Seq(S) /\ Len(r) = Len(list) - n /\ \A i \in 1..(Len(list) - n) : r[i] = list[n + i]
  BY <1>0
<1>3. RemoveAt(list, n) = l \o r
  BY <1>0 DEF RemoveAt
<1> HIDE DEF l, r
<1>4. l \o r \in Seq(S) /\ Len(l \o r) = Len(list) - 1
      /\ \A i \in 1..(Len(list) - 1) : (l \o r)[i] = IF i <= n - 1 THEN l[i] ELSE r[i - (n - 1)]
  <2>1. /\ l \o r \in Seq(S) /\ Len(l \o r) = Len(l) + Len(r)
        /\ \A i \in 1..(Len(l) + Len(r)) : (l \o r)[i] = IF i <= Len(l) THEN l[i] ELSE r[i - Len(l)]
    BY <1>1, <1>2, ConcatProperties
  <2>2. Len(l) + Len(r) = Len(list) - 1
    BY <1>0, <1>1, <1>2
  <2> QED BY <1>1, <2>1, <2>2
<1>5. ASSUME NEW i \in 1..(n - 1) PROVE (l \o r)[i] = list[i]
  BY <1>0, <1>1, <1>4
<1>6. ASSUME NEW i \in n..(Len(list) - 1) PROVE (l \o r)[i] = list[i + 1]
  <2>1. i \in 1..(Len(list) - 1) /\ ~(i <= n - 1) /\ i - (n - 1) \in 1..(Len(list) - n)
        /\ n + (i - (n - 1)) = i + 1
    BY <1>0
  <2> QED BY <1>2, <1>4, <2>1
<1> QED BY <1>3, <1>4, <1>5, <1>6

Sorted(list, sib) ==
    \A i, j \in 1..Len(list) : i < j => sib[list[i]].priority >= sib[list[j]].priority
Distinct(list) == \A i, j \in 1..Len(list) : list[i] = list[j] => i = j
Listed(list) == {list[i] : i \in 1..Len(list)}

SelectInv ==
    /\ children \in Seq(Children) /\ Distinct(children)
    /\ sibling \in [All -> Policy] /\ child \in Policy
    /\ Sorted(children, sibling)

LEMMA PriorityNat ==
  ASSUME NEW p \in Policy
  PROVE  p.priority \in Nat
BY PagerSelectAssumption DEF Policy

\* An element is inserted where it belongs.
LEMMA InsertSorted ==
  ASSUME NEW list \in Seq(Children), NEW sib \in [All -> Policy], NEW new \in [All -> Policy],
         NEW a \in Children, a \notin Listed(list), \A c \in Listed(list) : new[c] = sib[c],
         Distinct(list), Sorted(list, sib), NEW n \in 0..Len(list),
         n > 0 => sib[list[n]].priority >= new[a].priority,
         n < Len(list) => sib[list[n + 1]].priority <= new[a].priority
  PROVE  /\ InsertAfter(list, n, a) \in Seq(Children)
         /\ Distinct(InsertAfter(list, n, a))
         /\ Sorted(InsertAfter(list, n, a), new)
<1> DEFINE l == InsertAfter(list, n, a)
           k == Len(list)
           pr(i) == sib[list[i]].priority
<1>0. k \in Nat /\ n \in Nat
  OBVIOUS
<1>1. /\ l \in Seq(Children) /\ Len(l) = k + 1 /\ l[n + 1] = a
      /\ \A i \in 1..n : l[i] = list[i]
      /\ \A i \in (n + 2)..(k + 1) : l[i] = list[i - 1]
  <2> HIDE DEF pr
  <2>1. l \in Seq(Children) /\ Len(l) = k + 1 /\ l[n + 1] = a
    BY InsertIs
  <2>2. \A i \in 1..n : l[i] = list[i]
    BY InsertIs
  <2>3. \A i \in (n + 2)..(k + 1) : l[i] = list[i - 1]
    BY InsertIs
  <2> QED BY <2>1, <2>2, <2>3
<1> HIDE DEF l
<1>2. \A i \in 1..k : list[i] \in Children /\ list[i] # a /\ list[i] \in All /\ new[list[i]] = sib[list[i]]
                      /\ pr(i) \in Nat
  BY PriorityNat DEF Listed, All
<1>3. new[a].priority \in Nat
  BY PriorityNat DEF All
<1>4. \A i \in 1..n : pr(i) >= new[a].priority
  BY <1>0, <1>2, <1>3 DEF Sorted
<1>5. \A i \in (n + 1)..k : pr(i) <= new[a].priority
  BY <1>0, <1>2, <1>3 DEF Sorted
<1>6. \A i, j \in 1..k : i < j => pr(i) >= pr(j)
  BY DEF Sorted
<1>7. \A i \in 1..(k + 1) : /\ i <= n => i \in 1..k /\ l[i] = list[i] /\ new[l[i]].priority = pr(i)
                            /\ i = n + 1 => l[i] = a
                            /\ i > n + 1 => /\ i - 1 \in (n + 1)..k /\ i - 1 \in 1..k
                                            /\ l[i] = list[i - 1] /\ new[l[i]].priority = pr(i - 1)
  BY <1>0, <1>1, <1>2
<1> HIDE DEF pr
<1>8. Sorted(l, new)
  <2> SUFFICES ASSUME NEW i \in 1..(k + 1), NEW j \in 1..(k + 1), i < j
               PROVE  new[l[i]].priority >= new[l[j]].priority
    BY <1>1 DEF Sorted
  <2>0. i \in Nat /\ j \in Nat
    BY <1>0
  <2>1. CASE j <= n
    <3>1. i <= n /\ i \in 1..k /\ j \in 1..k
      BY <1>0, <2>0, <2>1
    <3> QED BY <1>6, <1>7, <2>1, <3>1
  <2>2. CASE j = n + 1
    <3>1. i \in 1..n /\ i <= n
      BY <1>0, <2>0, <2>2
    <3> QED BY <1>4, <1>7, <2>2, <3>1
  <2>3. CASE j > n + 1 /\ i <= n
    <3>1. i < j - 1
      BY <1>0, <2>0, <2>3
    <3> QED BY <1>6, <1>7, <2>3, <3>1
  <2>4. CASE j > n + 1 /\ i = n + 1
    BY <1>5, <1>7, <2>4
  <2>5. CASE j > n + 1 /\ i > n + 1
    <3>1. i - 1 < j - 1
      BY <1>0, <2>0
    <3> QED BY <1>6, <1>7, <2>5, <3>1
  <2> QED BY <1>0, <2>0, <2>1, <2>2, <2>3, <2>4, <2>5
<1>9. Distinct(l)
  <2> SUFFICES ASSUME NEW i \in 1..(k + 1), NEW j \in 1..(k + 1), l[i] = l[j]
               PROVE  i = j
    BY <1>1 DEF Distinct
  <2>0. i \in Nat /\ j \in Nat
    BY <1>0
  <2> DEFINE at(x) == IF x <= n THEN x ELSE x - 1
  <2>1. i = n + 1 <=> j = n + 1
    <3>1. ASSUME NEW x \in 1..(k + 1) PROVE l[x] = a <=> x = n + 1
      <4>1. x <= n => l[x] = list[x] /\ x \in 1..k
        BY <1>7
      <4>2. x > n + 1 => l[x] = list[x - 1] /\ x - 1 \in 1..k
        BY <1>7
      <4>3. x = n + 1 => l[x] = a
        BY <1>7
      <4>4. \A y \in 1..k : list[y] # a
        BY <1>2
      <4>5. x <= n \/ x = n + 1 \/ x > n + 1
        BY <1>0
      <4>6. ~(x <= n /\ x = n + 1) /\ ~(x > n + 1 /\ x = n + 1)
        BY <1>0
      <4> QED BY <4>1, <4>2, <4>3, <4>4, <4>5, <4>6
    <3> QED BY <3>1
  <2>2. CASE i # n + 1
    <3>1. at(i) \in 1..k /\ at(j) \in 1..k /\ l[i] = list[at(i)] /\ l[j] = list[at(j)]
      BY <1>0, <1>7, <2>0, <2>1, <2>2
    <3>2. at(i) = at(j)
      <4> HIDE DEF at
      <4> QED BY <3>1 DEF Distinct
    <3> QED BY <1>0, <2>0, <2>1, <2>2, <3>2
  <2> QED BY <2>1, <2>2
<1> QED BY <1>1, <1>8, <1>9 DEF l

\* An element is taken out.
LEMMA RemoveSorted ==
  ASSUME NEW list \in Seq(Children), NEW sib, Distinct(list), Sorted(list, sib), NEW n \in 1..Len(list)
  PROVE  /\ RemoveAt(list, n) \in Seq(Children)
         /\ Distinct(RemoveAt(list, n))
         /\ Sorted(RemoveAt(list, n), sib)
         /\ Listed(RemoveAt(list, n)) = Listed(list) \ {list[n]}
<1> DEFINE l == RemoveAt(list, n)
           k == Len(list)
           at(x) == IF x < n THEN x ELSE x + 1
<1>0. k \in Nat /\ n \in Nat
  OBVIOUS
<1>1. /\ l \in Seq(Children) /\ Len(l) = k - 1
      /\ \A i \in 1..(n - 1) : l[i] = list[i]
      /\ \A i \in n..(k - 1) : l[i] = list[i + 1]
  BY RemoveIs
<1> HIDE DEF l
<1>2. ASSUME NEW i \in 1..(k - 1) PROVE at(i) \in 1..k /\ at(i) # n /\ l[i] = list[at(i)]
  <2>1. CASE i < n
    <3>1. i \in 1..(n - 1) /\ at(i) = i /\ i \in 1..k /\ i # n
      BY <1>0, <2>1
    <3>2. l[i] = list[i]
      BY <1>1, <3>1
    <3> HIDE DEF at, k
    <3> QED BY <3>1, <3>2
  <2>2. CASE ~(i < n)
    <3>1. i \in n..(k - 1) /\ at(i) = i + 1 /\ i + 1 \in 1..k /\ i + 1 # n
      BY <1>0, <2>2
    <3>2. l[i] = list[i + 1]
      BY <1>1, <3>1
    <3> HIDE DEF at, k
    <3> QED BY <3>1, <3>2
  <2> QED BY <2>1, <2>2
<1>3. \A i, j \in 1..(k - 1) : (i < j => at(i) < at(j)) /\ (at(i) = at(j) => i = j)
  BY <1>0
<1>4. \A i \in 1..k : i # n => \E j \in 1..(k - 1) : at(j) = i
  <2> SUFFICES ASSUME NEW i \in 1..k, i # n PROVE \E j \in 1..(k - 1) : at(j) = i
    OBVIOUS
  <2>1. CASE i < n
    <3>1. i \in 1..(k - 1) /\ at(i) = i
      BY <1>0, <2>1
    <3> QED BY <3>1
  <2>2. CASE i > n
    <3>1. i - 1 \in 1..(k - 1) /\ at(i - 1) = i
      BY <1>0, <2>2
    <3> QED BY <3>1
  <2> QED BY <1>0, <2>1, <2>2
<1> HIDE DEF at
<1>5. Distinct(l) /\ Sorted(l, sib)
  <2> SUFFICES ASSUME NEW i \in 1..(k - 1), NEW j \in 1..(k - 1)
               PROVE  /\ l[i] = l[j] => i = j
                      /\ i < j => sib[l[i]].priority >= sib[l[j]].priority
    BY <1>1 DEF Distinct, Sorted
  <2>1. /\ at(i) \in 1..k /\ at(j) \in 1..k /\ l[i] = list[at(i)] /\ l[j] = list[at(j)]
    BY <1>2
  <2>2. (i < j => at(i) < at(j)) /\ (at(i) = at(j) => i = j)
    BY <1>3
  <2>3. list[at(i)] = list[at(j)] => at(i) = at(j)
    BY <2>1 DEF Distinct
  <2>4. at(i) < at(j) => sib[list[at(i)]].priority >= sib[list[at(j)]].priority
    BY <2>1 DEF Sorted
  <2> QED BY <2>1, <2>2, <2>3, <2>4
<1>6. Listed(l) = Listed(list) \ {list[n]}
  <2>1. \A i \in 1..(k - 1) : l[i] \in Listed(list) /\ l[i] # list[n]
    BY <1>2 DEF Distinct, Listed
  <2>2. ASSUME NEW c \in Listed(list), c # list[n] PROVE c \in Listed(l)
    <3>1. PICK i \in 1..k : c = list[i]
      BY DEF Listed
    <3>2. PICK j \in 1..(k - 1) : at(j) = i
      BY <1>4, <2>2, <3>1
    <3> QED BY <1>1, <1>2, <3>1, <3>2 DEF Listed
  <2>3. ASSUME NEW c \in Listed(l) PROVE c \in Listed(list) /\ c # list[n]
    <3>1. PICK i \in 1..(k - 1) : c = l[i]
      BY <1>1 DEF Listed
    <3> QED BY <2>1, <3>1
  <2> QED BY <2>2, <2>3
<1> QED BY <1>1, <1>5, <1>6 DEF l

LEMMA ChildListed ==
  ASSUME SelectInv
  PROVE  ToSet(children) = Listed(children) /\ Len(children) \in Nat
BY DEF SelectInv, ToSet, Listed

LEMMA PlaceOfIs ==
  ASSUME SelectInv, NEW a \in ToSet(children)
  PROVE  PlaceOf(a) \in 1..Len(children) /\ children[PlaceOf(a)] = a
<1>1. \E i \in 1..Len(children) : children[i] = a
  BY ChildListed DEF Listed
<1> QED BY <1>1 DEF PlaceOf

LEMMA ChildPriorities ==
  ASSUME SelectInv, NEW i \in 1..Len(children)
  PROVE  children[i] \in Children /\ children[i] \in All /\ sibling[children[i]].priority \in Nat
<1>1. children[i] \in Children
  BY DEF SelectInv
<1> QED BY <1>1, PriorityNat DEF SelectInv, All

LEMMA VoidTyped == VoidPolicy \in Policy
<1>1. Least(PriorityValues) \in PriorityValues /\ Least(Weights) \in Weights
  BY PagerSelectAssumption, LeastIs
<1> QED BY <1>1 DEF VoidPolicy, Policy

LEMMA PrepareStep ==
  ASSUME SelectInv, NEW a \in Children, Prepare(a)
  PROVE  SelectInv'
<1> DEFINE n == Place(children, a)
           k == Len(children)
           high == {i \in 2..k : sibling[children[i]].priority <= sibling[a].priority}
<1>0. k \in Nat /\ children \in Seq(Children) /\ a \in All /\ sibling[a].priority \in Nat
  BY ChildListed, PriorityNat DEF SelectInv, All
<1>1. /\ n \in 0..k
      /\ n > 0 => sibling[children[n]].priority >= sibling[a].priority
      /\ n < k => sibling[children[n + 1]].priority <= sibling[a].priority
  <2>1. CASE children = <<>> \/ sibling[a].priority >= sibling[children[1]].priority
    <3>1. n = 0
      BY <2>1 DEF Place
    <3>2. k > 0 => 1 \in 1..k /\ children # <<>>
      BY <1>0
    <3> HIDE DEF n
    <3> QED BY <1>0, <2>1, <3>1, <3>2, ChildPriorities
  <2>2. CASE children # <<>> /\ ~(sibling[a].priority >= sibling[children[1]].priority)
    <3> DEFINE f == FirstOf(high, k)
    <3>1. n = f - 1
      BY <2>2 DEF Place
    <3>2. k > 0
      BY <1>0, <2>2
    <3>3. high \in SUBSET (1..k)
      BY <1>0
    <3>4. f \in 1..(k + 1) /\ (f <= k => f \in high) /\ \A y \in high : f <= y
      BY <1>0, <3>3, FirstIs
    <3> HIDE DEF n, f
    <3>5. f >= 2
      BY <1>0, <3>2, <3>4
    <3>6. n \in 0..k /\ n \in 1..k /\ n + 1 = f
      BY <1>0, <3>1, <3>4, <3>5
    <3>7. n < k => sibling[children[n + 1]].priority <= sibling[a].priority
      BY <1>0, <3>4, <3>6
    <3>8. sibling[children[n]].priority >= sibling[a].priority
      <4>0. sibling[children[n]].priority \in Nat
        BY <3>6, ChildPriorities
      <4>1. CASE n = 1
        <5> HIDE DEF high
        <5> QED BY <1>0, <2>2, <4>0, <4>1
      <4>2. CASE n # 1
        <5>1. n \in 2..k /\ n \notin high
          BY <1>0, <3>4, <3>6, <4>2
        <5> QED BY <1>0, <4>0, <5>1
      <4> QED BY <4>1, <4>2
    <3> QED BY <3>6, <3>7, <3>8
  <2> QED BY <2>1, <2>2
<1>2. children' = InsertAfter(children, n, a) /\ sibling' = sibling /\ child' = child
  BY DEF Prepare
<1>3. a \notin Listed(children)
  BY ChildListed DEF Prepare
<1> HIDE DEF n, k
<1>4. /\ InsertAfter(children, n, a) \in Seq(Children) /\ Distinct(InsertAfter(children, n, a))
      /\ Sorted(InsertAfter(children, n, a), sibling)
  <2>1. n \in 0..Len(children) /\ (n < Len(children) => n < k)
    BY <1>1 DEF k
  <2> QED BY <1>0, <1>1, <1>3, <2>1, InsertSorted DEF SelectInv
<1> QED BY <1>2, <1>4 DEF SelectInv

LEMMA DeprepareStep ==
  ASSUME SelectInv, NEW a \in Children, Deprepare(a)
  PROVE  SelectInv'
<1> DEFINE i == PlaceOf(a)
           l == RemoveAt(children, i)
<1>1. i \in 1..Len(children) /\ children[i] = a
  BY PlaceOfIs DEF Deprepare
<1>2. children' = l /\ sibling' = [sibling EXCEPT ![a] = VoidPolicy] /\ child' = child
  BY DEF Deprepare
<1> HIDE DEF i
<1>3. l \in Seq(Children) /\ Distinct(l) /\ Sorted(l, sibling) /\ Listed(l) = Listed(children) \ {a}
  BY <1>1, RemoveSorted DEF SelectInv
<1> HIDE DEF l
<1>4. sibling' \in [All -> Policy] /\ \A c \in Listed(l) : sibling'[c] = sibling[c]
  <2>1. \A c \in Listed(l) : c # a /\ c \in All
    BY <1>3, ChildPriorities DEF Listed
  <2> HIDE DEF Listed
  <2> QED BY <1>2, <2>1, VoidTyped DEF SelectInv, All
<1>5. Sorted(l, sibling')
  BY <1>3, <1>4 DEF Sorted, Listed
<1> QED BY <1>2, <1>3, <1>4, <1>5 DEF SelectInv
LEMMA SetSiblingStep ==
  ASSUME SelectInv, NEW a \in Children, NEW p \in Policy, SetSibling(a, p)
  PROVE  SelectInv'
<1> DEFINE i == PlaceOf(a)
           k == Len(children)
           l == RemoveAt(children, i)
           new == [sibling EXCEPT ![a] = p]
           x == p.priority
           old == sibling[a].priority
<1>0. k \in Nat /\ children \in Seq(Children) /\ a \in All /\ old \in Nat /\ x \in Nat
      /\ new \in [All -> Policy] /\ new[a] = p /\ sibling \in [All -> Policy]
  BY ChildListed, PriorityNat DEF SelectInv, All
<1>1. i \in 1..k /\ children[i] = a
  BY PlaceOfIs DEF SetSibling
<1>2. children' = Reordered(a, x) /\ sibling' = new /\ child' = child
  BY DEF SetSibling
<1>3. l \in Seq(Children) /\ Distinct(l) /\ Sorted(l, sibling) /\ Listed(l) = Listed(children) \ {a}
  <2> HIDE DEF i
  <2> QED BY <1>1, RemoveSorted DEF SelectInv
<1>4. /\ Len(l) = k - 1
      /\ \A j \in 1..(i - 1) : l[j] = children[j]
      /\ \A j \in i..(k - 1) : l[j] = children[j + 1]
  <2> HIDE DEF i
  <2> QED BY <1>0, <1>1, RemoveIs
<1>5. \A c \in Listed(l) : c # a /\ c \in All /\ new[c] = sibling[c]
  <2>1. \A c \in Listed(l) : c # a /\ c \in All
    BY <1>3, ChildPriorities DEF Listed
  <2> HIDE DEF Listed
  <2> QED BY <1>0, <2>1
<1>6. \A j \in 1..k : sibling[children[j]].priority \in Nat
        /\ (j < i => sibling[children[j]].priority >= old)
        /\ (j > i => sibling[children[j]].priority <= old)
  BY <1>1, ChildPriorities DEF SelectInv, Sorted
<1>7. ASSUME NEW n \in 0..(k - 1),
             n > 0 => sibling[l[n]].priority >= x,
             n < k - 1 => sibling[l[n + 1]].priority <= x
      PROVE  InsertAfter(l, n, a) \in Seq(Children) /\ Distinct(InsertAfter(l, n, a))
             /\ Sorted(InsertAfter(l, n, a), new)
  <2> HIDE DEF l, new, k
  <2>1. a \notin Listed(l) /\ n \in 0..Len(l) /\ (n < Len(l) => n < k - 1)
    BY <1>4, <1>5, <1>7
  <2>2. new[a].priority = x
    BY <1>0
  <2> QED BY <1>0, <1>3, <1>5, <1>7, <2>1, <2>2, InsertSorted
<1>8. /\ x = old => Reordered(a, x) = children
      /\ x > old => Reordered(a, x) = InsertAfter(l, PrevOf(a, x), a)
      /\ x < old => Reordered(a, x) = InsertAfter(l, NextOf(a, x) - 1, a)
  <2> HIDE DEF l
  <2>1. l = RemoveAt(children, PlaceOf(a))
    BY DEF l
  <2> QED BY <1>0, <2>1 DEF Reordered
<1> HIDE DEF l, new
<1>9. CASE x = old
  <2>1. \A c \in All : new[c].priority = sibling[c].priority
    BY <1>0, <1>9 DEF new
  <2>2. Sorted(children, new)
    BY <1>0, <2>1, ChildPriorities DEF SelectInv, Sorted
  <2> QED BY <1>0, <1>2, <1>8, <1>9, <2>2 DEF SelectInv
<1>10. CASE x > old
  <2> DEFINE n == PrevOf(a, x)
             S == {j \in 1..(i - 1) : sibling[children[j]].priority >= x}
  <2>1. n = LastOf(S)
    BY DEF PrevOf
  <2> HIDE DEF n, i
  <2>2. S \in SUBSET (1..(i - 1)) /\ i - 1 \in Nat
    BY <1>0, <1>1
  <2>3. (S = {} => n = 0) /\ (S # {} => n \in S /\ \A y \in S : y <= n)
    BY <2>1, <2>2, LastIs
  <2>4. n \in 0..(i - 1) /\ (n > 0 => n \in S) /\ \A y \in 1..(i - 1) : y > n => y \notin S
    <3>1. CASE S = {}
      BY <2>2, <2>3, <3>1
    <3>2. CASE S # {}
      <4> HIDE DEF S
      <4>1. n \in 1..(i - 1) /\ n \in S /\ \A y \in S : y <= n
        BY <2>2, <2>3, <3>2
      <4>2. ASSUME NEW y \in 1..(i - 1), y > n PROVE y \notin S
        BY <2>2, <4>1, <4>2
      <4> QED BY <2>2, <4>1, <4>2
    <3> QED BY <3>1, <3>2
  <2>5. n \in 0..(k - 1) /\ n \in Nat /\ i \in Nat /\ i <= k
    BY <1>0, <1>1, <2>4
  <2>6. n > 0 => sibling[l[n]].priority >= x
    BY <1>4, <2>4, <2>5
  <2>7. ASSUME n < k - 1 PROVE sibling[l[n + 1]].priority <= x
    <3>1. CASE n + 1 \in 1..(i - 1)
      <4>1. l[n + 1] = children[n + 1] /\ n + 1 \in 1..k /\ n + 1 \notin S
        BY <1>0, <1>1, <1>4, <2>4, <2>5, <3>1
      <4> QED BY <1>0, <1>6, <3>1, <4>1
    <3>2. CASE n + 1 = i
      <4>1. n + 1 \in i..(k - 1) /\ n + 2 \in 1..k /\ n + 2 > i /\ (n + 1) + 1 = n + 2
        BY <1>0, <2>5, <2>7, <3>2
      <4>2. l[n + 1] = children[n + 2]
        BY <1>4, <4>1
      <4> QED BY <1>0, <1>6, <1>10, <4>1, <4>2
    <3> QED BY <1>0, <2>4, <2>5, <3>1, <3>2
  <2>8. children' = InsertAfter(l, n, a)
    BY <1>2, <1>8, <1>10 DEF n
  <2> QED BY <1>0, <1>2, <1>7, <2>5, <2>6, <2>7, <2>8 DEF SelectInv
<1>11. CASE x < old
  <2> DEFINE S == {j \in (i + 1)..k : sibling[children[j]].priority <= x}
             f == FirstOf(S, k)
             n == f - 2
  <2>1. NextOf(a, x) = f - 1
    BY DEF NextOf
  <2> HIDE DEF i
  <2>2. S \in SUBSET (1..k)
    BY <1>0, <1>1
  <2>3. f \in 1..(k + 1) /\ (f <= k => f \in S) /\ \A y \in S : f <= y
    BY <1>0, <2>2, FirstIs
  <2> HIDE DEF f
  <2>4. f \in Nat /\ i \in Nat /\ i <= k /\ f > i
    BY <1>0, <1>1, <2>3
  <2>5. n \in 0..(k - 1) /\ (f - 1) - 1 = n /\ n + 2 = f
    BY <1>0, <1>1, <2>3, <2>4
  <2> HIDE DEF n
  <2>6. ASSUME n > 0 PROVE sibling[l[n]].priority >= x
    <3>1. CASE n < i
      <4>1. n \in 1..(i - 1) /\ n \in 1..k
        BY <1>0, <2>4, <2>5, <2>6, <3>1
      <4> QED BY <1>0, <1>4, <1>6, <1>11, <3>1, <4>1
    <3>2. CASE n >= i
      <4>1. n \in i..(k - 1) /\ n + 1 \in (i + 1)..k /\ n + 1 \in 1..k /\ n + 1 < f
        BY <1>0, <2>3, <2>4, <2>5, <3>2
      <4>2. n + 1 \notin S
        BY <2>3, <2>4, <4>1
      <4> QED BY <1>0, <1>4, <1>6, <4>1, <4>2
    <3> QED BY <2>4, <2>5, <3>1, <3>2
  <2>7. ASSUME n < k - 1 PROVE sibling[l[n + 1]].priority <= x
    <3>1. f <= k /\ n + 1 \in i..(k - 1) /\ (n + 1) + 1 = f
      BY <1>0, <2>4, <2>5, <2>7
    <3> QED BY <1>4, <2>3, <3>1
  <2>8. children' = InsertAfter(l, n, a)
    BY <1>2, <1>8, <1>11, <2>1, <2>5
  <2> QED BY <1>0, <1>2, <1>7, <2>5, <2>6, <2>7, <2>8 DEF SelectInv
<1> QED BY <1>0, <1>9, <1>10, <1>11

LEMMA SelectInitInv == SelectInit => SelectInv
<1> SUFFICES ASSUME SelectInit PROVE SelectInv
  OBVIOUS
<1>1. children = <<>> /\ sibling = [a \in All |-> VoidPolicy] /\ child = VoidPolicy
  BY DEF SelectInit
<1>2. Len(<<>>) = 0 /\ <<>> \in Seq(Children) /\ 1..0 = {}
  OBVIOUS
<1>3. Distinct(<<>>) /\ Sorted(<<>>, sibling)
  BY <1>2 DEF Distinct, Sorted
<1> QED BY <1>1, <1>2, <1>3, VoidTyped DEF SelectInv

LEMMA SelectStepInv == SelectInv /\ [SelectNext]_selectVars => SelectInv'
<1> SUFFICES ASSUME SelectInv, [SelectNext]_selectVars PROVE SelectInv'
  OBVIOUS
<1>1. ASSUME NEW p \in Policy, NEW q \in Policy, NEW type \in CapTypes, SetSelf(p, q, type)
      PROVE  SelectInv'
  <2>1. children' = children /\ child' = p /\ sibling' = [sibling EXCEPT ![Self] = q]
    BY <1>1 DEF SetSelf
  <2>2. sibling' \in [All -> Policy] /\ \A c \in Children : sibling'[c] = sibling[c]
    BY <2>1, PagerSelectAssumption DEF SelectInv, All
  <2>3. \A i \in 1..Len(children) : children[i] \in Children
    BY ChildPriorities
  <2>4. Sorted(children, sibling')
    BY <2>2, <2>3 DEF SelectInv, Sorted
  <2> QED BY <2>1, <2>2, <2>4 DEF SelectInv
<1>2. ASSUME NEW a \in All, NEW n \in 0..MaxFrames, NEW m \in Active, SetFrames(a, n, m)
      PROVE  SelectInv'
  BY <1>2 DEF SetFrames, SelectInv
<1>3. CASE UNCHANGED selectVars
  BY <1>3 DEF selectVars, SelectInv
<1> QED BY <1>1, <1>2, <1>3, PrepareStep, DeprepareStep, SetSiblingStep DEF SelectNext
LEMMA ReverseIs ==
  ASSUME SelectInv
  PROVE  /\ Reverse(children) \in Seq(Children) /\ Len(Reverse(children)) = Len(children)
         /\ \A i \in 1..Len(children) : Reverse(children)[i] = children[(Len(children) - i) + 1]
<1> DEFINE k == Len(children)
           r == Reverse(children)
<1>0. k \in Nat
  BY ChildListed
<1>1. r = [i \in 1..k |-> children[(k - i) + 1]]
  BY DEF Reverse
<1>2. \A i \in 1..k : (k - i) + 1 \in 1..k
  BY <1>0
<1> HIDE DEF k
<1>3. \A i \in 1..k : children[(k - i) + 1] \in Children
  BY <1>2, ChildPriorities DEF k
<1>4. r \in [1..k -> Children]
  BY <1>1, <1>3
<1> HIDE DEF r
<1>5. r \in Seq(Children) /\ Len(r) = k
  BY <1>0, <1>4
<1> QED BY <1>1, <1>5 DEF r, k

\* pager_collect meets the candidates in the order of their priorities.
LEMMA CandidatesAscend ==
  ASSUME SelectInv
  PROVE  /\ Len(Candidates) \in Nat
         /\ \A i \in 1..Len(Candidates) : PolicyIn(Candidates[i]).priority \in Nat
         /\ \A i, j \in 1..Len(Candidates) :
               i < j => PolicyIn(Candidates[i]).priority <= PolicyIn(Candidates[j]).priority
<1> DEFINE k == Len(children)
           up == Reverse(children)
           above == {i \in 1..Len(up) : sibling[up[i]].priority >= child.priority}
           f == FirstOf(above, Len(up))
           n == f - 1
           C == Candidates
           pr(i) == sibling[up[i]].priority
<1>0. k \in Nat /\ child.priority \in Nat
  BY ChildListed, PriorityNat DEF SelectInv
<1>1. up \in Seq(Children) /\ Len(up) = k /\ \A i \in 1..k : up[i] = children[(k - i) + 1]
  BY ReverseIs
<1>2. C = InsertAfter(up, n, Self)
  BY DEF Candidates
<1> HIDE DEF up
<1>3. \A i \in 1..k : up[i] \in Children /\ up[i] # Self /\ pr(i) \in Nat
  <2>1. \A i \in 1..k : (k - i) + 1 \in 1..k
    BY <1>0
  <2> QED BY <1>1, <2>1, ChildPriorities, PagerSelectAssumption
<1>4. \A i, j \in 1..k : i < j => pr(i) <= pr(j)
  <2> SUFFICES ASSUME NEW i \in 1..k, NEW j \in 1..k, i < j PROVE pr(i) <= pr(j)
    OBVIOUS
  <2>1. (k - i) + 1 \in 1..k /\ (k - j) + 1 \in 1..k /\ (k - j) + 1 < (k - i) + 1
    BY <1>0
  <2>2. sibling[children[(k - j) + 1]].priority >= sibling[children[(k - i) + 1]].priority
    BY <2>1 DEF SelectInv, Sorted
  <2> QED BY <1>1, <1>3, <2>2
<1>5. above = {i \in 1..k : pr(i) >= child.priority}
  BY <1>1
<1>6. f \in 1..(k + 1) /\ (f <= k => f \in above) /\ \A y \in above : f <= y
  <2>1. above \in SUBSET (1..k)
    BY <1>5
  <2> HIDE DEF above
  <2> QED BY <1>0, <1>1, <2>1, FirstIs
<1> HIDE DEF f
<1>7. n \in 0..k /\ n \in Nat
  BY <1>0, <1>6
<1>8. \A i \in 1..n : i \in 1..k /\ pr(i) <= child.priority
  <2> SUFFICES ASSUME NEW i \in 1..n PROVE i \in 1..k /\ pr(i) <= child.priority
    OBVIOUS
  <2>1. i \in 1..k /\ i < f
    BY <1>0, <1>6, <1>7
  <2>2. i \notin above
    BY <1>6, <2>1
  <2> QED BY <1>0, <1>3, <1>5, <2>1, <2>2
<1>9. \A i \in (n + 1)..k : i \in 1..k /\ pr(i) >= child.priority
  <2> SUFFICES ASSUME NEW i \in (n + 1)..k PROVE i \in 1..k /\ pr(i) >= child.priority
    OBVIOUS
  <2>1. i \in 1..k /\ f <= k /\ f \in 1..k /\ f <= i
    BY <1>0, <1>6, <1>7
  <2>2. pr(f) >= child.priority
    BY <1>5, <1>6, <2>1
  <2>3. pr(f) <= pr(i)
    <3>1. CASE f = i
      BY <1>3, <2>1, <3>1
    <3>2. CASE f # i
      BY <1>0, <1>4, <2>1, <3>2
    <3> QED BY <3>1, <3>2
  <2> QED BY <1>0, <1>3, <2>1, <2>2, <2>3
<1>10. /\ Len(C) = k + 1 /\ C[n + 1] = Self
       /\ \A i \in 1..n : C[i] = up[i]
       /\ \A i \in (n + 2)..(k + 1) : C[i] = up[i - 1]
  <2> HIDE DEF pr, C, n, above
  <2>1. up \in Seq(All) /\ Self \in All /\ n \in 0..Len(up)
    BY <1>1, <1>3, <1>7 DEF All
  <2>2. Len(C) = k + 1 /\ C[n + 1] = Self
    BY <1>1, <1>2, <2>1, InsertIs
  <2>3. \A i \in 1..n : C[i] = up[i]
    BY <1>2, <2>1, InsertIs
  <2>4. \A i \in (n + 2)..(k + 1) : C[i] = up[i - 1]
    <3>1. \A i \in (n + 2)..(Len(up) + 1) : C[i] = up[i - 1]
      BY <1>2, <2>1, InsertIs
    <3> QED BY <1>1, <3>1
  <2> QED BY <2>2, <2>3, <2>4
<1> HIDE DEF C, n, above
<1> DEFINE pc(i) == PolicyIn(C[i]).priority
<1>11. \A i \in 1..n : pc(i) = pr(i)
  BY <1>3, <1>8, <1>10 DEF PolicyIn
<1>12. pc(n + 1) = child.priority
  BY <1>10 DEF PolicyIn
<1>13. \A i \in (n + 2)..(k + 1) : i - 1 \in (n + 1)..k /\ pc(i) = pr(i - 1)
  <2>1. \A i \in (n + 2)..(k + 1) : i - 1 \in (n + 1)..k /\ i - 1 \in 1..k
    BY <1>0, <1>7
  <2> QED BY <1>3, <1>10, <2>1 DEF PolicyIn
<1> HIDE DEF pc, pr
<1>14. \A i \in 1..(k + 1) : \/ i \in 1..n \/ i = n + 1 \/ i \in (n + 2)..(k + 1)
  BY <1>0, <1>7
<1>15. \A i \in 1..(k + 1) : pc(i) \in Nat
  BY <1>0, <1>3, <1>8, <1>9, <1>11, <1>12, <1>13, <1>14
<1>16. ASSUME NEW i \in 1..(k + 1), NEW j \in 1..(k + 1), i < j PROVE pc(i) <= pc(j)
  <2>0. i \in Nat /\ j \in Nat
    BY <1>0
  <2>1. CASE i \in 1..n /\ j \in 1..n
    BY <1>4, <1>8, <1>11, <1>16, <2>1
  <2>2. CASE i \in 1..n /\ j = n + 1
    BY <1>8, <1>11, <1>12, <2>2
  <2>3. CASE i \in 1..n /\ j \in (n + 2)..(k + 1)
    <3>1. i \in 1..k /\ j - 1 \in 1..k /\ i < j - 1
      BY <1>0, <1>7, <1>8, <2>0, <2>3
    <3> QED BY <1>4, <1>11, <1>13, <2>3, <3>1
  <2>4. CASE i = n + 1 /\ j \in (n + 2)..(k + 1)
    BY <1>0, <1>3, <1>9, <1>12, <1>13, <2>4
  <2>5. CASE i \in (n + 2)..(k + 1) /\ j \in (n + 2)..(k + 1)
    <3>1. i - 1 \in 1..k /\ j - 1 \in 1..k /\ i - 1 < j - 1
      BY <1>0, <1>7, <1>16, <2>0, <2>5
    <3> QED BY <1>4, <1>13, <2>5, <3>1
  <2>6. ~(i = n + 1 /\ j \in 1..n) /\ ~(i = n + 1 /\ j = n + 1)
        /\ ~(i \in (n + 2)..(k + 1) /\ j \in 1..n) /\ ~(i \in (n + 2)..(k + 1) /\ j = n + 1)
    BY <1>0, <1>7, <1>16, <2>0
  <2> QED BY <1>14, <2>1, <2>2, <2>3, <2>4, <2>5, <2>6
<1> QED BY <1>0, <1>10, <1>15, <1>16 DEF pc, C
\* What the search passes from one candidate to the next.
SearchStates(v, f, p, w, m, d, x) ==
    [victim : {v}, frames : {f}, policy : {p}, weight : {w}, total : {m}, done : {d}, failed : {x}]

SearchShape(s) ==
    s \in SearchStates(s.victim, s.frames, s.policy, s.weight, s.total, s.done, s.failed)

LEMMA SearchFields ==
  ASSUME NEW v, NEW f, NEW p, NEW w, NEW m, NEW d, NEW x, NEW s \in SearchStates(v, f, p, w, m, d, x)
  PROVE  SearchShape(s) /\ s.victim = v /\ s.policy = p /\ s.failed = x
BY DEF SearchShape, SearchStates

LEMMA SearchChanges ==
  ASSUME NEW v, NEW f, NEW p, NEW w, NEW m, NEW d, NEW x, NEW s \in SearchStates(v, f, p, w, m, d, x),
         NEW a, NEW n, NEW y
  PROVE  /\ [s EXCEPT !.weight = y, !.total = n] \in SearchStates(v, f, p, y, n, d, x)
         /\ [s EXCEPT !.victim = a, !.frames = n, !.policy = y] \in SearchStates(a, n, y, w, m, d, x)
         /\ [s EXCEPT !.done = y] \in SearchStates(v, f, p, w, m, y, x)
         /\ [s EXCEPT !.failed = y] \in SearchStates(v, f, p, w, m, d, y)
BY DEF SearchStates

LEMMA ProcessKeeps ==
  ASSUME NEW s, SearchShape(s), s.failed # "order", NEW a, NEW n, NEW goal,
         s.victim = "none" \/ ~(PolicyIn(a).priority < s.policy.priority)
  PROVE  /\ SearchShape(Process(s, a, n, goal))
         /\ Process(s, a, n, goal).failed # "order"
         /\ \/ /\ Process(s, a, n, goal).victim = s.victim
               /\ Process(s, a, n, goal).policy = s.policy
            \/ Process(s, a, n, goal).policy = PolicyIn(a)
<1> DEFINE p == PolicyIn(a)
           v == s.victim
           f == s.frames
           q == s.policy
           w == s.weight
           m == s.total
           d == s.done
           x == s.failed
           ww == s.weight + p.weight
           mm == s.total + n
           t == [s EXCEPT !.weight = @ + p.weight, !.total = @ + n]
           Fine(r) == /\ SearchShape(r) /\ r.failed # "order"
                      /\ \/ r.victim = s.victim /\ r.policy = s.policy
                         \/ r.policy = PolicyIn(a)
<1>0. s \in SearchStates(v, f, q, w, m, d, x)
  BY DEF SearchShape, SearchStates
<1>7. t = [s EXCEPT !.weight = ww, !.total = mm]
  OBVIOUS
<1>8. Switch(t, a, n) = [t EXCEPT !.victim = a, !.frames = n, !.policy = p]
  BY DEF Switch
<1> HIDE DEF ww, mm, t
<1>9. v = s.victim /\ q = s.policy /\ x = s.failed /\ x # "order" /\ p = PolicyIn(a)
  OBVIOUS
<1> HIDE DEF v, f, q, w, m, d, x, p
<1>1. t \in SearchStates(v, f, q, ww, mm, d, x)
  BY <1>0, <1>7, SearchChanges
<1>2. Switch(t, a, n) \in SearchStates(a, n, p, ww, mm, d, x)
  <2>1. t \in SearchStates(v, f, q, ww, mm, d, x) => [t EXCEPT !.victim = a, !.frames = n, !.policy = p]
                                                     \in SearchStates(a, n, p, ww, mm, d, x)
    BY DEF SearchStates
  <2> QED BY <1>1, <1>8, <2>1, Zenon
<1>3. Fine(s) /\ Fine(t) /\ Fine(Switch(t, a, n))
  BY <1>0, <1>1, <1>2, <1>9, SearchFields
<1>4. Fine([s EXCEPT !.done = TRUE])
  <2> DEFINE y == TRUE
  <2>0. [s EXCEPT !.done = TRUE] = [s EXCEPT !.done = y]
    OBVIOUS
  <2> HIDE DEF y
  <2>1. [s EXCEPT !.done = y] \in SearchStates(v, f, q, w, m, y, x)
    BY <1>0, SearchChanges
  <2> QED BY <1>9, <2>0, <2>1, SearchFields
<1>5. Fine([s EXCEPT !.failed = "priority"])
  <2>1. [s EXCEPT !.failed = "priority"] \in SearchStates(v, f, q, w, m, d, "priority")
    BY <1>0, SearchChanges
  <2> QED BY <1>9, <2>1, SearchFields
<1> HIDE DEF Fine
<1>6. Fine(Process(s, a, n, goal))
  BY <1>3, <1>4, <1>5 DEF Process, t, p
<1> QED BY <1>6 DEF Fine

\* The states of a pass over the first n of the candidates of list.
Passing(g, list, factor, goal, n) ==
    g = [j \in 0..n |-> IF j = 0 THEN Nobody
                        ELSE Process(g[j - 1], list[j], Effective(list[j], factor), goal)]

LEMMA PassingMore ==
  ASSUME NEW list, NEW factor, NEW goal, NEW n \in Nat, NEW g, Passing(g, list, factor, goal, n)
  PROVE  \E h : Passing(h, list, factor, goal, n + 1)
<1> DEFINE F(s, j) == Process(s, list[j], Effective(list[j], factor), goal)
           e == F(g[n], n + 1)
           h == [m \in 0..(n + 1) |-> IF m = n + 1 THEN e ELSE g[m]]
           k == [m \in 0..(n + 1) |-> IF m = 0 THEN Nobody ELSE F(h[m - 1], m)]
<1>0. \A m \in 0..n : g[m] = IF m = 0 THEN Nobody ELSE F(g[m - 1], m)
  BY DEF Passing
<1>9. ASSUME NEW x, x = [m \in 0..(n + 1) |-> IF m = 0 THEN Nobody ELSE F(x[m - 1], m)]
      PROVE  Passing(x, list, factor, goal, n + 1)
  BY <1>9 DEF Passing
<1> HIDE DEF F
<1>1. ASSUME NEW m \in 0..(n + 1) PROVE h[m] = k[m]
  <2>1. CASE m = n + 1
    <3>1. m # 0 /\ m - 1 = n /\ n \in 0..(n + 1) /\ n # n + 1
      BY <2>1
    <3>2. h[m - 1] = g[n] /\ h[m] = e
      <4> HIDE DEF e
      <4> QED BY <2>1, <3>1
    <3>3. k[m] = F(h[m - 1], m)
      <4> HIDE DEF h
      <4> QED BY <3>1
    <3> HIDE DEF h, k
    <3> QED BY <2>1, <3>2, <3>3
  <2>2. CASE m # n + 1
    <3>1. m \in 0..n /\ h[m] = g[m]
      BY <2>2
    <3>2. g[m] = IF m = 0 THEN Nobody ELSE F(g[m - 1], m)
      BY <1>0, <3>1
    <3>3. m # 0 => h[m - 1] = g[m - 1]
      <4>1. m # 0 => m - 1 \in 0..(n + 1) /\ m - 1 # n + 1
        BY <3>1
      <4> HIDE DEF e
      <4> QED BY <4>1
    <3>4. k[m] = IF m = 0 THEN Nobody ELSE F(h[m - 1], m)
      <4> HIDE DEF h
      <4> QED OBVIOUS
    <3> HIDE DEF h, k
    <3> QED BY <3>1, <3>2, <3>3, <3>4
  <2> QED BY <2>1, <2>2
<1>2. h = k
  <2>1. DOMAIN h = 0..(n + 1) /\ DOMAIN k = 0..(n + 1) /\ h = [m \in DOMAIN h |-> h[m]]
          /\ k = [m \in DOMAIN k |-> k[m]]
    OBVIOUS
  <2> HIDE DEF h, k
  <2> QED BY <1>1, <2>1
<1>3. Passing(h, list, factor, goal, n + 1)
  <2> HIDE DEF h
  <2> QED BY <1>2, <1>9 DEF k
<1> QED BY <1>3

LEMMA PassingExists ==
  ASSUME NEW list, NEW factor, NEW goal, NEW n \in Nat
  PROVE  \E g : Passing(g, list, factor, goal, n)
<1> DEFINE Bad == {m \in Nat : ~ \E g : Passing(g, list, factor, goal, m)}
<1>1. SUFFICES ASSUME Bad # {} PROVE FALSE
  OBVIOUS
<1>2. PICK x \in Bad : \A y \in Bad : ~(<<y, x>> \in OpToRel(<, Nat))
  BY <1>1, NatLessThanWellFounded, WFMin, Zenon
<1>3. CASE x = 0
  <2>1. Passing([m \in 0..0 |-> Nobody], list, factor, goal, 0)
    <3>1. \A m \in 0..0 : m = 0
      OBVIOUS
    <3> QED BY <3>1 DEF Passing
  <2> QED BY <1>3, <2>1
<1>4. CASE x # 0
  <2>1. x - 1 \in Nat /\ x - 1 < x /\ (x - 1) + 1 = x
    BY <1>4
  <2>2. x - 1 \notin Bad
    <3>1. <<x - 1, x>> \in OpToRel(<, Nat)
      BY <2>1 DEF OpToRel
    <3> QED BY <1>2, <3>1
  <2>3. PICK g : Passing(g, list, factor, goal, x - 1)
    BY <2>1, <2>2
  <2>4. \E h : Passing(h, list, factor, goal, x)
    BY <2>1, <2>3, PassingMore
  <2> QED BY <2>4
<1> QED BY <1>3, <1>4

\* No candidate has a lower priority than the victim so far.
LEMMA PassKeepsOrder ==
  ASSUME SelectInv, NEW factor, NEW goal
  PROVE  Pass(goal, factor).failed # "order"
<1> DEFINE C == Candidates
           N == Len(C)
           g == CHOOSE g : g = [j \in 0..N |-> IF j = 0 THEN Nobody
                        ELSE Process(g[j - 1], C[j], Effective(C[j], factor), goal)]
<1>1. N \in Nat /\ (\A i \in 1..N : PolicyIn(C[i]).priority \in Nat)
      /\ \A i, j \in 1..N : i < j => PolicyIn(C[i]).priority <= PolicyIn(C[j]).priority
  BY CandidatesAscend
<1>2. Pass(goal, factor) = g[N]
  BY DEF Pass
<1> HIDE DEF C, N
<1>3. Passing(g, C, factor, goal, N)
  <2>1. \E h : Passing(h, C, factor, goal, N)
    BY <1>1, PassingExists
  <2> QED BY <2>1 DEF Passing
<1> HIDE DEF g
<1>4. \A j \in 0..N : g[j] = IF j = 0 THEN Nobody
                             ELSE Process(g[j - 1], C[j], Effective(C[j], factor), goal)
  BY <1>3 DEF Passing
<1> DEFINE Reached(j) == /\ SearchShape(g[j]) /\ g[j].failed # "order"
                      /\ \/ g[j].victim = "none"
                         \/ \E i \in 1..j : g[j].policy = PolicyIn(C[i])
           Bad == {j \in 0..N : ~Reached(j)}
<1>5. Reached(0)
  <2>1. g[0] = Nobody
    BY <1>1, <1>4
  <2> QED BY <2>1 DEF Nobody, SearchShape, SearchStates
<1>6. ASSUME NEW j \in 1..N, Reached(j - 1) PROVE Reached(j)
  <2> DEFINE s == g[j - 1]
             n == Effective(C[j], factor)
  <2>0. j \in 0..N /\ j # 0 /\ j - 1 \in 0..N /\ j \in Nat
    BY <1>1
  <2>1. g[j] = Process(s, C[j], n, goal)
    BY <1>4, <2>0
  <2>2. s.victim = "none" \/ ~(PolicyIn(C[j]).priority < s.policy.priority)
    <3>1. CASE s.victim # "none"
      <4>1. PICK i \in 1..(j - 1) : s.policy = PolicyIn(C[i])
        BY <1>6, <3>1
      <4>2. i \in 1..N /\ i < j
        BY <1>1, <2>0
      <4> QED BY <1>1, <4>1, <4>2
    <3> QED BY <3>1
  <2>3. SearchShape(s) /\ s.failed # "order"
    BY <1>6
  <2> HIDE DEF s, n
  <2>4. /\ SearchShape(g[j]) /\ g[j].failed # "order"
        /\ \/ g[j].victim = s.victim /\ g[j].policy = s.policy
           \/ g[j].policy = PolicyIn(C[j])
    BY <2>1, <2>2, <2>3, ProcessKeeps
  <2>5. s.victim = "none" \/ \E i \in 1..(j - 1) : s.policy = PolicyIn(C[i])
    BY <1>6 DEF s
  <2>6. \A i \in 1..(j - 1) : i \in 1..j
    BY <2>0
  <2>7. j \in 1..j
    BY <2>0
  <2> QED BY <2>4, <2>5, <2>6, <2>7
<1> HIDE DEF Reached
<1>7. Bad = {}
  <2> SUFFICES ASSUME Bad # {} PROVE FALSE
    OBVIOUS
  <2>0. Bad \subseteq Nat
    BY <1>1
  <2>1. PICK x \in Bad : \A y \in Bad : ~(<<y, x>> \in OpToRel(<, Nat))
    BY <2>0, NatLessThanWellFounded, WFMin, Zenon
  <2>2. x # 0 /\ x \in 0..N /\ ~Reached(x)
    BY <1>5, <2>1
  <2>3. x \in 1..N /\ x - 1 \in 0..N /\ x - 1 \in Nat /\ x \in Nat /\ x - 1 < x
    BY <1>1, <2>2
  <2>4. <<x - 1, x>> \in OpToRel(<, Nat)
    BY <2>3 DEF OpToRel
  <2>5. Reached(x - 1)
    BY <2>1, <2>3, <2>4
  <2> QED BY <1>6, <2>2, <2>3, <2>5
<1>8. Reached(N)
  BY <1>1, <1>7
<1> QED BY <1>2, <1>8 DEF Reached

\* For any children, priorities, weights and goals, however the policies are
\* changed: the children stay in the order of their priorities, and the
\* assertion of pager_collect, that no candidate has a lower priority than the
\* victim so far, holds.
THEOREM SelectionOrdered == SelectSpec => []ListOrder
<1>1. SelectInv => ListOrder
  <2> SUFFICES ASSUME SelectInv PROVE ListOrder
    OBVIOUS
  <2>1. ChildrenSorted
    BY DEF SelectInv, Sorted, ChildrenSorted
  <2>2. OrderAssertion
    BY PassKeepsOrder DEF OrderAssertion, Select
  <2> QED BY <2>1, <2>2 DEF ListOrder
<1> QED BY <1>1, SelectInitInv, SelectStepInv, PTL DEF SelectSpec

=============================================================================
