------------------------------- MODULE MCPager -------------------------------
(***************************************************************************)
(* The two halves of collecting memory for TLC: which activity has to give *)
(* it up (PagerSelect), and what becomes of the frame of one that is asked *)
(* to (Frames), below a root and a middle activity.  A behaviour is about  *)
(* one of the two, and the other stays as it starts.                       *)
(***************************************************************************)
EXTENDS Frames, PagerSelect

CONSTANTS root, middle, leaf

Three == (root :> None) @@ (middle :> root) @@ (leaf :> middle)

MixedPolicies == [discardable : BOOLEAN, priority : {"lru", "high"}]

VARIABLE part  \* "select" or "frames"

mcVars == <<vars, selectVars, part>>

MCInit == Init /\ SelectInit /\ part \in {"select", "frames"}

MCNext ==
    \/ part = "frames" /\ Next /\ UNCHANGED <<selectVars, part>>
    \/ part = "select" /\ SelectNext /\ UNCHANGED <<vars, part>>

MCSpec == MCInit /\ [][MCNext]_mcVars

\* The children are alike.
Symmetry == Permutations(Children)
=============================================================================
