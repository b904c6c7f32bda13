------------------------- MODULE SwapChainExchange -------------------------
(***************************************************************************)
(* SwapChain implements SurfaceExchange: where a surface is follows from   *)
(* the slots, lists and hands that hold it.                                *)
(***************************************************************************)
EXTENDS SwapChain

\* Slots of the chain that bring a surface to the consumers, and their hands.
PlacesOf(s) ==
    (IF \/ s = bound
        \/ \E c \in Chains : s \in {detached[c], texture[c]}
     THEN {[at |-> "drawn", of |-> NoSurface]} ELSE {})
      \cup {[at |-> "front", of |-> c] : c \in {d \in Chains : pending[d] = s}}
      \cup {[at |-> "pool", of |-> c] : c \in {d \in Chains : s \in Range(recycled[d])}}
      \cup {[at |-> "shown", of |-> c] : c \in {d \in Chains : s \in held[d]}}

\* A surface in two places, or destroyed in some place, is nowhere in the abstract.
PlaceOf(s) ==
    CASE PlacesOf(s) = {} /\ s \in alive -> [at |-> "lost", of |-> NoSurface]
      [] PlacesOf(s) = {} /\ s \notin alive -> [at |-> "gone", of |-> NoSurface]
      [] s \in alive /\ \E p \in PlacesOf(s) : PlacesOf(s) = {p} ->
             CHOOSE p \in PlacesOf(s) : TRUE
      [] OTHER -> [at |-> "confused", of |-> NoSurface]

Abstract == INSTANCE SurfaceExchange WITH
    NoChain <- NoSurface,
    open <- {c \in Chains : back[c] # "Absent"},
    place <- [s \in Surfaces |-> PlaceOf(s)]

\* Whatever fails and whatever calls are made, surfaces move as SurfaceExchange says.
ImplementsExchange == Abstract!Spec
=============================================================================
