-------------------------- MODULE SwapChainHistory --------------------------
(***************************************************************************)
(* SwapChain with what an observer would write down: the frame that each   *)
(* surface holds and the frame that a chain's consumers saw last.  The     *)
(* history variables follow from the step of the chain and never restrict  *)
(* it, but for the bound MaxFrames on the number of frames.                *)
(***************************************************************************)
EXTENDS SwapChain

CONSTANT MaxFrames   \* bound: frames swapped in

ASSUME MaxFramesAssumption == MaxFrames \in Nat

VARIABLES
    frame,       \* surface -> the number of the frame it holds, 0 if none
    frames,      \* the number of frames swapped in
    seen         \* chain -> the frame its consumers took last

hvars == <<vars, frame, frames, seen>>

HInit ==
    /\ Init
    /\ frame = [s \in Surfaces |-> 0]
    /\ frames = 0
    /\ seen = [c \in Chains |-> 0]

Published(c) == pending'[c] # NoSurface /\ pending'[c] # pending[c]

\* A swap completes the frame in the surface that becomes pending; a surface
\* that was destroyed holds none.
RecordFrames ==
    /\ frames' = IF \E c \in Chains : Published(c) THEN frames + 1 ELSE frames
    /\ frames' <= MaxFrames
    /\ frame' = [s \in Surfaces |->
          IF \E c \in Chains : Published(c) /\ pending'[c] = s THEN frames'
          ELSE IF s \in Free' THEN 0 ELSE frame[s]]

RecordSeen ==
    seen' = [c \in Chains |->
        IF back'[c] = "Absent" THEN 0
        ELSE IF held'[c] \ held[c] = {} THEN seen[c]
        ELSE frame[CHOOSE s \in held'[c] \ held[c] : TRUE]]

HNext == Next /\ RecordFrames /\ RecordSeen

HSpec == HInit /\ [][HNext]_hvars

-----------------------------------------------------------------------------
\* A consumer never goes back in time: the surface it takes, be it the front
\* buffer or one off the recycled list, holds a frame at least as new as the one
\* it took before.  The list is pushed, popped at the end by consumers, searched
\* from the front and swap_removed from by the producer.
SeenNeverGoesBack ==
    [][\A c \in Chains : back'[c] # "Absent" => seen'[c] >= seen[c]]_hvars
=============================================================================
