-------------------------- MODULE MCGlutinHardware --------------------------
(* GlutinDevice and HardwareBufferDevice for TLC: the device is one of the *)
(* two, and the variables that are only of the other keep their values.    *)
EXTENDS HardwareBufferDevice, TLC

CONSTANTS Orphan, GlutinFaults

VARIABLES backend, inner, held, lastCurrent

glutinOnly == <<inner, held, lastCurrent>>
hardwareOnly == <<egl, external, glVars>>

Glutin == INSTANCE GlutinDevice WITH Faults <- GlutinFaults

MCInit ==
    /\ inner = [c \in Contexts |-> c]
    /\ held = [c \in Contexts |-> FALSE]
    /\ lastCurrent = NoContext
    /\ \/ backend = "hardware" /\ Init
       \/ /\ backend = "glutin" /\ Glutin!Init
          /\ egl = [c \in Contexts |-> c]
          /\ external = [c \in Contexts |-> NoDrawable]
          /\ object = [c \in Contexts |-> [n \in Names |-> NoObject]]
          /\ name = [s \in Surfaces |-> NoName]
          /\ reader = [s \in Surfaces |-> NoReader]

MCNext ==
    /\ UNCHANGED backend
    /\ \/ backend = "hardware" /\ Next /\ UNCHANGED glutinOnly
       \/ backend = "glutin" /\ Glutin!Next /\ UNCHANGED hardwareOnly

MCSpec == MCInit /\ [][MCNext]_<<vars, glutinOnly, backend>>

\* Of glutin: a context that can still be used draws to no window that is not bound.
DrawsToBoundWindow == backend = "glutin" => Glutin!DrawsToBoundWindow

\* Of hardware buffers: no texture is deleted while a surface needs it.
OwnTextures == backend = "hardware" => TexturesLive

\* Of hardware buffers: what is drawn to belongs to what is current.
OwnDrawables == backend = "hardware" => DrawnBelongsToCurrent

Symmetry == Permutations(Contexts) \cup Permutations(Surfaces) \cup Permutations(Names)
=============================================================================
