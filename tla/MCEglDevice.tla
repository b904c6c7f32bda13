---------------------------- MODULE MCEglDevice ----------------------------
(* EglDevice and ContextDescriptors for TLC, of which only one runs.  The  *)
(* surfaces are interchangeable, and so are the contexts of descriptors.   *)
EXTENDS EglDevice, TLC

CONSTANTS
    DescriptorPlatforms, DescriptorContexts, DescriptorSurfaces, None,
    Flags, Versions, DriverVersions, Configs

VARIABLES part, devicePlatform, descriptor, wanted, made, currentOne, has, stopped

descriptorVars ==
    <<devicePlatform, descriptor, wanted, made, currentOne, has, stopped>>

Descriptors == INSTANCE ContextDescriptors
    WITH Platforms <- DescriptorPlatforms, platform <- devicePlatform,
         Contexts <- DescriptorContexts, Surfaces <- DescriptorSurfaces,
         context <- made, current <- currentOne, surface <- has

ASSUME DescriptorsAssumption == Descriptors!DescriptorsAssumption

MCInit == part \in {"device", "descriptors"} /\ Init /\ Descriptors!Init

MCNext ==
    \/ part = "device" /\ Next /\ UNCHANGED <<part, descriptorVars>>
    \/ part = "descriptors" /\ Descriptors!Next /\ UNCHANGED <<part, vars>>

MCSpec == MCInit /\ [][MCNext]_<<part, vars, descriptorVars>>

\* Of descriptors: what was asked of them is what contexts and surfaces have.
AskedIsGiven == part = "descriptors" => Descriptors!AskedIsGiven

Symmetry == Permutations(Surfaces) \cup Permutations(DescriptorContexts)
=============================================================================
