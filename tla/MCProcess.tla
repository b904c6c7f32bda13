----------------------------- MODULE MCProcess -----------------------------
(* HiddenWindows and Connections for TLC: the process runs on Windows or on *)
(* free Unix, and the variables of the other stay as they are.              *)
EXTENDS HiddenWindows, Naturals

CONSTANTS
    WaylandDisplays, X11Displays, Surfaceless, Wrappers, NoWrapper, NoDisplay,
    MaxHandles, ConnectionFaults

VARIABLES os, native, opener, egl, shared, wrapper, connections, devices, result

unixVars == <<native, opener, egl, shared, wrapper, connections, devices, result>>

Unix == INSTANCE Connections WITH Faults <- ConnectionFaults

ASSUME DisplaysAssumption == Unix!ConnectionsAssumption

MCInit == os \in {"windows", "unix"} /\ Init /\ Unix!Init

MCNext ==
    \/ os = "windows" /\ Next /\ UNCHANGED <<os, unixVars>>
    \/ os = "unix" /\ Unix!Next /\ UNCHANGED <<os, vars>>

mcVars == <<os, vars, unixVars>>
MCSpec == MCInit /\ [][MCNext]_mcVars /\ Fairness

\* On free Unix: a connection's displays are open while it is in use, and no longer.
DisplaysFollowUse == os = "unix" => Unix!DisplaysFollowUse
=============================================================================
