----------------------------- MODULE MCWindows -----------------------------
(* AngleDevice and WglDevice for TLC: the back end is one of the two, and *)
(* the variables that are only of the other keep their values.            *)
EXTENDS AngleDevice, TLC

CONSTANTS Names, NoName, WglFaults

VARIABLES backend, pair, glrc, textures, fbo, widget, name, locked, reader

angleOnly == <<current, thread, id, nextId, sync, dead, mutex, stopped>>
wglOnly == <<pair, glrc, textures, fbo, widget, name, locked, reader>>

Wgl == INSTANCE WglDevice WITH Faults <- WglFaults, current <- pair

ASSUME WglAssumption ==
    /\ WglFaults \subseteq Wgl!SystemCalls
    /\ Contexts \cap Surfaces = {} /\ External \notin Contexts /\ NoName \notin Names

MCInit ==
    /\ glrc = [c \in Contexts |-> c]
    /\ textures = [c \in Contexts |-> {}]
    /\ fbo = [c \in Contexts |-> NoSurface]
    /\ widget = {}
    /\ name = [s \in Surfaces |-> NoName]
    /\ locked = {}
    /\ reader = [s \in Surfaces |-> Wgl!NoReader]
    /\ \/ backend = "angle" /\ Init /\ pair = Wgl!NoneCurrent
       \/ /\ backend = "wgl" /\ Wgl!Init
          /\ current = [t \in Threads |-> NoneCurrent]
          /\ thread = [c \in Contexts |-> CHOOSE t \in Threads : TRUE]
          /\ id = [c \in Contexts |-> 0]
          /\ nextId = 0
          /\ sync = [s \in Surfaces |-> "None"]
          /\ dead = {}
          /\ mutex = [s \in Surfaces |-> "nobody"]
          /\ stopped = [t \in Threads |-> "no"]

AngleNext == backend = "angle" /\ Next /\ UNCHANGED <<wglOnly, backend>>
WglNext == backend = "wgl" /\ Wgl!Next /\ UNCHANGED <<angleOnly, backend>>

mcVars == <<vars, wglOnly, backend>>
MCSpec == MCInit /\ [][AngleNext \/ WglNext]_mcVars

\* Of WGL: interop objects are locked exactly while their surface is bound.
LockedWhileBound == backend = "wgl" => Wgl!LockedWhileBound

\* Of WGL: no surface loses its texture name to another.
NamesOwned == backend = "wgl" => Wgl!NamesOwned

\* Of WGL: what is drawn to a bound window reaches it.
CurrentDrawsToWidget == backend = "wgl" => Wgl!CurrentDrawsToWidget

\* Of ANGLE: contexts that exist and were made in the same way have different ids.
KindsKeepIds == backend = "angle" => SameKindIdsDiffer

\* Of ANGLE: a keyed mutex is held while its surface is in use, and only then.
MutexHeldInUse == backend = "angle" => MutexFollowsUse

\* Of ANGLE: no thread has a destroyed surface current, unless contexts shared an id.
NoDeadSurfaceCurrent == backend = "angle" => CurrentSurfaceLives

Symmetry == Permutations(Surfaces) \cup Permutations(Names)
=============================================================================
