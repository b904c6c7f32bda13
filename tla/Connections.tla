---------------------------- MODULE Connections ----------------------------
(***************************************************************************)
(* Connections to display servers on free Unix (multi/connection.rs over   *)
(* the connections of wayland/, x11/ and mesa_surfaceless/).  A Connection *)
(* and the Devices made of it hold one Arc to a NativeConnectionWrapper,   *)
(* which may own the native display, the EGL display, both or neither, and *)
(* disposes of what it owns when the last of them is dropped.              *)
(*                                                                         *)
(* EGL has one display for a native display, initialised or not however    *)
(* often it was asked for; the three back ends are tried in turn.  That    *)
(* eglInitialize succeeds is asserted by the code and taken for granted.   *)
(***************************************************************************)
EXTENDS Naturals, FiniteSets

CONSTANTS
    WaylandDisplays, X11Displays,   \* native displays, each opened once
    Surfaceless,   \* Mesa's default display, which is never opened
    Wrappers, NoWrapper,
    NoDisplay,
    MaxHandles,    \* bounds the connections, and the devices, of a wrapper
    Faults         \* of "connect" and "get_display"

\* The kinds of displays are told apart, and what is none of them is no display.
ConnectionsAssumption ==
    /\ NoDisplay \notin WaylandDisplays \cup X11Displays \cup {Surfaceless}
    /\ WaylandDisplays \cap X11Displays = {}
    /\ Surfaceless \notin WaylandDisplays \cup X11Displays
    /\ NoWrapper \notin Wrappers
    /\ MaxHandles \in Nat \ {0}

VARIABLES
    native,      \* display -> unopened, open or closed
    opener,      \* display -> surfman or the application
    egl,         \* displays whose EGL display is initialised
    shared,      \* X11 displays that were wrapped again while in use (history)
    wrapper,     \* wrapper -> [display, ownsEgl, ownsNative, lender]
    connections, \* wrapper -> Connections that hold it
    devices,     \* wrapper -> Devices that hold it
    result

displayVars == <<native, opener, egl, shared>>
handleVars == <<wrapper, connections, devices>>
vars == <<displayVars, handleVars, result>>

Displays == WaylandDisplays \cup X11Displays \cup {Surfaceless}
None == [display |-> NoDisplay, ownsEgl |-> FALSE, ownsNative |-> FALSE, lender |-> NoWrapper]

Live(w) == connections[w] + devices[w] > 0
Free(w) == wrapper[w] = None
Display(w) == wrapper[w].display

BackendOf(d) == CASE d \in WaylandDisplays -> "wayland"
                  [] d \in X11Displays -> "x11"
                  [] d = Surfaceless -> "surfaceless"

\* The wrapper in an Arc of its own, held by one Connection.
Wraps(w, d, ownsEgl, ownsNative, lender) ==
    /\ wrapper' = [wrapper EXCEPT ![w] =
          [display |-> d, ownsEgl |-> ownsEgl, ownsNative |-> ownsNative, lender |-> lender]]
    /\ connections' = [connections EXCEPT ![w] = 1]
    /\ result' = "ok"
    /\ UNCHANGED devices

Fails == result' = "err" /\ UNCHANGED handleVars

Unopened(d) == native[d] = "unopened"

Opens(ds, who) ==
    /\ native' = [d \in Displays |-> IF d \in ds THEN "open" ELSE native[d]]
    /\ opener' = [d \in Displays |-> IF d \in ds THEN who ELSE opener[d]]

-----------------------------------------------------------------------------
(* The application opens and closes displays of its own. *)

AppOpens(d) ==
    /\ d # Surfaceless /\ Unopened(d)
    /\ Opens({d}, "application")
    /\ UNCHANGED <<egl, shared, handleVars, result>>

\* Nothing retains a display, so that its owner must wait for the connections.
AppCloses(d) ==
    /\ d # Surfaceless
    /\ native[d] = "open" /\ opener[d] = "application"
    /\ \A w \in Wrappers : Live(w) => Display(w) # d
    /\ native' = [native EXCEPT ![d] = "closed"]
    /\ UNCHANGED <<opener, egl, shared, handleVars, result>>

-----------------------------------------------------------------------------
(* Connections. *)

\* The ways in which Wayland refuses: there is no server, or EGL does not know the
\* display, which then stays open.
WaylandLeaves ==
    {{}} \cup IF "get_display" \in Faults
              THEN {{d} : d \in {e \in WaylandDisplays : Unopened(e)}} ELSE {}

NewWayland(w) ==
    \E d \in WaylandDisplays :
        /\ Unopened(d)
        /\ Opens({d}, "surfman")
        /\ egl' = egl \cup {d}
        /\ Wraps(w, d, FALSE, TRUE, NoWrapper)

NewX11(w, left) ==
    \E d \in X11Displays :
        /\ Unopened(d)
        /\ Opens(left \cup {d}, "surfman")
        /\ egl' = egl \cup {d}
        /\ Wraps(w, d, TRUE, TRUE, NoWrapper)

NewSurfaceless(w, left) ==
    /\ Opens(left, "surfman")
    /\ \/ egl' = egl \cup {Surfaceless} /\ Wraps(w, Surfaceless, FALSE, FALSE, NoWrapper)
       \/ "connect" \in Faults /\ Fails /\ UNCHANGED egl

\* Wayland, else X11, else Mesa without a display.
New(w) ==
    /\ Free(w)
    /\ \/ NewWayland(w)
       \/ \E left \in WaylandLeaves : NewX11(w, left) \/ NewSurfaceless(w, left)
    /\ UNCHANGED shared

InUse(d) == \E w \in Wrappers : Display(w) = d

\* from_display_handle of a display of the application's.  With X11 the connection owns
\* the EGL display as if it had made it, though EGL may have given it that of another.
FromDisplayHandle(w, d) ==
    /\ Free(w)
    /\ native[d] = "open" /\ opener[d] = "application"
    /\ \/ /\ d \in X11Displays
          /\ egl' = egl \cup {d}
          /\ shared' = IF InUse(d) THEN shared \cup {d} ELSE shared \ {d}
          /\ Wraps(w, d, TRUE, FALSE, NoWrapper)
       \/ /\ d \in WaylandDisplays
          /\ \/ egl' = egl \cup {d} /\ Wraps(w, d, FALSE, FALSE, NoWrapper)
             \/ "get_display" \in Faults /\ Fails /\ UNCHANGED egl
          /\ UNCHANGED shared
    /\ UNCHANGED <<native, opener>>

\* Mesa's native connection is the Arc itself.
FromNativeConnection(w, v) ==
    /\ connections[v] > 0
    /\ IF Display(v) = Surfaceless
       THEN /\ connections[v] < MaxHandles
            /\ connections' = [connections EXCEPT ![v] = @ + 1]
            /\ result' = "ok"
            /\ UNCHANGED <<wrapper, devices>>
       ELSE /\ Free(w)
            /\ Wraps(w, Display(v), FALSE, FALSE, v)
    /\ UNCHANGED displayVars

Clone(w) ==
    /\ connections[w] \in 1 .. MaxHandles - 1
    /\ connections' = [connections EXCEPT ![w] = @ + 1]
    /\ result' = "ok"
    /\ UNCHANGED <<displayVars, wrapper, devices>>

-----------------------------------------------------------------------------
(* Devices. *)

\* An adapter, or a native device, of another back end is refused.
CreateDevice(w, backend) ==
    /\ connections[w] > 0
    /\ IF backend = BackendOf(Display(w))
       THEN /\ devices[w] < MaxHandles
            /\ devices' = [devices EXCEPT ![w] = @ + 1]
            /\ result' = "ok"
            /\ UNCHANGED <<wrapper, connections>>
       ELSE Fails
    /\ UNCHANGED displayVars

DeviceConnection(w) ==
    /\ devices[w] > 0 /\ connections[w] < MaxHandles
    /\ connections' = [connections EXCEPT ![w] = @ + 1]
    /\ result' = "ok"
    /\ UNCHANGED <<displayVars, wrapper, devices>>

-----------------------------------------------------------------------------
(* Dropping. *)

\* Mistake: the wrapper disposes of its displays with the first handle that goes.
DisposesEarly(w) ==
    /\ native' = IF wrapper[w].ownsNative
                 THEN [native EXCEPT ![Display(w)] = "closed"] ELSE native
    /\ egl' = IF wrapper[w].ownsEgl THEN egl \ {Display(w)} ELSE egl
    /\ wrapper' = IF connections'[w] + devices'[w] = 0
                  THEN [wrapper EXCEPT ![w] = None] ELSE wrapper

\* NativeConnectionWrapper::drop, once the Arc is released for the last time.
Disposes(w) ==
    IF connections'[w] + devices'[w] > 0 THEN UNCHANGED <<native, egl, wrapper>>
    ELSE /\ native' = IF wrapper[w].ownsNative
                      THEN [native EXCEPT ![Display(w)] = "closed"] ELSE native
         /\ egl' = IF wrapper[w].ownsEgl THEN egl \ {Display(w)} ELSE egl
         /\ wrapper' = [wrapper EXCEPT ![w] = None]

\* Who takes a native connection keeps the connection that lent it.
MayDrop(w) ==
    connections[w] + devices[w] = 1 => \A v \in Wrappers : wrapper[v].lender # w

DropConnection(w) ==
    /\ connections[w] > 0 /\ MayDrop(w)
    /\ connections' = [connections EXCEPT ![w] = @ - 1]
    /\ UNCHANGED devices
    /\ Disposes(w)
    /\ result' = "ok"
    /\ UNCHANGED <<opener, shared>>

DropDevice(w) ==
    /\ devices[w] > 0 /\ MayDrop(w)
    /\ devices' = [devices EXCEPT ![w] = @ - 1]
    /\ UNCHANGED connections
    /\ Disposes(w)
    /\ result' = "ok"
    /\ UNCHANGED <<opener, shared>>

-----------------------------------------------------------------------------
Init ==
    /\ native = [d \in Displays |-> IF d = Surfaceless THEN "open" ELSE "unopened"]
    /\ opener = [d \in Displays |-> "application"]
    /\ egl = {} /\ shared = {}
    /\ wrapper = [w \in Wrappers |-> None]
    /\ connections = [w \in Wrappers |-> 0]
    /\ devices = [w \in Wrappers |-> 0]
    /\ result = "ok"

Next ==
    \/ \E d \in Displays : AppOpens(d) \/ AppCloses(d)
    \/ \E w \in Wrappers :
          \/ New(w) \/ Clone(w) \/ DeviceConnection(w)
          \/ DropConnection(w) \/ DropDevice(w)
          \/ \E d \in Displays : FromDisplayHandle(w, d)
          \/ \E v \in Wrappers : FromNativeConnection(w, v)
          \/ \E b \in {"wayland", "x11", "surfaceless"} : CreateDevice(w, b)

Spec == Init /\ [][Next]_vars

-----------------------------------------------------------------------------
(* Properties. *)

TypeOK ==
    /\ native \in [Displays -> {"unopened", "open", "closed"}]
    /\ opener \in [Displays -> {"surfman", "application"}]
    /\ egl \subseteq Displays /\ shared \subseteq X11Displays
    /\ wrapper \in [Wrappers -> [display : Displays \cup {NoDisplay},
                                 ownsEgl : BOOLEAN, ownsNative : BOOLEAN,
                                 lender : Wrappers \cup {NoWrapper}]]
    /\ connections \in [Wrappers -> 0 .. MaxHandles]
    /\ devices \in [Wrappers -> 0 .. MaxHandles]
    /\ result \in {"ok", "err"}

\* The native display of a connection or device that is alive stays open and its EGL
\* display initialised, whatever is dropped elsewhere and in whatever order (an X11 display
\* that was wrapped twice at a time stays open only); and an X11 display that surfman
\* opened is closed once nothing is left of its connection, its EGL display with it.
DisplaysFollowUse ==
    \A d \in Displays :
        IF \E w \in Wrappers : Live(w) /\ Display(w) = d
        THEN native[d] = "open" /\ d \in egl \cup shared
        ELSE d \in X11Displays =>
                 d \notin egl /\ (native[d] = "open" => opener[d] = "application")
=============================================================================
