---------------------------- MODULE GlutinDevice ----------------------------
(***************************************************************************)
(* Contexts and surfaces over the glutin crate: glutin/device.rs.  glutin  *)
(* moves a context in and out of the methods that make it current, so a    *)
(* Context keeps it in a cell that a failed call leaves empty, for good;   *)
(* a Context made of a native one shares the cell.  The device remembers   *)
(* which cell it made current last.                                        *)
(*                                                                         *)
(* One thread and one device.  Generic surfaces are those of EglDevice;    *)
(* here they only take part in the switching of contexts.                  *)
(***************************************************************************)
EXTENDS Naturals, FiniteSets

CONSTANTS
    Contexts, Surfaces,
    NoContext, NoSurface,
    Orphan,       \* a window surface that was dropped while it was current
    Faults        \* of "create", "make_current", "make_not_current" and "import", the
                  \* calls that may fail

VARIABLES
    status,       \* context -> "Absent", "Live" or "Destroyed"
    inner,        \* context -> its cell, named for the context it was made for
    held,         \* cell -> it holds a glutin context
    framebuffer,  \* context -> the surface bound to it
    lastCurrent,  \* Device::last_current: a cell
    current,      \* the cell of the context that EGL has current
    drawn,        \* the window surface that EGL has current
    place,        \* surface -> where it is
    widget,       \* surfaces that are a SurfaceObjects::Window
    creator,      \* surface -> its context_id
    result        \* outcome of the last call

eglVars == <<current, drawn>>
surfaceVars == <<place, widget, creator>>
vars == <<status, inner, held, framebuffer, lastCurrent, eglVars, surfaceVars, result>>

TypeOK ==
    /\ status \in [Contexts -> {"Absent", "Live", "Destroyed"}]
    /\ inner \in [Contexts -> Contexts] /\ held \in [Contexts -> BOOLEAN]
    /\ framebuffer \in [Contexts -> Surfaces \cup {NoSurface}]
    /\ lastCurrent \in Contexts \cup {NoContext}
    /\ current \in Contexts \cup {NoContext}
    /\ drawn \in Surfaces \cup {NoSurface, Orphan}
    /\ place \in [Surfaces -> {"absent", "free", "bound", "texture", "destroyed"}]
    /\ widget \subseteq Surfaces
    /\ creator \in [Surfaces -> Contexts \cup {NoContext}]
    /\ result \in {"ok", "err", "panic"}

MayCall(c) == result # "panic" /\ status[c] = "Live"
Holds(c) == held[inner[c]]

-----------------------------------------------------------------------------
(* Making current. *)

\* make_context_current with s bound: a window is drawn to, anything else is not
\* attached.
Switched(c, s) ==
    /\ Holds(c)
    /\ current' = inner[c]
    /\ drawn' = IF s \in widget THEN s ELSE NoSurface
    /\ lastCurrent' = inner[c]
    /\ UNCHANGED held

\* A context that glutin fails to make current is dropped.
SwitchFailed(c) ==
    /\ \/ ~Holds(c) /\ UNCHANGED held
       \/ /\ Holds(c) /\ "make_current" \in Faults
          /\ held' = [held EXCEPT ![inner[c]] = FALSE]
    /\ UNCHANGED <<lastCurrent, eglVars>>

\* A method that does no more than switch, as far as contexts go.
SwitchOnly(c) ==
    \/ Switched(c, framebuffer[c]) /\ result' = "ok"
    \/ SwitchFailed(c) /\ result' = "err"

NothingSwitched == UNCHANGED <<held, lastCurrent, eglVars>>

MakeContextCurrent(c) ==
    /\ MayCall(c)
    /\ SwitchOnly(c)
    /\ UNCHANGED <<status, inner, framebuffer, surfaceVars>>

\* Only what was made current through make_context_current is known to the device.
MakeNoContextCurrent ==
    /\ result # "panic"
    /\ lastCurrent' = NoContext
    /\ \/ /\ lastCurrent # NoContext /\ held[lastCurrent]
          /\ current' = NoContext /\ drawn' = NoSurface
          /\ result' = "ok"
       \/ /\ lastCurrent # NoContext /\ held[lastCurrent]
          /\ "make_not_current" \in Faults
          /\ UNCHANGED eglVars /\ result' = "err"
       \/ /\ lastCurrent # NoContext => ~held[lastCurrent]
          /\ UNCHANGED eglVars /\ result' = "ok"
    /\ UNCHANGED <<status, inner, held, framebuffer, surfaceVars>>

-----------------------------------------------------------------------------
(* Contexts. *)

\* Makes the context current, and does not tell last_current.
CreateContext(c) ==
    /\ result # "panic" /\ status[c] = "Absent"
    /\ \/ /\ status' = [status EXCEPT ![c] = "Live"]
          /\ held' = [held EXCEPT ![c] = TRUE]
          /\ current' = c /\ drawn' = NoSurface
          /\ result' = "ok"
       \/ /\ Faults \cap {"create", "make_current"} # {}
          /\ result' = "err"
          /\ UNCHANGED <<status, held, eglVars>>
    /\ UNCHANGED <<inner, framebuffer, lastCurrent, surfaceVars>>

\* The share_with context must still hold its glutin context.
CreateContextShared(c, share) ==
    /\ MayCall(share)
    /\ \/ Holds(share) /\ CreateContext(c)
       \/ /\ ~Holds(share) /\ status[c] = "Absent" /\ result' = "err"
          /\ UNCHANGED <<status, inner, framebuffer, surfaceVars>> /\ NothingSwitched

CreateContextFromNative(c, native) ==
    /\ result # "panic" /\ status[c] = "Absent"
    /\ \/ /\ lastCurrent = native /\ held[native]
          /\ status' = [status EXCEPT ![c] = "Live"]
          /\ inner' = [inner EXCEPT ![c] = native]
          /\ result' = "ok"
       \/ /\ lastCurrent # native \/ ~held[native]
          /\ result' = "err"
          /\ UNCHANGED <<status, inner>>
    /\ UNCHANGED <<framebuffer, surfaceVars>> /\ NothingSwitched

NativeContextOf(c) ==
    /\ MayCall(c)
    /\ result' = IF Holds(c) THEN "ok" ELSE "panic"
    /\ UNCHANGED <<status, inner, framebuffer, surfaceVars>> /\ NothingSwitched

\* A window surface that is dropped while current lives on in EGL only.
Orphaned(s) == drawn' = IF s # NoSurface /\ drawn = s THEN Orphan ELSE drawn

\* Empties the cell, which others may share.  A bound surface is unbound, and, if it
\* cannot be, dropped; if the context cannot be made current once more to destroy it,
\* the context is not destroyed.
DestroyContext(c) ==
    LET s == framebuffer[c] g == inner[c] IN
    /\ MayCall(c)
    /\ framebuffer' = [framebuffer EXCEPT ![c] = NoSurface]
    /\ place' = [t \in Surfaces |-> IF t = s THEN "absent" ELSE place[t]]
    /\ \/ /\ status' = [status EXCEPT ![c] = "Destroyed"]
          /\ held' = [held EXCEPT ![g] = FALSE]
          /\ \/ /\ s # NoSurface /\ Holds(c)
                /\ current' = g /\ drawn' = NoSurface
                /\ lastCurrent' = NoContext
             \/ /\ s # NoSurface => ~Holds(c) \/ "make_current" \in Faults
                /\ Orphaned(s) /\ UNCHANGED current
                /\ lastCurrent' = IF lastCurrent = g THEN NoContext ELSE lastCurrent
          /\ result' = "ok"
       \/ /\ s \in Surfaces \ widget /\ Holds(c) /\ "make_current" \in Faults
          /\ held' = [held EXCEPT ![g] = FALSE]
          /\ current' = g /\ drawn' = NoSurface
          /\ lastCurrent' = g
          /\ result' = "err"
          /\ UNCHANGED status
    /\ UNCHANGED <<inner, widget, creator>>

-----------------------------------------------------------------------------
(* Surfaces. *)

\* A generic surface is created with the context current.
CreateSurface(c, s) ==
    /\ MayCall(c)
    /\ place[s] = "absent"
    /\ \/ /\ place' = [place EXCEPT ![s] = "free"]
          /\ creator' = [creator EXCEPT ![s] = c]
          /\ \/ widget' = widget \cup {s} /\ NothingSwitched
             \/ widget' = widget \ {s} /\ Switched(c, framebuffer[c])
          /\ result' = "ok"
       \/ /\ \/ "create" \in Faults /\ NothingSwitched
             \/ SwitchFailed(c)
          /\ result' = "err"
          /\ UNCHANGED surfaceVars
    /\ UNCHANGED <<status, inner, framebuffer>>

\* Bound first and then made current, or taken out again.
BindSurface(c, s) ==
    /\ MayCall(c)
    /\ place[s] = "free"
    /\ \/ /\ creator[s] = c /\ framebuffer[c] = NoSurface
          /\ Switched(c, s)
          /\ framebuffer' = [framebuffer EXCEPT ![c] = s]
          /\ place' = [place EXCEPT ![s] = "bound"]
          /\ result' = "ok"
       \/ /\ \/ creator[s] = c /\ framebuffer[c] = NoSurface /\ SwitchFailed(c)
             \/ creator[s] # c /\ NothingSwitched
             \/ framebuffer[c] # NoSurface /\ NothingSwitched
          /\ result' = "err"
          /\ UNCHANGED <<framebuffer, place>>
    /\ UNCHANGED <<status, inner, widget, creator>>

\* Mistake: the surface is handed back without making anything else current.
StillDrawn(c) == Holds(c) /\ NothingSwitched

\* make_context_current after the surface was taken out.
Detached(c) == Switched(c, NoSurface)

\* A surface that was taken out is dropped if the context cannot be made current.
UnbindSurface(c) ==
    /\ MayCall(c)
    /\ \/ /\ framebuffer[c] = NoSurface /\ result' = "ok"
          /\ UNCHANGED <<framebuffer, place>> /\ NothingSwitched
       \/ \E s \in Surfaces :
             /\ framebuffer[c] = s
             /\ framebuffer' = [framebuffer EXCEPT ![c] = NoSurface]
             /\ \/ /\ Detached(c)
                   /\ place' = [place EXCEPT ![s] = "free"]
                   /\ result' = "ok"
                \/ /\ \/ ~Holds(c) /\ UNCHANGED held
                      \/ /\ Holds(c) /\ "make_current" \in Faults
                         /\ held' = [held EXCEPT ![inner[c]] = FALSE]
                   /\ Orphaned(s) /\ UNCHANGED <<current, lastCurrent>>
                   /\ place' = [place EXCEPT ![s] = "absent"]
                   /\ result' = "err"
    /\ UNCHANGED <<status, inner, widget, creator>>

\* A window surface has nothing to destroy: dropping it does.
DestroySurface(c, s) ==
    /\ MayCall(c)
    /\ place[s] = "free"
    /\ \/ creator[s] # c /\ result' = "err" /\ UNCHANGED place /\ NothingSwitched
       \/ /\ creator[s] = c /\ s \in widget
          /\ result' = "ok" /\ UNCHANGED place /\ NothingSwitched
       \/ /\ creator[s] = c /\ s \notin widget
          /\ \/ /\ Switched(c, framebuffer[c])
                /\ place' = [place EXCEPT ![s] = "destroyed"]
                /\ result' = "ok"
             \/ SwitchFailed(c) /\ UNCHANGED place /\ result' = "err"
    /\ UNCHANGED <<status, inner, framebuffer, widget, creator>>

\* The application drops a surface; no one checks that it was destroyed.
DropSurface(s) ==
    /\ result # "panic"
    /\ place[s] \in {"free", "destroyed"}
    /\ place' = [place EXCEPT ![s] = "absent"]
    /\ Orphaned(s)
    /\ UNCHANGED <<status, inner, held, framebuffer, lastCurrent, current, widget,
                   creator, result>>

\* The texture may not be made from the image.
CreateSurfaceTexture(c, s) ==
    /\ MayCall(c)
    /\ place[s] = "free"
    /\ \/ /\ s \notin widget
          /\ Switched(c, framebuffer[c])
          /\ place' = [place EXCEPT ![s] = "texture"]
          /\ result' = "ok"
       \/ /\ \/ s \in widget /\ NothingSwitched
             \/ s \notin widget /\ SwitchFailed(c)
             \/ s \notin widget /\ "import" \in Faults /\ Switched(c, framebuffer[c])
          /\ UNCHANGED place
          /\ result' = "err"
    /\ UNCHANGED <<status, inner, framebuffer, widget, creator>>

DestroySurfaceTexture(c, s) ==
    /\ MayCall(c)
    /\ place[s] = "texture"
    /\ \/ /\ Switched(c, framebuffer[c])
          /\ place' = [place EXCEPT ![s] = "free"]
          /\ result' = "ok"
       \/ SwitchFailed(c) /\ UNCHANGED place /\ result' = "err"
    /\ UNCHANGED <<status, inner, framebuffer, widget, creator>>

\* EGL swaps the buffers of the surface that is current; of another it may refuse.
SwapBuffers(s) ==
    \/ result' = "ok"
    \/ drawn' # s /\ result' = "err"

PresentBoundSurface(c) ==
    /\ MayCall(c)
    /\ NothingSwitched
    /\ \/ framebuffer[c] \in widget /\ Holds(c) /\ SwapBuffers(framebuffer[c])
       \/ /\ framebuffer[c] \notin widget \/ ~Holds(c)
          /\ result' = "err"
    /\ UNCHANGED <<status, inner, framebuffer, surfaceVars>>

\* Makes the context current with the surface bound to it, not with s.
PresentSurface(c, s) ==
    /\ MayCall(c)
    /\ place[s] = "free"
    /\ \/ s \notin widget /\ result' = "err" /\ NothingSwitched
       \/ s \in widget /\ Switched(c, framebuffer[c]) /\ SwapBuffers(s)
       \/ s \in widget /\ SwitchFailed(c) /\ result' = "err"
    /\ UNCHANGED <<status, inner, framebuffer, surfaceVars>>

ResizeBoundSurface(c) ==
    /\ MayCall(c)
    /\ SwitchOnly(c)
    /\ UNCHANGED <<status, inner, framebuffer, surfaceVars>>

\* Of a generic surface only the recorded size changes.
ResizeSurface(c, s) ==
    /\ MayCall(c)
    /\ place[s] = "free"
    /\ \/ s \in widget /\ SwitchOnly(c)
       \/ s \notin widget /\ result' = "ok" /\ NothingSwitched
    /\ UNCHANGED <<status, inner, framebuffer, surfaceVars>>

-----------------------------------------------------------------------------
Init ==
    /\ status = [c \in Contexts |-> "Absent"]
    /\ inner = [c \in Contexts |-> c]
    /\ held = [c \in Contexts |-> FALSE]
    /\ framebuffer = [c \in Contexts |-> NoSurface]
    /\ lastCurrent = NoContext
    /\ current = NoContext /\ drawn = NoSurface
    /\ place = [s \in Surfaces |-> "absent"]
    /\ widget = {}
    /\ creator = [s \in Surfaces |-> NoContext]
    /\ result = "ok"

OnContext(c) ==
    \/ MakeContextCurrent(c) \/ CreateContext(c) \/ NativeContextOf(c)
    \/ \E g \in Contexts : CreateContextShared(c, g) \/ CreateContextFromNative(c, g)
    \/ DestroyContext(c) \/ UnbindSurface(c)
    \/ PresentBoundSurface(c) \/ ResizeBoundSurface(c)

OnSurface(c, s) ==
    \/ CreateSurface(c, s) \/ BindSurface(c, s) \/ DestroySurface(c, s)
    \/ CreateSurfaceTexture(c, s) \/ DestroySurfaceTexture(c, s)
    \/ PresentSurface(c, s) \/ ResizeSurface(c, s)

Next ==
    \/ MakeNoContextCurrent
    \/ \E s \in Surfaces : DropSurface(s)
    \/ \E c \in Contexts : OnContext(c)
    \/ \E c \in Contexts, s \in Surfaces : OnSurface(c, s)

Spec == Init /\ [][Next]_vars

-----------------------------------------------------------------------------
(* Properties. *)

\* A context that can still be used never draws to a window that is not bound to it:
\* not after the surface was unbound, dropped, or lost in a call that failed, nor
\* through a second Context that shares the cell.
DrawsToBoundWindow ==
    drawn # NoSurface /\ held[current] =>
        \E c \in Contexts :
            status[c] = "Live" /\ inner[c] = current /\ framebuffer[c] = drawn

=============================================================================
