------------------------ MODULE HardwareBufferDevice ------------------------
(***************************************************************************)
(* Contexts and surfaces on Android and OpenHarmony, over EGL:             *)
(* hardware_buffer/device.rs and surface/.  A generic surface is a         *)
(* hardware buffer behind an EGL image, with a texture and a framebuffer   *)
(* object in its context; a SurfaceTexture has an image of its own.        *)
(* Unlike EglDevice's, binding a surface switches nothing, and a guard     *)
(* stands only around the methods that need the context.                   *)
(*                                                                         *)
(* One thread; GL names are those of the textures.  Framebuffer bindings   *)
(* and sizes are left out.  A surface or context is used once.             *)
(***************************************************************************)
EXTENDS Naturals, FiniteSets

CONSTANTS
    Contexts, Surfaces,
    Names,         \* GL texture names; each EGL context has its own
    NoContext, NoSurface, NoName, NoObject,
    External,      \* the framebuffer of a wrapped context
    Faults,        \* calls that may fail
    Misuse         \* calls the API accepts although they go wrong

\* "elsewhere": a generic surface is destroyed while another context is current;
\* "outlived": a native context is wrapped and then destroyed by its owner, or the
\* window it drew to is.
Misuses == {"elsewhere", "outlived"}

ASSUME FaultsAssumption ==
    Faults \subseteq {"create", "pbuffer", "make_current", "allocate", "window"}
ASSUME MisuseAssumption == Misuse \subseteq Misuses
ASSUME DistinctAssumption ==
    /\ NoContext \notin Contexts
    /\ {NoSurface, External} \cap Surfaces = {} /\ NoSurface # External
    /\ NoName \notin Names

VARIABLES
    status,       \* context -> "Absent", "Live" or "Destroyed"
    egl,          \* context -> its EGLContext, named for the context it was made for
    framebuffer,  \* context -> the surface bound to it, or External
    external,     \* wrapped context -> the EGLSurface its native context drew to
    current,      \* the EGLContext that is current
    drawn,        \* the EGLSurface that is current
    place,        \* surface -> where it is
    widget,       \* surfaces that are a SurfaceObjects::Window
    creator,      \* surface -> its context_id
    object,       \* EGLContext -> texture name -> what it is bound to
    name,         \* surface -> its texture_object
    reader,       \* surface -> [egl, name] of its SurfaceTexture
    result        \* outcome of the last call

contextVars == <<status, egl, framebuffer, external>>
eglVars == <<current, drawn>>
surfaceVars == <<place, widget, creator>>
glVars == <<object, name, reader>>
vars == <<contextVars, eglVars, surfaceVars, glVars, result>>

\* EGLSurfaces; the pbuffer of a context is made with it.
NoDrawable == <<"none", NoSurface>>
Pbuffer(c) == <<"pbuffer", c>>
Window(s) == <<"window", s>>
Drawables == {NoDrawable} \cup ({"pbuffer"} \X Contexts) \cup ({"window"} \X Surfaces)

Image(s) == <<"image", s>>
LocalImage(s) == <<"local", s>>
Objects == {"image", "local"} \X Surfaces
ASSUME ObjectAssumption == NoObject \notin Objects
NoReader == [egl |-> NoContext, name |-> NoName]

Alive(s) == place[s] \in {"free", "bound", "texture"}

TypeOK ==
    /\ status \in [Contexts -> {"Absent", "Live", "Destroyed"}]
    /\ egl \in [Contexts -> Contexts]
    /\ framebuffer \in [Contexts -> Surfaces \cup {NoSurface, External}]
    /\ external \in [Contexts -> Drawables]
    /\ current \in Contexts \cup {NoContext} /\ drawn \in Drawables
    /\ place \in [Surfaces -> {"absent", "free", "bound", "texture", "destroyed"}]
    /\ widget \subseteq Surfaces
    /\ creator \in [Surfaces -> Contexts \cup {NoContext}]
    /\ object \in [Contexts -> [Names -> Objects \cup {NoObject}]]
    /\ name \in [Surfaces -> Names \cup {NoName}]
    /\ reader \in [Surfaces -> [egl : Contexts, name : Names] \cup {NoReader}]
    /\ result \in {"ok", "err", "panic"}

Runs == result # "panic"
MayCall(c) == status[c] = "Live" /\ Runs

-----------------------------------------------------------------------------
(* Making current. *)

\* What make_context_current draws to.
DrawableOf(c) ==
    IF framebuffer[c] = External THEN external[c]
    ELSE IF framebuffer[c] \in widget THEN Window(framebuffer[c])
    ELSE Pbuffer(c)

\* EGL knows the surface, and the context.
Valid(g, d) ==
    /\ status[g] = "Live"
    /\ d \in {Pbuffer(c) : c \in {b \in Contexts : status[b] = "Live"}}
               \cup {Window(s) : s \in {t \in widget : Alive(t)}}

CanSwitch(c) == Valid(egl[c], DrawableOf(c))
MayFailSwitch(c) == ~CanSwitch(c) \/ "make_current" \in Faults

\* Mistake: the guard brings the context back and not its surfaces.
SurfacesLeft(c) == current' = current /\ drawn' = DrawableOf(c)

\* CurrentContextGuard::drop after a switch to c.  It has nothing to bring back if
\* nothing was current, or if that is gone.
Restored(c) ==
    IF Valid(current, drawn) THEN UNCHANGED eglVars
    ELSE current' = egl[c] /\ drawn' = DrawableOf(c)

Guarded(c) ==
    /\ CanSwitch(c)
    /\ \/ current # NoContext /\ Restored(c)
       \/ current = NoContext /\ current' = egl[c] /\ drawn' = DrawableOf(c)

MakeContextCurrent(c) ==
    /\ MayCall(c)
    /\ \/ /\ CanSwitch(c)
          /\ current' = egl[c] /\ drawn' = DrawableOf(c)
          /\ result' = "ok"
       \/ MayFailSwitch(c) /\ UNCHANGED eglVars /\ result' = "err"
    /\ UNCHANGED <<contextVars, surfaceVars, glVars>>

MakeNoContextCurrent ==
    /\ Runs
    /\ \/ current' = NoContext /\ drawn' = NoDrawable /\ result' = "ok"
       \/ "make_current" \in Faults /\ UNCHANGED eglVars /\ result' = "err"
    /\ UNCHANGED <<contextVars, surfaceVars, glVars>>

-----------------------------------------------------------------------------
(* Contexts. *)

\* Stays current.  A pbuffer that cannot be made panics; a context that cannot be made
\* current is leaked.
CreateContext(c) ==
    /\ Runs /\ status[c] = "Absent"
    /\ \/ /\ status' = [status EXCEPT ![c] = "Live"]
          /\ current' = c /\ drawn' = Pbuffer(c)
          /\ result' = "ok"
       \/ /\ \/ Faults \cap {"create", "make_current"} # {} /\ result' = "err"
             \/ "pbuffer" \in Faults /\ result' = "panic"
          /\ UNCHANGED <<status, eglVars>>
    /\ UNCHANGED <<egl, framebuffer, external, surfaceVars, glVars>>

\* The native context of b is wrapped, with what b draws to.
CreateContextFromNative(c, b) ==
    /\ MayCall(b) /\ status[c] = "Absent"
    /\ \/ /\ status' = [status EXCEPT ![c] = "Live"]
          /\ egl' = [egl EXCEPT ![c] = egl[b]]
          /\ framebuffer' = [framebuffer EXCEPT ![c] = External]
          /\ external' = [external EXCEPT ![c] = DrawableOf(b)]
          /\ result' = "ok"
       \/ /\ "pbuffer" \in Faults /\ result' = "panic"
          /\ UNCHANGED contextVars
    /\ UNCHANGED <<eglVars, surfaceVars, glVars>>

\* Wrapped contexts other than c that use what c is about to destroy.
Borrowers(c, d) ==
    {b \in Contexts \ {c} : /\ status[b] = "Live" /\ framebuffer[b] = External
                            /\ egl[b] = c \/ external[b] \in d}

\* Texture and framebuffer object are deleted in whichever context is current.
DeleteTexture(n) ==
    object' = IF current = NoContext THEN object
              ELSE [object EXCEPT ![current][n] = NoObject]

Here(c) == current = egl[c] \/ "elsewhere" \in Misuse

Discard(c, s) ==
    \/ s \in widget /\ UNCHANGED <<object, name>>
    \/ /\ s \notin widget /\ Here(c)
       /\ DeleteTexture(name[s])
       /\ name' = [name EXCEPT ![s] = NoName]

\* None is current afterwards, whichever was.
DestroyContext(c) ==
    LET s == framebuffer[c] IN
    /\ MayCall(c)
    /\ Borrowers(c, {Pbuffer(c), Window(s)}) = {} \/ "outlived" \in Misuse
    /\ status' = [status EXCEPT ![c] = "Destroyed"]
    /\ framebuffer' = [framebuffer EXCEPT ![c] = NoSurface]
    /\ current' = NoContext /\ drawn' = NoDrawable
    /\ \/ /\ s \in Surfaces
          /\ Discard(c, s)
          /\ place' = [place EXCEPT ![s] = "destroyed"]
       \/ s \notin Surfaces /\ UNCHANGED <<object, name, place>>
    /\ result' = "ok"
    /\ UNCHANGED <<egl, external, widget, creator, reader>>

-----------------------------------------------------------------------------
(* Surfaces. *)

FreeNames(g) == {n \in Names : object[g][n] = NoObject}

\* What is left of a call that finds no memory for the buffer is its outcome.
CreateGenericSurface(c, s, unallocated) ==
    /\ MayCall(c)
    /\ place[s] = "absent"
    /\ \/ /\ Guarded(c)
          /\ \E n \in FreeNames(egl[c]) :
                /\ object' = [object EXCEPT ![egl[c]][n] = Image(s)]
                /\ name' = [name EXCEPT ![s] = n]
          /\ place' = [place EXCEPT ![s] = "free"]
          /\ creator' = [creator EXCEPT ![s] = c]
          /\ result' = "ok"
       \/ /\ \/ "allocate" \in Faults /\ Guarded(c) /\ result' = unallocated
             \/ MayFailSwitch(c) /\ UNCHANGED eglVars /\ result' = "err"
          /\ UNCHANGED <<object, name, place, creator>>
    /\ UNCHANGED <<contextVars, widget, reader>>

AndroidCreates(c, s) == CreateGenericSurface(c, s, "err")
OhosCreates(c, s) == CreateGenericSurface(c, s, "panic")    \* it asserts

CreateWindowSurface(c, s) ==
    /\ MayCall(c)
    /\ place[s] = "absent"
    /\ \/ /\ place' = [place EXCEPT ![s] = "free"]
          /\ widget' = widget \cup {s}
          /\ creator' = [creator EXCEPT ![s] = c]
          /\ result' = "ok"
       \/ "window" \in Faults /\ result' = "panic" /\ UNCHANGED surfaceVars
    /\ UNCHANGED <<contextVars, eglVars, glVars>>

DestroySurface(c, s) ==
    /\ MayCall(c)
    /\ place[s] = "free"
    /\ \/ /\ creator[s] = c
          /\ Borrowers(c, {Window(s)}) = {} \/ "outlived" \in Misuse
          /\ Discard(c, s)
          /\ place' = [place EXCEPT ![s] = "destroyed"]
          /\ result' = "ok"
       \/ /\ creator[s] # c
          /\ result' = "err"
          /\ UNCHANGED <<object, name, place>>
    /\ UNCHANGED <<contextVars, eglVars, widget, creator, reader>>

\* The context is not made current again.
BindSurface(c, s) ==
    /\ MayCall(c)
    /\ place[s] = "free"
    /\ \/ /\ creator[s] = c /\ framebuffer[c] = NoSurface
          /\ framebuffer' = [framebuffer EXCEPT ![c] = s]
          /\ place' = [place EXCEPT ![s] = "bound"]
          /\ result' = "ok"
       \/ /\ creator[s] # c \/ framebuffer[c] # NoSurface
          /\ result' = "err"
          /\ UNCHANGED <<framebuffer, place>>
    /\ UNCHANGED <<status, egl, external, eglVars, widget, creator, glVars>>

\* Flushes with the context current.  A surface that cannot be flushed stays bound.
UnbindSurface(c) ==
    /\ MayCall(c)
    /\ \/ \E s \in Surfaces :
             /\ framebuffer[c] = s
             /\ \/ /\ Guarded(c)
                   /\ framebuffer' = [framebuffer EXCEPT ![c] = NoSurface]
                   /\ place' = [place EXCEPT ![s] = "free"]
                   /\ result' = "ok"
                \/ /\ MayFailSwitch(c) /\ UNCHANGED <<eglVars, framebuffer, place>>
                   /\ result' = "err"
       \/ /\ framebuffer[c] \notin Surfaces
          /\ result' = IF framebuffer[c] = External THEN "err" ELSE "ok"
          /\ UNCHANGED <<eglVars, framebuffer, place>>
    /\ UNCHANGED <<status, egl, external, widget, creator, glVars>>

\* Whether EGL swapped the buffers is not looked at.
PresentSurface(c, s) ==
    /\ MayCall(c)
    /\ place[s] = "free"
    /\ result' = IF creator[s] = c /\ s \in widget THEN "ok" ELSE "err"
    /\ UNCHANGED <<contextVars, eglVars, surfaceVars, glVars>>

PresentBoundSurface(c) ==
    /\ MayCall(c)
    /\ result' = IF framebuffer[c] \in Surfaces \ widget THEN "err" ELSE "ok"
    /\ UNCHANGED <<contextVars, eglVars, surfaceVars, glVars>>

CreateSurfaceTexture(c, s) ==
    /\ MayCall(c)
    /\ place[s] = "free"
    /\ \/ /\ s \notin widget /\ Guarded(c)
          /\ \E n \in FreeNames(egl[c]) :
                /\ object' = [object EXCEPT ![egl[c]][n] = LocalImage(s)]
                /\ reader' = [reader EXCEPT ![s] = [egl |-> egl[c], name |-> n]]
          /\ place' = [place EXCEPT ![s] = "texture"]
          /\ result' = "ok"
       \/ /\ s \in widget \/ MayFailSwitch(c)
          /\ UNCHANGED <<eglVars, object, reader, place>>
          /\ result' = "err"
    /\ UNCHANGED <<contextVars, widget, creator, name>>

\* Mistake: the texture is deleted in whichever context is current, as the image is.
DeletedInCurrent(c, n) == DeleteTexture(n) /\ UNCHANGED eglVars

\* The result of the switch is not looked at: if it fails so does nothing else.
DeletedWithGuard(c, n) ==
    \/ Guarded(c) /\ object' = [object EXCEPT ![egl[c]][n] = NoObject]
    \/ MayFailSwitch(c) /\ DeleteTexture(n) /\ UNCHANGED eglVars

\* The context must be that of the texture, or one that shares its EGLContext.
DestroySurfaceTexture(c, s) ==
    /\ MayCall(c)
    /\ place[s] = "texture"
    /\ reader[s].egl = egl[c] \/ "elsewhere" \in Misuse
    /\ DeletedWithGuard(c, reader[s].name)
    /\ reader' = [reader EXCEPT ![s] = NoReader]
    /\ place' = [place EXCEPT ![s] = "free"]
    /\ result' = "ok"
    /\ UNCHANGED <<contextVars, widget, creator, name>>

-----------------------------------------------------------------------------
Init ==
    /\ status = [c \in Contexts |-> "Absent"]
    /\ egl = [c \in Contexts |-> c]
    /\ framebuffer = [c \in Contexts |-> NoSurface]
    /\ external = [c \in Contexts |-> NoDrawable]
    /\ current = NoContext /\ drawn = NoDrawable
    /\ place = [s \in Surfaces |-> "absent"]
    /\ widget = {}
    /\ creator = [s \in Surfaces |-> NoContext]
    /\ object = [c \in Contexts |-> [n \in Names |-> NoObject]]
    /\ name = [s \in Surfaces |-> NoName]
    /\ reader = [s \in Surfaces |-> NoReader]
    /\ result = "ok"

OnContext(c) ==
    \/ MakeContextCurrent(c) \/ CreateContext(c)
    \/ \E b \in Contexts : CreateContextFromNative(c, b)
    \/ DestroyContext(c) \/ UnbindSurface(c) \/ PresentBoundSurface(c)

OnSurface(c, s) ==
    \/ AndroidCreates(c, s) \/ OhosCreates(c, s) \/ CreateWindowSurface(c, s)
    \/ DestroySurface(c, s) \/ BindSurface(c, s) \/ PresentSurface(c, s)
    \/ CreateSurfaceTexture(c, s) \/ DestroySurfaceTexture(c, s)

Next ==
    \/ MakeNoContextCurrent
    \/ \E c \in Contexts : OnContext(c)
    \/ \E c \in Contexts, s \in Surfaces : OnSurface(c, s)

Spec == Init /\ [][Next]_vars

-----------------------------------------------------------------------------
(* Properties. *)

\* The texture of a surface, and the one it is read through, live in the context they
\* were made in: no other surface's destruction, and no destruction through another
\* context, takes them away.
TexturesLive ==
    \A s \in Surfaces : Alive(s) =>
        /\ s \notin widget /\ status[egl[creator[s]]] = "Live" =>
              object[egl[creator[s]]][name[s]] = Image(s)
        /\ place[s] = "texture" /\ status[reader[s].egl] = "Live" =>
              object[reader[s].egl][reader[s].name] = LocalImage(s)

\* What EGL draws to belongs to the context it has current, though binding and
\* unbinding switch nothing: a pbuffer or a window of a Context that holds it.
DrawnBelongsToCurrent ==
    current # NoContext =>
        \/ \E c \in Contexts : egl[c] = current /\ drawn = Pbuffer(c)
        \/ \E s \in widget :
              /\ drawn = Window(s)
              /\ creator[s] # NoContext /\ egl[creator[s]] = current

=============================================================================
