----------------------------- MODULE CglDevice -----------------------------
(***************************************************************************)
(* Contexts and surfaces on macOS: cgl/device.rs, context.rs, surface.rs   *)
(* over base/io_surface/surface.rs.  A surface is an IOSurface that a GL   *)
(* texture, attached to a framebuffer object, renders to.  The surface of  *)
(* a view has a second one, which its layer shows: presenting swaps them,  *)
(* and waits for a callback of the view's display link, which runs on a    *)
(* thread of its own.  CGL contexts are reference-counted.                 *)
(*                                                                         *)
(* One application thread; a method is one action, but for presenting,     *)
(* which waits in the middle.  IOSurfaces are numbered for each surface.   *)
(* Sizes, pixel formats, renderbuffers and the CPU's access are left out.  *)
(***************************************************************************)
EXTENDS Naturals, FiniteSets

CONSTANTS
    Contexts, Surfaces,
    Names,          \* GL texture names; each CGL context has its own
    NoContext, NoSurface, NoName, NoImage,
    MaxNatives,     \* bound on the NativeContexts that exist of one CGL context
    MaxBorrowed,    \* bound: times NativeContext::current returns one CGL context
    Faults,         \* calls that may fail
    Misuse          \* calls the API accepts although they go wrong

\* "create": creating a CGL context, or making the new one current.
SystemCalls == {"create", "complete", "make_current"}

\* "elsewhere": a method that switches no context is called while another context
\* is current than it is given, or than the surface was created with;
\* "present_generic": a generic surface is presented.
Misuses == {"elsewhere", "present_generic"}

ASSUME FaultsAssumption == Faults \subseteq SystemCalls
ASSUME MisuseAssumption == Misuse \subseteq Misuses
ASSUME MaxNativesAssumption == MaxNatives \in Nat
ASSUME MaxBorrowedAssumption == MaxBorrowed \in Nat
ASSUME DistinctAssumption ==
    /\ NoContext \notin Contexts /\ NoSurface \notin Surfaces
    /\ NoName \notin Names /\ NoImage \notin Surfaces \X (0..4)

VARIABLES
    status,       \* context -> "Absent", "Live", "Destroyed", or "Leaked" if it was
                  \* given up and its CGL context was not
    cgl,          \* context -> the CGL context it holds, named for its first owner
    refs,         \* CGL context -> its reference count
    natives,      \* CGL context -> NativeContexts that hold it
    borrowed,     \* CGL context -> how often NativeContext::current has returned it
    framebuffer,  \* context -> the surface bound to it
    current,      \* CGLGetCurrentContext
    glTexture,    \* CGL context -> name -> the IOSurface the texture is bound to
    fbo,          \* CGL context -> the surface whose framebuffer object is bound
    place,        \* surface -> where it is
    widget,       \* surfaces that have a view
    creator,      \* surface -> its context_id
    name,         \* surface -> texture_object
    reader,       \* surface -> [cgl, name] of its SurfaceTexture
    back,         \* surface -> the IOSurface GL is to draw to
    front,        \* surface with a view -> view_info.front_surface
    shown,        \* surface with a view -> what its layer shows on the screen
    open,         \* a Core Animation transaction was begun and not committed
    waiting,      \* the surface whose presentation waits, and whether it is over
    link,         \* surface with a view -> its display link runs
    callbacks,    \* surfaces for which a display-link callback is running
    arcs,         \* surface -> references to its VblankCond
    result        \* outcome of the last call

contextVars == <<status, cgl, refs, natives, borrowed, framebuffer>>
glVars == <<glTexture, fbo>>
surfaceVars == <<place, widget, creator, name, reader>>
imageVars == <<back, front, shown, open>>
viewVars == <<link, callbacks, arcs>>
vars == <<contextVars, current, glVars, surfaceVars, imageVars, waiting, viewVars,
          result>>

IOSurfaces == 0..4    \* enough for two new ones next to three in use
Images == Surfaces \X IOSurfaces
NoReader == [cgl |-> NoContext, name |-> NoName]
Nobody == [surface |-> NoSurface, over |-> FALSE]
Alive(s) == place[s] \in {"free", "bound", "texture"}

TypeOK ==
    /\ status \in [Contexts -> {"Absent", "Live", "Destroyed", "Leaked"}]
    /\ cgl \in [Contexts -> Contexts]
    /\ refs \in [Contexts -> 0..(MaxNatives + Cardinality(Contexts))]
    /\ natives \in [Contexts -> 0..MaxNatives]
    /\ borrowed \in [Contexts -> 0..MaxBorrowed]
    /\ framebuffer \in [Contexts -> Surfaces \cup {NoSurface}]
    /\ current \in Contexts \cup {NoContext}
    /\ glTexture \in [Contexts -> [Names -> Images \cup {NoImage}]]
    /\ fbo \in [Contexts -> Surfaces \cup {NoSurface}]
    /\ place \in [Surfaces -> {"absent", "free", "bound", "texture", "destroyed"}]
    /\ widget \subseteq Surfaces
    /\ creator \in [Surfaces -> Contexts \cup {NoContext}]
    /\ name \in [Surfaces -> Names \cup {NoName}]
    /\ reader \in [Surfaces -> [cgl : Contexts, name : Names] \cup {NoReader}]
    /\ back \in [Surfaces -> IOSurfaces] /\ front \in [Surfaces -> IOSurfaces]
    /\ shown \in [Surfaces -> IOSurfaces] /\ open \in BOOLEAN
    /\ waiting \in [surface : Surfaces, over : BOOLEAN] \cup {Nobody}
    /\ link \in [Surfaces -> BOOLEAN]
    /\ callbacks \subseteq Surfaces
    /\ arcs \in [Surfaces -> 0..2]
    /\ result \in {"ok", "err", "panic"}

-----------------------------------------------------------------------------
(* Making contexts current, and their references. *)

Runs == result # "panic" /\ waiting = Nobody

\* A CGL context is freed with its last reference.  What the system does for one that
\* is freed and still held is undefined, and not modelled: there is no such call.
Exists(g) == refs[g] > 0

MayCall(c) == status[c] = "Live" /\ Exists(cgl[c]) /\ Runs

Here(c) == current = cgl[c] \/ "elsewhere" \in Misuse

MayFailMakeCurrent == "make_current" \in Faults

\* The CGL context GL acts on after temporarily_make_context_current(c), whose error
\* is ignored.  Its guard always puts back what was current.
ActsOn(c) == {cgl[c]} \cup {g \in {current} \ {NoContext} : MayFailMakeCurrent}

\* Mistake: as the EGL back ends do, whose native contexts cannot be retained.
NotRetained(g) == UNCHANGED refs

\* CGLRetainContext.
Retain(g) == refs' = [refs EXCEPT ![g] = @ + 1]

Release(g) == refs' = [refs EXCEPT ![g] = @ - 1]

NativeVars == <<status, cgl, framebuffer, current, glVars, surfaceVars, imageVars,
                waiting, viewVars, result>>

NativeContextOf(c) ==
    /\ MayCall(c) /\ natives[cgl[c]] < MaxNatives
    /\ Retain(cgl[c])
    /\ natives' = [natives EXCEPT ![cgl[c]] = @ + 1]
    /\ UNCHANGED <<NativeVars, borrowed>>

NativeContextClone(g) ==
    /\ Runs /\ Exists(g) /\ natives[g] \in 1..(MaxNatives - 1)
    /\ Retain(g)
    /\ natives' = [natives EXCEPT ![g] = @ + 1]
    /\ UNCHANGED <<NativeVars, borrowed>>

NativeContextDrop(g) ==
    /\ Runs /\ Exists(g) /\ natives[g] > 0
    /\ Release(g)
    /\ natives' = [natives EXCEPT ![g] = @ - 1]
    /\ UNCHANGED <<NativeVars, borrowed>>

\* NativeContext::current of the CGL context g retains nothing.
NativeContextCurrent(g) ==
    /\ Runs /\ current = g
    /\ natives[g] < MaxNatives /\ borrowed[g] < MaxBorrowed
    /\ natives' = [natives EXCEPT ![g] = @ + 1]
    /\ borrowed' = [borrowed EXCEPT ![g] = @ + 1]
    /\ UNCHANGED <<NativeVars, refs>>

\* Stays current.  If it cannot be made so, nobody has the CGL context any more.
CreateContext(c) ==
    /\ Runs /\ status[c] = "Absent"
    /\ \/ /\ status' = [status EXCEPT ![c] = "Live"]
          /\ Retain(c)
          /\ current' = c
          /\ result' = "ok"
       \/ /\ "create" \in Faults
          /\ status' = [status EXCEPT ![c] = "Leaked"]
          /\ Retain(c)
          /\ result' = "err"
          /\ UNCHANGED current
       \/ /\ "create" \in Faults
          /\ result' = "err"
          /\ UNCHANGED <<status, refs, current>>
    /\ UNCHANGED <<cgl, natives, borrowed, framebuffer, glVars, surfaceVars, imageVars,
                   waiting, viewVars>>

\* Takes over the reference of the NativeContext.
CreateContextFromNative(c, g) ==
    /\ Runs /\ status[c] = "Absent" /\ natives[g] > 0
    /\ status' = [status EXCEPT ![c] = "Live"]
    /\ cgl' = [cgl EXCEPT ![c] = g]
    /\ natives' = [natives EXCEPT ![g] = @ - 1]
    /\ result' = "ok"
    /\ UNCHANGED <<refs, borrowed, framebuffer, current, glVars, surfaceVars, imageVars,
                   waiting, viewVars>>

Keep == <<contextVars, glVars, surfaceVars, imageVars, waiting, viewVars>>

MakeContextCurrent(c) ==
    /\ MayCall(c)
    /\ \/ current' = cgl[c] /\ result' = "ok"
       \/ MayFailMakeCurrent /\ UNCHANGED current /\ result' = "err"
    /\ UNCHANGED Keep

MakeNoContextCurrent ==
    /\ Runs
    /\ \/ current' = NoContext /\ result' = "ok"
       \/ MayFailMakeCurrent /\ UNCHANGED current /\ result' = "err"
    /\ UNCHANGED Keep

-----------------------------------------------------------------------------
(* The view of a surface and its display link. *)

\* Mistake: the display link is created and never started.
NotStarted == FALSE

Started == TRUE

\* create_view_info: one reference for the view, one for the callback.
NewView(s) ==
    /\ link' = [link EXCEPT ![s] = Started]
    /\ arcs' = [arcs EXCEPT ![s] = 2]
    /\ UNCHANGED callbacks

\* ViewInfo::drop gives up the callback's reference, its fields' drop the view's.
\* CVDisplayLinkStop is not known to wait for a callback that runs.
DropView(s) ==
    /\ link' = [link EXCEPT ![s] = FALSE]
    /\ arcs' = [arcs EXCEPT ![s] = 0]
    /\ UNCHANGED callbacks

CallbackBegins(s) ==
    /\ link[s] /\ s \notin callbacks
    /\ callbacks' = callbacks \cup {s}
    /\ UNCHANGED <<contextVars, current, glVars, surfaceVars, imageVars, waiting,
                   link, arcs, result>>

\* Mistake: mem::forget is missing, and the reference dropped with the Arc.
Dropped(s) == arcs' = [arcs EXCEPT ![s] = IF @ = 0 THEN 0 ELSE @ - 1]

\* The Arc made of the callback's pointer is forgotten, not dropped.
Forgotten(s) == UNCHANGED arcs

\* Locks the mutex, which a waiting thread has released, and notifies; it may have
\* been freed by now if the view has been dropped.
CallbackEnds(s) ==
    /\ s \in callbacks
    /\ callbacks' = callbacks \ {s}
    /\ Forgotten(s)
    /\ waiting' = IF waiting.surface = s THEN [waiting EXCEPT !.over = TRUE]
                  ELSE waiting
    /\ UNCHANGED <<contextVars, current, glVars, surfaceVars, imageVars, link, result>>

-----------------------------------------------------------------------------
(* Surfaces. *)

FreeNames(g) == {n \in Names : glTexture[g][n] = NoImage}

\* FramebufferGuard::drop puts back the binding it found.
BindingRestored(g, s) == UNCHANGED fbo

\* An incomplete framebuffer means that there was no memory: all is deleted again.
CreateSurface(c, s) ==
    /\ MayCall(c)
    /\ place[s] = "absent"
    /\ \/ \E g \in ActsOn(c), view \in BOOLEAN :
             /\ \E n \in FreeNames(g) :
                   /\ glTexture' = [glTexture EXCEPT ![g][n] = <<s, 0>>]
                   /\ name' = [name EXCEPT ![s] = n]
             /\ BindingRestored(g, s)
             /\ place' = [place EXCEPT ![s] = "free"]
             /\ creator' = [creator EXCEPT ![s] = c]
             /\ \/ view /\ widget' = widget \cup {s} /\ NewView(s)
                \/ ~view /\ widget' = widget \ {s} /\ UNCHANGED viewVars
             /\ back' = [back EXCEPT ![s] = 0]
             /\ front' = [front EXCEPT ![s] = IF view THEN 1 ELSE 0]
             /\ shown' = [shown EXCEPT ![s] = IF view THEN 1 ELSE 0]
             /\ result' = "ok"
       \/ /\ "complete" \in Faults
          /\ result' = "err"
          /\ UNCHANGED <<glVars, place, widget, creator, name, back, front, shown,
                         viewVars>>
    /\ UNCHANGED <<contextVars, current, reader, open, waiting>>

\* GL objects are deleted in whichever context is current.
DeleteObjects(s) ==
    IF current = NoContext THEN UNCHANGED glVars
    ELSE /\ glTexture' = [glTexture EXCEPT ![current][name[s]] = NoImage]
         /\ fbo' = [fbo EXCEPT ![current] = IF @ = s THEN NoSurface ELSE @]

DestroySurface(c, s) ==
    /\ MayCall(c) /\ Here(c)
    /\ place[s] = "free"
    /\ \/ /\ creator[s] = c
          /\ DeleteObjects(s)
          /\ place' = [place EXCEPT ![s] = "destroyed"]
          /\ name' = [name EXCEPT ![s] = NoName]
          /\ result' = "ok"
       \/ /\ creator[s] # c
          /\ result' = "err"
          /\ UNCHANGED <<glVars, place, name>>
    /\ UNCHANGED <<contextVars, current, widget, creator, reader, imageVars, waiting,
                   viewVars>>

\* The application drops a surface it has destroyed.
DropSurface(s) ==
    /\ Runs
    /\ place[s] = "destroyed"
    /\ place' = [place EXCEPT ![s] = "absent"]
    /\ creator' = [creator EXCEPT ![s] = NoContext]
    /\ IF s \in widget THEN DropView(s) ELSE UNCHANGED viewVars
    /\ UNCHANGED <<contextVars, current, glVars, widget, name, reader, imageVars,
                   waiting, result>>

\* The bound surface is destroyed, and dropped, in whichever context is current; none
\* is current afterwards.
DestroyContext(c) ==
    /\ MayCall(c)
    /\ status' = [status EXCEPT ![c] = "Destroyed"]
    /\ framebuffer' = [framebuffer EXCEPT ![c] = NoSurface]
    /\ Release(cgl[c])
    /\ current' = NoContext
    /\ \/ /\ framebuffer[c] = NoSurface
          /\ UNCHANGED <<glVars, place, creator, name, viewVars>>
       \/ /\ framebuffer[c] # NoSurface /\ Here(c)
          /\ DeleteObjects(framebuffer[c])
          /\ place' = [place EXCEPT ![framebuffer[c]] = "absent"]
          /\ creator' = [creator EXCEPT ![framebuffer[c]] = NoContext]
          /\ name' = [name EXCEPT ![framebuffer[c]] = NoName]
          /\ IF framebuffer[c] \in widget THEN DropView(framebuffer[c])
             ELSE UNCHANGED viewVars
    /\ result' = "ok"
    /\ UNCHANGED <<cgl, natives, borrowed, widget, reader, imageVars, waiting>>

BindSurface(c, s) ==
    /\ MayCall(c)
    /\ place[s] = "free"
    /\ \/ /\ creator[s] = c /\ framebuffer[c] = NoSurface
          /\ framebuffer' = [framebuffer EXCEPT ![c] = s]
          /\ place' = [place EXCEPT ![s] = "bound"]
          /\ result' = "ok"
       \/ /\ creator[s] # c \/ framebuffer[c] # NoSurface
          /\ result' = "err"
          /\ UNCHANGED <<framebuffer, place>>
    /\ UNCHANGED <<status, cgl, refs, natives, borrowed, current, glVars, widget, creator,
                   name, reader, imageVars, waiting, viewVars>>

\* unbind_framebuffer_if_necessary, with the context made current.
Unbound(g, s) == fbo' = [fbo EXCEPT ![g] = IF @ = s THEN NoSurface ELSE @]

\* Flushes.  If the context cannot be made current the surface, taken out already, is
\* dropped, which panics.
UnbindSurface(c) ==
    /\ MayCall(c)
    /\ \/ \E s \in Surfaces :
             /\ framebuffer[c] = s
             /\ framebuffer' = [framebuffer EXCEPT ![c] = NoSurface]
             /\ \/ /\ Unbound(cgl[c], s)
                   /\ place' = [place EXCEPT ![s] = "free"]
                   /\ result' = "ok"
                \/ MayFailMakeCurrent /\ result' = "panic" /\ UNCHANGED <<fbo, place>>
       \/ /\ framebuffer[c] = NoSurface
          /\ result' = "ok"
          /\ UNCHANGED <<framebuffer, fbo, place>>
    /\ UNCHANGED <<status, cgl, refs, natives, borrowed, current, glTexture, widget,
                   creator, name, reader, imageVars, waiting, viewVars>>

\* The application binds the framebuffer object of the bound surface to draw.
Draw(c) ==
    /\ MayCall(c) /\ current = cgl[c]
    /\ framebuffer[c] # NoSurface
    /\ fbo' = [fbo EXCEPT ![cgl[c]] = framebuffer[c]]
    /\ result' = "ok"
    /\ UNCHANGED <<contextVars, current, glTexture, surfaceVars, imageVars, waiting,
                   viewVars>>

\* Mistake: the layer is given the IOSurface that GL goes on drawing to.
ShownInPlace(s) ==
    /\ shown' = [shown EXCEPT ![s] = IF open THEN @ ELSE back[s]]
    /\ UNCHANGED <<back, front>>

\* The layer shows the new front surface once the transaction is committed.
Swapped(s) ==
    /\ back' = [back EXCEPT ![s] = front[s]]
    /\ front' = [front EXCEPT ![s] = back[s]]
    /\ shown' = [shown EXCEPT ![s] = IF open THEN @ ELSE back[s]]

\* Surface::present of a view swaps its IOSurfaces and then waits; the transaction of
\* a generic surface is begun and not committed.
PresentBegins(s) ==
    /\ current = cgl[creator[s]] \/ "elsewhere" \in Misuse
    /\ \/ /\ s \in widget
          /\ Swapped(s)
          /\ waiting' = [surface |-> s, over |-> FALSE]
          /\ UNCHANGED <<open, result>>
       \/ /\ s \notin widget /\ "present_generic" \in Misuse
          /\ open' = TRUE
          /\ result' = "err"
          /\ UNCHANGED <<back, front, shown, waiting>>
    /\ UNCHANGED <<contextVars, current, glVars, surfaceVars, viewVars>>

PresentSurface(c, s) == MayCall(c) /\ place[s] = "free" /\ PresentBegins(s)

PresentBoundSurface(c) ==
    /\ MayCall(c)
    /\ \/ framebuffer[c] \in Surfaces /\ PresentBegins(framebuffer[c])
       \/ framebuffer[c] = NoSurface /\ result' = "ok" /\ UNCHANGED <<current, Keep>>

\* Mistake: the texture keeps the IOSurface it had.
NotRebound(s) == UNCHANGED glTexture

\* Surface::bind_to_texture, in whichever context is current.
Rebound(s) == glTexture' = [glTexture EXCEPT ![current][name[s]] = <<s, back[s]>>]

\* The wait is over, or woke up for no reason.
PresentEnds ==
    /\ waiting # Nobody
    /\ waiting' = Nobody
    /\ \/ current # NoContext /\ Rebound(waiting.surface) /\ result' = "ok"
       \/ current = NoContext /\ result' = "panic" /\ UNCHANGED glTexture
    /\ UNCHANGED <<contextVars, current, fbo, surfaceVars, imageVars, viewVars>>

PresentWakes == waiting.over /\ PresentEnds
PresentWakesEarly == ~waiting.over /\ PresentEnds

\* resize_inner: two new IOSurfaces, and a texture on the one to draw to; the layer
\* shows what it showed.  A generic surface cannot be resized.
Resize(c, s) ==
    \/ /\ s \in widget
       /\ \E g \in ActsOn(c), n \in Names :
             /\ n \in FreeNames(g)
             /\ LET new == IOSurfaces \ {back[s], front[s], shown[s]}
                    b == CHOOSE i \in new : \A j \in new : i <= j
                    f == CHOOSE i \in new : \A j \in new : i >= j
                IN /\ back' = [back EXCEPT ![s] = b]
                   /\ front' = [front EXCEPT ![s] = f]
                   /\ glTexture' = [glTexture EXCEPT ![g][n] = <<s, b>>,
                                                     ![g][name[s]] = NoImage]
             /\ name' = [name EXCEPT ![s] = n]
             /\ BindingRestored(g, s)
       /\ result' = "ok"
       /\ UNCHANGED <<contextVars, current, place, widget, creator, reader, shown, open,
                      waiting, viewVars>>
    \/ /\ s \notin widget
       /\ result' = "err"
       /\ UNCHANGED <<current, Keep>>

ResizeSurface(c, s) ==
    /\ MayCall(c) /\ place[s] = "free"
    /\ \/ creator[s] = c /\ Resize(c, s)
       \/ creator[s] # c /\ result' = "err" /\ UNCHANGED <<current, Keep>>

ResizeBoundSurface(c) ==
    /\ MayCall(c)
    /\ \/ framebuffer[c] \in Surfaces /\ Resize(c, framebuffer[c])
       \/ framebuffer[c] = NoSurface /\ result' = "ok" /\ UNCHANGED <<current, Keep>>

\* If c cannot be made current, unwrap panics.
CreateSurfaceTexture(c, s) ==
    /\ MayCall(c)
    /\ place[s] = "free"
    /\ \/ /\ s \notin widget
          /\ \E n \in FreeNames(cgl[c]) :
                /\ glTexture' = [glTexture EXCEPT ![cgl[c]][n] = <<s, back[s]>>]
                /\ reader' = [reader EXCEPT ![s] = [cgl |-> cgl[c], name |-> n]]
          /\ place' = [place EXCEPT ![s] = "texture"]
          /\ result' = "ok"
       \/ /\ \/ s \in widget /\ result' = "err"
             \/ s \notin widget /\ MayFailMakeCurrent /\ result' = "panic"
          /\ UNCHANGED <<glTexture, reader, place>>
    /\ UNCHANGED <<contextVars, current, fbo, widget, creator, name, imageVars, waiting,
                   viewVars>>

\* Deleted in whichever context is current.
DestroySurfaceTexture(c, s) ==
    /\ MayCall(c)
    /\ place[s] = "texture"
    /\ current = reader[s].cgl \/ "elsewhere" \in Misuse
    /\ IF current = NoContext THEN UNCHANGED glTexture
       ELSE glTexture' = [glTexture EXCEPT ![current][reader[s].name] = NoImage]
    /\ place' = [place EXCEPT ![s] = "free"]
    /\ reader' = [reader EXCEPT ![s] = NoReader]
    /\ result' = "ok"
    /\ UNCHANGED <<contextVars, current, fbo, widget, creator, name, imageVars, waiting,
                   viewVars>>

-----------------------------------------------------------------------------
Init ==
    /\ status = [c \in Contexts |-> "Absent"]
    /\ cgl = [c \in Contexts |-> c]
    /\ refs = [c \in Contexts |-> 0]
    /\ natives = [c \in Contexts |-> 0]
    /\ borrowed = [c \in Contexts |-> 0]
    /\ framebuffer = [c \in Contexts |-> NoSurface]
    /\ current = NoContext
    /\ glTexture = [c \in Contexts |-> [n \in Names |-> NoImage]]
    /\ fbo = [c \in Contexts |-> NoSurface]
    /\ place = [s \in Surfaces |-> "absent"]
    /\ widget = {}
    /\ creator = [s \in Surfaces |-> NoContext]
    /\ name = [s \in Surfaces |-> NoName]
    /\ reader = [s \in Surfaces |-> NoReader]
    /\ back = [s \in Surfaces |-> 0]
    /\ front = [s \in Surfaces |-> 0]
    /\ shown = [s \in Surfaces |-> 0]
    /\ open = FALSE
    /\ waiting = Nobody
    /\ link = [s \in Surfaces |-> FALSE]
    /\ callbacks = {}
    /\ arcs = [s \in Surfaces |-> 0]
    /\ result = "ok"

Callback(s) == CallbackBegins(s) \/ CallbackEnds(s)

OnContext(c) ==
    \/ CreateContext(c) \/ MakeContextCurrent(c) \/ NativeContextOf(c)
    \/ NativeContextClone(c) \/ NativeContextDrop(c) \/ NativeContextCurrent(c)
    \/ \E g \in Contexts : CreateContextFromNative(c, g)
    \/ DestroyContext(c) \/ UnbindSurface(c) \/ Draw(c)
    \/ PresentBoundSurface(c) \/ ResizeBoundSurface(c)

OnSurface(c, s) ==
    \/ CreateSurface(c, s) \/ DestroySurface(c, s) \/ BindSurface(c, s)
    \/ PresentSurface(c, s) \/ ResizeSurface(c, s)
    \/ CreateSurfaceTexture(c, s) \/ DestroySurfaceTexture(c, s)

Next ==
    \/ MakeNoContextCurrent
    \/ PresentWakes \/ PresentWakesEarly
    \/ \E s \in Surfaces : CallbackBegins(s) \/ CallbackEnds(s) \/ DropSurface(s)
    \/ \E c \in Contexts : OnContext(c)
    \/ \E c \in Contexts, s \in Surfaces : OnSurface(c, s)

\* A display link that was started calls back, and a woken thread runs.
Fairness == WF_vars(PresentWakes) /\ \A s \in Surfaces : WF_vars(Callback(s))

Spec == Init /\ [][Next]_vars /\ Fairness

-----------------------------------------------------------------------------
(* Properties. *)

\* Every Context and NativeContext that holds a CGL context has its reference, however
\* they are made of one another: there is one too few for each that
\* NativeContext::current returned, whether or not it still exists, and one too many
\* if create_context gave the CGL context up.  Nothing else frees one in use or leaks it.
RefsMatchHandles ==
    \A g \in Contexts :
        refs[g] + borrowed[g] =
            natives[g] + Cardinality({c \in Contexts :
                             status[c] \in {"Live", "Leaked"} /\ cgl[c] = g})

\* The texture that a surface renders to, and the one it is read through, are bound to
\* the IOSurface that is its back buffer, however often presenting swaps it.
TextureShowsBack ==
    \A s \in Surfaces : Alive(s) /\ waiting.surface # s =>
        /\ status[creator[s]] = "Live" =>
              glTexture[cgl[creator[s]]][name[s]] = <<s, back[s]>>
        /\ place[s] = "texture" =>
              glTexture[reader[s].cgl][reader[s].name] = <<s, back[s]>>

\* What GL may draw to is never what the screen shows, and the framebuffer object that
\* it has bound is that of a surface bound to a context (cgl/device.rs:180).
ShownIsNotDrawn ==
    /\ \A s \in widget : Alive(s) =>
          /\ shown[s] # back[s]
          /\ waiting.surface # s /\ status[creator[s]] = "Live" =>
                glTexture[cgl[creator[s]]][name[s]] # <<s, shown[s]>>
    /\ \A g \in Contexts, s \in Surfaces : fbo[g] = s =>
          \E c \in Contexts : cgl[c] = g /\ framebuffer[c] = s

\* While a display link runs its callbacks' condition variable keeps its two references,
\* though each callback makes an Arc of a pointer, and both are gone once it is stopped.
CondCounted == \A s \in Surfaces : arcs[s] = IF link[s] THEN 2 ELSE 0

\* Presenting returns: the wait has no limit, and the wake-up comes from another thread.
PresentReturns == \A s \in Surfaces : waiting.surface = s ~> waiting.surface # s
=============================================================================
