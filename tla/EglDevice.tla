----------------------------- MODULE EglDevice -----------------------------
(***************************************************************************)
(* The EGL device of one thread (base/egl and the Wayland device, whose    *)
(* methods the X11 and surfaceless devices share): its contexts, the       *)
(* surfaces bound to them, and the state of EGL and GL behind the calls.   *)
(*                                                                         *)
(* EGL has one current context and one current surface per thread, and a GL *)
(* command acts on whichever context is current; each context has its own  *)
(* names for framebuffer objects and its own framebuffer binding.  Contexts *)
(* are local to a thread, so one thread is enough; surfaces that are with  *)
(* other threads are "free" here.                                          *)
(*                                                                         *)
(* Every method is one action.  A definition "Mistake: ..." is used by no  *)
(* action; put in place of the one that follows it, it breaks a property.  *)
(***************************************************************************)
EXTENDS Naturals, FiniteSets

CONSTANTS
    Contexts,    \* contexts of the thread
    Surfaces,    \* surfaces; the bound on how many exist at once
    Names,       \* names of framebuffer objects in a context, 0 not among them
    NoContext,   \* EGL_NO_CONTEXT
    NoSurface,   \* EGL_NO_SURFACE, Framebuffer::None
    Pbuffer,     \* the dummy pbuffer of a context
    External,    \* Framebuffer::External and its surfaces
    Faults,      \* calls that may fail: "create" and "make_current" a context
    Misuse       \* what callers need not, but may do

\* Making no context current is taken never to fail.
\* "none_current": methods are called while no context is current;
\* "destroy_elsewhere": surfaces are destroyed, and contexts that have one bound,
\* while another context or none is current.
ASSUME ContextAssumption == Contexts # {} /\ NoContext \notin Contexts
ASSUME SurfaceAssumption ==
    /\ Surfaces \cap {NoSurface, Pbuffer, External} = {}
    /\ NoSurface # Pbuffer /\ NoSurface # External /\ Pbuffer # External
ASSUME NamesAssumption == Names # {} /\ Names \subseteq Nat \ {0}
ASSUME FaultsAssumption == Faults \subseteq {"create", "make_current"}
ASSUME MisuseAssumption == Misuse \subseteq {"none_current", "destroy_elsewhere"}

VARIABLES
    current,     \* eglGetCurrentContext
    drawSurface, \* eglGetCurrentSurface
    contexts,    \* contexts created and not destroyed
    framebuffer, \* context -> its Framebuffer: none, external or a surface
    fboBound,    \* context -> GL_FRAMEBUFFER_BINDING
    fbos,        \* context -> name -> the surface the object renders to
    place,       \* surface -> where it is
    window,      \* surfaces that are window surfaces, the others are generic
    contextOf,   \* surface -> the context it was created with
    fbo,         \* generic surface -> the name of its framebuffer object
    unflushed,   \* surfaces with drawing commands that no flush has followed
    result       \* outcome of the last call

eglVars == <<current, drawSurface>>
glVars == <<fboBound, fbos>>
surfaceVars == <<place, window, contextOf, fbo>>
vars == <<eglVars, contexts, framebuffer, glVars, surfaceVars, unflushed, result>>

\* A generic surface that exists has the framebuffer object of that name.
Alive(s) == place[s] \in {"free", "bound", "texture"}
Generic(s) == s \notin window

TypeOK ==
    /\ current \in contexts \cup {NoContext}
    /\ drawSurface \in Surfaces \cup {NoSurface, Pbuffer, External}
    /\ contexts \subseteq Contexts
    /\ framebuffer \in [Contexts -> Surfaces \cup {NoSurface, External}]
    /\ fboBound \in [Contexts -> Names \cup {0}]
    /\ fbos \in [Contexts -> [Names -> Surfaces \cup {NoSurface}]]
    /\ place \in [Surfaces -> {"absent", "free", "bound", "texture"}]
    /\ window \subseteq Surfaces
    /\ contextOf \in [Surfaces -> Contexts]
    /\ fbo \in [Surfaces -> Names]
    /\ unflushed \subseteq Surfaces
    /\ result \in {"ok", "err", "panic"}

-----------------------------------------------------------------------------
(* EGL. *)

\* The surface that make_current passes to eglMakeCurrent for a framebuffer.
EglSurface(f) ==
    CASE f = NoSurface -> Pbuffer
      [] f = External -> External
      [] f \in window -> f
      [] OTHER -> NoSurface

Commands(c) == {s \in Surfaces : contextOf[s] = c}

\* eglMakeCurrent flushes a context that stops being current.  One that stays so may
\* be left unflushed, as drivers do.
FlushedFor(c) == IF c = current THEN unflushed ELSE unflushed \ Commands(current)

MakeCurrent(c, d) ==
    /\ current' = c
    /\ drawSurface' = d
    /\ unflushed' = FlushedFor(c)

MayFailMakeCurrent ==
    /\ "make_current" \in Faults
    /\ UNCHANGED <<eglVars, unflushed>>

\* Mistake: the guard is dropped before its time, and restores nothing.
Unguarded(c, d) == MakeCurrent(c, d)

\* CurrentContextGuard around a call that makes c current with d: what was current
\* before is made current again, if anything was, and if that does not fail.
Temporarily(c, d) ==
    /\ unflushed' = FlushedFor(c)
    /\ \/ /\ current # NoContext
          /\ UNCHANGED eglVars
       \/ /\ current = NoContext \/ "make_current" \in Faults
          /\ current' = c
          /\ drawSurface' = d

MayGuard == current # NoContext \/ "none_current" \in Misuse

-----------------------------------------------------------------------------
(* Contexts. *)

MayCall == result # "panic"

\* If it cannot be made current the context is dropped, and its Drop panics.  The
\* model gives c to a new context once no surface of an old one is left.
CreateContext(c) ==
    /\ MayCall
    /\ c \notin contexts
    /\ \A s \in Commands(c) : ~Alive(s)
    /\ \/ /\ contexts' = contexts \cup {c}
          /\ framebuffer' = [framebuffer EXCEPT ![c] = NoSurface]
          /\ fboBound' = [fboBound EXCEPT ![c] = 0]
          /\ fbos' = [fbos EXCEPT ![c] = [n \in Names |-> NoSurface]]
          /\ \/ MakeCurrent(c, Pbuffer) /\ result' = "ok"
             \/ MayFailMakeCurrent /\ result' = "panic"
       \/ /\ "create" \in Faults
          /\ result' = "err"
          /\ UNCHANGED <<eglVars, contexts, framebuffer, glVars, unflushed>>
    /\ UNCHANGED surfaceVars

\* The native context may be one that the application has made current itself.
CreateContextFromNative(c) ==
    /\ MayCall
    /\ c \notin contexts
    /\ \A s \in Commands(c) : ~Alive(s)
    /\ contexts' = contexts \cup {c}
    /\ framebuffer' = [framebuffer EXCEPT ![c] = External]
    /\ fboBound' = [fboBound EXCEPT ![c] = 0]
    /\ fbos' = [fbos EXCEPT ![c] = [n \in Names |-> NoSurface]]
    /\ MakeCurrent(c, External) \/ UNCHANGED <<eglVars, unflushed>>
    /\ result' = "ok"
    /\ UNCHANGED surfaceVars

MakeContextCurrent(c) ==
    /\ MayCall
    /\ c \in contexts
    /\ \/ MakeCurrent(c, EglSurface(framebuffer[c])) /\ result' = "ok"
       \/ MayFailMakeCurrent /\ result' = "err"
    /\ UNCHANGED <<contexts, framebuffer, glVars, surfaceVars>>

MakeNoContextCurrent ==
    /\ MayCall
    /\ MakeCurrent(NoContext, NoSurface)
    /\ result' = "ok"
    /\ UNCHANGED <<contexts, framebuffer, glVars, surfaceVars>>

\* Mistake: the framebuffer object is not deleted.
DestroyLeavesObject(s) == UNCHANGED glVars

\* EGLBackedSurface::destroy: GL acts on the context that is current, if any, and
\* deletes the name of s there, whatever the context of s.
DestroyObjects(s) ==
    \/ /\ Generic(s) /\ current # NoContext
       /\ fboBound' = [fboBound EXCEPT ![current] = 0]
       /\ fbos' = [fbos EXCEPT ![current][fbo[s]] = NoSurface]
    \/ /\ s \in window \/ current = NoContext
       /\ UNCHANGED glVars

\* Mistake: the context stays current.
KeepCurrent(c) == UNCHANGED <<eglVars, unflushed>>

\* EGLBackedContext::destroy releases whichever context is current.
Release(c) == MakeCurrent(NoContext, NoSurface)

\* destroy_context: unbind and destroy the surface, release, destroy.  Whatever
\* context was current, none is afterwards.
DestroyContext(c) ==
    /\ MayCall
    /\ c \in contexts
    /\ \/ framebuffer[c] \notin Surfaces \/ current = c
       \/ "destroy_elsewhere" \in Misuse
    /\ Release(c)
    /\ contexts' = contexts \ {c}
    /\ framebuffer' = [framebuffer EXCEPT ![c] = NoSurface]
    /\ \/ /\ framebuffer[c] \in Surfaces
          /\ place' = [place EXCEPT ![framebuffer[c]] = "absent"]
          /\ DestroyObjects(framebuffer[c])
       \/ /\ framebuffer[c] \notin Surfaces
          /\ UNCHANGED <<place, glVars>>
    /\ result' = "ok"
    /\ UNCHANGED <<window, contextOf, fbo>>

-----------------------------------------------------------------------------
(* Surfaces. *)

\* create_surface for a generic surface.  Its framebuffer object stays bound.
CreateGenericSurface(c, s) ==
    /\ MayCall
    /\ MayGuard
    /\ c \in contexts
    /\ place[s] = "absent"
    /\ \/ \E n \in Names :
             /\ fbos[c][n] = NoSurface
             /\ fbos' = [fbos EXCEPT ![c][n] = s]
             /\ fboBound' = [fboBound EXCEPT ![c] = n]
             /\ fbo' = [fbo EXCEPT ![s] = n]
             /\ place' = [place EXCEPT ![s] = "free"]
             /\ window' = window \ {s}
             /\ contextOf' = [contextOf EXCEPT ![s] = c]
             /\ Temporarily(c, EglSurface(framebuffer[c]))
             /\ result' = "ok"
       \/ /\ MayFailMakeCurrent
          /\ result' = "err"
          /\ UNCHANGED <<glVars, fbo, place, window, contextOf>>
    /\ UNCHANGED <<contexts, framebuffer>>

CreateWindowSurface(c, s) ==
    /\ MayCall
    /\ MayGuard
    /\ c \in contexts
    /\ place[s] = "absent"
    /\ place' = [place EXCEPT ![s] = "free"]
    /\ window' = window \cup {s}
    /\ contextOf' = [contextOf EXCEPT ![s] = c]
    /\ result' = "ok"
    /\ UNCHANGED <<eglVars, contexts, framebuffer, glVars, fbo, unflushed>>

\* Mistake: the surface is bound and EGL not told.
BindOnly(c, s) == UNCHANGED <<eglVars, unflushed>>

\* bind_surface makes a current context current again, and drops the error.
Rebind(c, s) ==
    \/ current = c /\ MakeCurrent(c, EglSurface(s))
    \/ current = c /\ MayFailMakeCurrent
    \/ current # c /\ UNCHANGED <<eglVars, unflushed>>

BindSurface(c, s) ==
    /\ MayCall
    /\ c \in contexts
    /\ place[s] = "free"
    /\ \/ /\ contextOf[s] = c
          /\ framebuffer[c] = NoSurface
          /\ framebuffer' = [framebuffer EXCEPT ![c] = s]
          /\ place' = [place EXCEPT ![s] = "bound"]
          /\ Rebind(c, s)
          /\ result' = "ok"
       \/ /\ contextOf[s] # c \/ framebuffer[c] # NoSurface
          /\ result' = "err"
          /\ UNCHANGED <<eglVars, framebuffer, place, unflushed>>
    /\ UNCHANGED <<contexts, glVars, window, contextOf, fbo>>

\* Mistake: no flush.
NoFlush(c) == unflushed

\* gl.flush(), which concerns the context that is current.
Flushed(c) == unflushed \ Commands(current)

UnbindSurface(c) ==
    /\ MayCall
    /\ c \in contexts
    /\ unflushed' = Flushed(c)
    /\ \/ \E s \in Surfaces :
             /\ framebuffer[c] = s
             /\ framebuffer' = [framebuffer EXCEPT ![c] = NoSurface]
             /\ place' = [place EXCEPT ![s] = "free"]
             /\ \/ current = c /\ drawSurface' = NoSurface
                \/ /\ current # c \/ "make_current" \in Faults
                   /\ UNCHANGED drawSurface
             /\ fboBound' = [fboBound EXCEPT ![c] =
                   IF current = c /\ Generic(s) /\ @ = fbo[s] THEN 0 ELSE @]
             /\ result' = "ok"
       \/ /\ framebuffer[c] \notin Surfaces
          /\ result' = IF framebuffer[c] = External THEN "err" ELSE "ok"
          /\ UNCHANGED <<framebuffer, place, drawSurface, fboBound>>
    /\ UNCHANGED <<current, contexts, fbos, window, contextOf, fbo>>

\* The application draws to the bound surface as the documentation says it must: it
\* binds the framebuffer object of the surface first, if there still is one.
Draw(c) ==
    /\ MayCall
    /\ current = c
    /\ \E s \in Surfaces :
          /\ framebuffer[c] = s
          /\ Generic(s) => fbos[c][fbo[s]] # NoSurface
          /\ fboBound' = [fboBound EXCEPT ![c] = IF Generic(s) THEN fbo[s] ELSE 0]
          /\ unflushed' = unflushed \cup {s}
    /\ result' = "ok"
    /\ UNCHANGED <<eglVars, contexts, framebuffer, fbos, surfaceVars>>

\* EGLBackedSurface::present.  eglSwapBuffers may fail and is not counted as a flush.
Present(c, s) ==
    \/ /\ s \in window
       /\ \/ Temporarily(c, s) /\ result' \in {"ok", "err"}
          \/ MayFailMakeCurrent /\ result' = "err"
    \/ /\ Generic(s)
       /\ result' = "err"
       /\ UNCHANGED <<eglVars, unflushed>>

PresentBoundSurface(c) ==
    /\ MayCall
    /\ MayGuard
    /\ c \in contexts
    /\ \/ framebuffer[c] \in Surfaces /\ Present(c, framebuffer[c])
       \/ /\ framebuffer[c] \notin Surfaces
          /\ result' = "ok"
          /\ UNCHANGED <<eglVars, unflushed>>
    /\ UNCHANGED <<contexts, framebuffer, glVars, surfaceVars>>

PresentSurface(c, s) ==
    /\ MayCall
    /\ MayGuard
    /\ c \in contexts
    /\ place[s] = "free"
    /\ Present(c, s)
    /\ UNCHANGED <<contexts, framebuffer, glVars, surfaceVars>>

\* Any context may read a surface through a texture.
CreateSurfaceTexture(c, s) ==
    /\ MayCall
    /\ MayGuard
    /\ c \in contexts
    /\ place[s] = "free"
    /\ \/ /\ Generic(s)
          /\ Temporarily(c, EglSurface(framebuffer[c]))
          /\ place' = [place EXCEPT ![s] = "texture"]
          /\ result' = "ok"
       \/ /\ \/ s \in window /\ Temporarily(c, EglSurface(framebuffer[c]))
             \/ MayFailMakeCurrent
          /\ result' = "err"
          /\ UNCHANGED place
    /\ UNCHANGED <<contexts, framebuffer, glVars, window, contextOf, fbo>>

DestroySurfaceTexture(c, s) ==
    /\ MayCall
    /\ MayGuard
    /\ c \in contexts
    /\ place[s] = "texture"
    /\ \/ /\ Temporarily(c, EglSurface(framebuffer[c]))
          /\ place' = [place EXCEPT ![s] = "free"]
          /\ result' = "ok"
       \/ /\ MayFailMakeCurrent
          /\ result' = "err"
          /\ UNCHANGED place
    /\ UNCHANGED <<contexts, framebuffer, glVars, window, contextOf, fbo>>

DestroySurface(c, s) ==
    /\ MayCall
    /\ c \in contexts
    /\ place[s] = "free"
    /\ Generic(s) => current = c \/ "destroy_elsewhere" \in Misuse
    /\ \/ /\ contextOf[s] = c
          /\ DestroyObjects(s)
          /\ place' = [place EXCEPT ![s] = "absent"]
          /\ result' = "ok"
       \/ /\ contextOf[s] # c
          /\ result' = "err"
          /\ UNCHANGED <<glVars, place>>
    /\ UNCHANGED <<eglVars, contexts, framebuffer, window, contextOf, fbo,
                   unflushed>>

-----------------------------------------------------------------------------
Init ==
    /\ current = NoContext
    /\ drawSurface = NoSurface
    /\ contexts = {}
    /\ framebuffer = [c \in Contexts |-> NoSurface]
    /\ fboBound = [c \in Contexts |-> 0]
    /\ fbos = [c \in Contexts |-> [n \in Names |-> NoSurface]]
    /\ place = [s \in Surfaces |-> "absent"]
    /\ window = {}
    /\ contextOf \in [Surfaces -> {CHOOSE c \in Contexts : TRUE}]
    /\ fbo \in [Surfaces -> {CHOOSE n \in Names : TRUE}]
    /\ unflushed = {}
    /\ result = "ok"

OnContext(c) ==
    \/ CreateContext(c) \/ CreateContextFromNative(c) \/ MakeContextCurrent(c)
    \/ DestroyContext(c) \/ UnbindSurface(c) \/ Draw(c) \/ PresentBoundSurface(c)

OnSurface(c, s) ==
    \/ CreateGenericSurface(c, s) \/ CreateWindowSurface(c, s)
    \/ BindSurface(c, s) \/ PresentSurface(c, s)
    \/ CreateSurfaceTexture(c, s) \/ DestroySurfaceTexture(c, s)
    \/ DestroySurface(c, s)

Next ==
    \/ MakeNoContextCurrent
    \/ \E c \in Contexts : OnContext(c) \/ \E s \in Surfaces : OnSurface(c, s)

Spec == Init /\ [][Next]_vars

-----------------------------------------------------------------------------
(* Properties. *)

\* A context's framebuffer objects are exactly those of its surfaces: no call on
\* one surface deletes, takes over or leaks the object of another, although names
\* are reused and each context has its own.
OwnFramebuffers ==
    \A c \in contexts, n \in Names, s \in Surfaces :
        fbos[c][n] = s <=> /\ Alive(s) /\ Generic(s)
                           /\ contextOf[s] = c /\ fbo[s] = n

\* "Any pending OpenGL commands targeting this surface will be automatically
\* flushed, so the surface is safe to read from immediately" when unbind returns
\* (wayland/device.rs:259), although unbind flushes whichever context is current.
FlushedWhenUnbound == \A s \in unflushed : place[s] = "bound"

\* The surface EGL draws to is that of the current context: what bind, unbind, the
\* guards and the making and unmaking of contexts leave behind is consistent.
CurrentShowsFramebuffer ==
    current # NoContext =>
       \/ drawSurface = EglSurface(framebuffer[current])
       \/ framebuffer[current] = NoSurface /\ drawSurface = NoSurface

\* destroy_surface also destroys the wl_egl_window, which EGL must not have in use.
WindowOutlivesUse == drawSurface \in Surfaces => Alive(drawSurface)

\* Methods that take a context "temporarily" give the thread its current context
\* back: only creating and destroying contexts, and the methods for it, change it.
CurrentComesBack ==
    [][\A c \in Contexts, s \in Surfaces :
          OnSurface(c, s) \/ PresentBoundSurface(c) => current' = current]_vars
=============================================================================
