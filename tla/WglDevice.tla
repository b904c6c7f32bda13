----------------------------- MODULE WglDevice -----------------------------
(***************************************************************************)
(* One thread's contexts and surfaces on WGL (wgl/device.rs, context.rs,   *)
(* surface.rs).  A generic surface is a Direct3D texture that GL sees      *)
(* through an interop object, which must be locked while GL uses it; a     *)
(* widget surface is a window, whose device context must be current        *)
(* together with the HGLRC while the surface is bound.  A context without  *)
(* a widget bound uses the device context of its own hidden window.        *)
(*                                                                         *)
(* A method is one action.  wglMakeCurrent sets a pair, HGLRC and device   *)
(* context, and CurrentContextGuard puts back the pair it found.  Sizes,   *)
(* pixel formats and renderbuffers are left out; the windows' threads, the *)
(* extension loader and the device itself are in HiddenWindows.             *)
(***************************************************************************)
EXTENDS Naturals, FiniteSets

CONSTANTS
    Contexts, Surfaces,
    Names,          \* GL texture names; each HGLRC has its own
    NoContext, NoSurface, NoName,
    External,       \* Framebuffer::External, and the window of no one
    Faults,         \* system calls that may fail
    Misuse          \* calls the API accepts although the documentation
                    \* asks the application not to make them

SystemCalls == {"create", "register", "import", "make_current"}

\* "unbind_external": the framebuffer of a wrapped native context is unbound;
\* "outlived": a context is destroyed while another wraps its HGLRC;
\* "texture_elsewhere": a texture is destroyed with a context not its own.
Misuses == {"unbind_external", "outlived", "texture_elsewhere"}

VARIABLES
    status,       \* context -> ContextStatus, "Absent" before it exists
    glrc,         \* context -> the context whose HGLRC it holds
    framebuffer,  \* context -> Framebuffer
    current,      \* [glrc, dc]: what wglGetCurrentContext and DC return
    textures,     \* HGLRC -> names of its GL textures
    fbo,          \* HGLRC -> the surface whose framebuffer object is bound
    place,        \* surface -> where it is
    widget,       \* surfaces that are windows
    creator,      \* surface -> its context_id, NoContext when there is no surface
    name,         \* surface -> gl_texture, NoName unless it is generic
    locked,       \* surfaces whose own interop object is locked
    reader,       \* surface -> [context, name] of its SurfaceTexture, if it has one
    result        \* outcome of the last call

surfaceVars == <<place, widget, creator, name, locked, reader>>
contextVars == <<status, glrc, framebuffer>>
glVars == <<textures, fbo>>
vars == <<contextVars, current, glVars, surfaceVars, result>>

Alive(s) == place[s] \in {"free", "bound", "texture"}
Generic(s) == s \notin widget
NoReader == [context |-> NoContext, name |-> NoName]
NoneCurrent == [glrc |-> NoContext, dc |-> External]

-----------------------------------------------------------------------------
(* Making contexts current. *)

\* A panic ends the thread.
MayCall(c) == status[c] \in {"Owned", "Referenced"} /\ result # "panic"

\* get_context_dc: a bound widget's window, else the hidden window.
ContextDc(c) == IF framebuffer[c] \in widget THEN framebuffer[c] ELSE c

Of(c) == [glrc |-> glrc[c], dc |-> ContextDc(c)]

IsCurrent(c) == current.glrc = glrc[c]

MayFailMakeCurrent == "make_current" \in Faults /\ UNCHANGED current

MakeContextCurrent(c) ==
    /\ MayCall(c)
    /\ \/ current' = Of(c) /\ result' = "ok"
       \/ MayFailMakeCurrent /\ result' = "err"
    /\ UNCHANGED <<contextVars, glVars, surfaceVars>>

MakeNoContextCurrent ==
    /\ result # "panic"
    /\ \/ current' = NoneCurrent /\ result' = "ok"
       \/ MayFailMakeCurrent /\ result' = "err"
    /\ UNCHANGED <<contextVars, glVars, surfaceVars>>

\* CurrentContextGuard::drop, which ends every temporary switch.
GuardRestores == UNCHANGED current

\* temporarily_make_context_current(c) refused: the method returns the error.
Refused ==
    /\ MayFailMakeCurrent
    /\ result' = "err"
    /\ UNCHANGED <<contextVars, glVars, surfaceVars>>

-----------------------------------------------------------------------------
(* Contexts. *)

\* The HGLRC is made current to load the GL functions, under a guard.
CreateContext(c) ==
    /\ status[c] = "Absent" /\ result # "panic"
    /\ GuardRestores
    /\ \/ /\ status' = [status EXCEPT ![c] = "Owned"]
          /\ result' = "ok"
       \/ "create" \in Faults /\ result' = "err" /\ UNCHANGED status
    /\ UNCHANGED <<glrc, framebuffer, glVars, surfaceVars>>

\* Wraps the HGLRC of another context of this thread.
CreateContextFromNative(c, d) ==
    /\ status[c] = "Absent" /\ MayCall(d)
    /\ GuardRestores
    /\ status' = [status EXCEPT ![c] = "Referenced"]
    /\ glrc' = [glrc EXCEPT ![c] = glrc[d]]
    /\ framebuffer' = [framebuffer EXCEPT ![c] = External]
    /\ result' = "ok"
    /\ UNCHANGED <<glVars, surfaceVars>>

\* Renderbuffers, framebuffer object and texture are deleted in the HGLRC that is
\* current under the guard, and the interop object is unregistered.
DeleteObjects(s, g) ==
    \/ /\ Generic(s)
       /\ textures' = [textures EXCEPT ![g] = @ \ {name[s]}]
       /\ fbo' = [fbo EXCEPT ![g] = IF @ = s THEN NoSurface ELSE @]
    \/ s \in widget /\ UNCHANGED glVars

\* Mistake: unlocking is left to destroy_surface.
StillLocked(s) == UNCHANGED locked

UnlockSurface(s) == locked' = locked \ {s}

Forget(c) ==
    /\ status' = [status EXCEPT ![c] = "Destroyed"]
    /\ framebuffer' = [framebuffer EXCEPT ![c] = NoSurface]
    /\ current' = IF IsCurrent(c) THEN NoneCurrent ELSE current

\* surface.destroyed = true: nothing reads its fields any more.
Gone(s, where) ==
    /\ place' = [place EXCEPT ![s] = where]
    /\ creator' = [creator EXCEPT ![s] = NoContext]
    /\ name' = [name EXCEPT ![s] = NoName]
    /\ widget' = widget \ {s}

\* Unbind, destroy what was bound, release if current.  An external framebuffer's
\* error is ignored.  When destroying fails the surface is dropped, which panics.
DestroyContext(c) ==
    /\ result # "panic"
    /\ \/ "outlived" \in Misuse \/ status[c] # "Owned"
       \/ \A d \in Contexts \ {c} : MayCall(d) => glrc[d] # glrc[c]
    /\ \/ /\ status[c] = "Destroyed"
          /\ result' = "ok"
          /\ UNCHANGED <<contextVars, current, glVars, surfaceVars>>
       \/ /\ MayCall(c)
          /\ framebuffer[c] \notin Surfaces
          /\ Forget(c)
          /\ result' = "ok"
          /\ UNCHANGED <<glrc, glVars, surfaceVars>>
       \/ \E s \in Surfaces :
             /\ MayCall(c)
             /\ framebuffer[c] = s
             /\ UnlockSurface(s)
             /\ \/ /\ Forget(c)
                   /\ DeleteObjects(s, glrc[c])
                   /\ Gone(s, "absent")
                   /\ result' = "ok"
                \/ /\ MayFailMakeCurrent
                   /\ framebuffer' = [framebuffer EXCEPT ![c] = NoSurface]
                   /\ Gone(s, "lost")
                   /\ result' = "panic"
                   /\ UNCHANGED <<status, glVars>>
             /\ UNCHANGED <<glrc, reader>>

-----------------------------------------------------------------------------
(* Binding and presenting. *)

LockSurface(s) == locked' = IF Generic(s) THEN locked \cup {s} ELSE locked

\* Mistake: EGL-like back ends need not do it, so it is left out.
NoRebind(c, s) == UNCHANGED current

\* A current context is made current again, with the new surface's window.
Rebind(c, s) ==
    \/ IsCurrent(c) /\ current' = [glrc |-> glrc[c],
                                   dc |-> IF s \in widget THEN s ELSE c]
    \/ IsCurrent(c) /\ MayFailMakeCurrent
    \/ ~IsCurrent(c) /\ UNCHANGED current

BindSurface(c, s) ==
    /\ MayCall(c)
    /\ place[s] = "free"
    /\ \/ /\ creator[s] = c /\ framebuffer[c] = NoSurface
          /\ LockSurface(s)
          /\ framebuffer' = [framebuffer EXCEPT ![c] = s]
          /\ place' = [place EXCEPT ![s] = "bound"]
          /\ Rebind(c, s)
          /\ result' = "ok"
       \/ /\ creator[s] # c \/ framebuffer[c] # NoSurface
          /\ result' = "err"
          /\ UNCHANGED <<locked, framebuffer, place, current>>
    /\ UNCHANGED <<status, glrc, glVars, widget, creator, name, reader>>

\* The framebuffer is taken out before it is looked at: an external one is gone
\* although the error says that nothing was done.
UnbindSurface(c) ==
    /\ MayCall(c)
    /\ framebuffer[c] = External => "unbind_external" \in Misuse
    /\ framebuffer' = [framebuffer EXCEPT ![c] = NoSurface]
    /\ \/ \E s \in Surfaces :
             /\ framebuffer[c] = s
             /\ UnlockSurface(s)
             /\ place' = [place EXCEPT ![s] = "free"]
             /\ result' = "ok"
       \/ /\ framebuffer[c] \notin Surfaces
          /\ result' = IF framebuffer[c] = External THEN "err" ELSE "ok"
          /\ UNCHANGED <<locked, place>>
    /\ UNCHANGED <<status, glrc, current, glVars, widget, creator, name, reader>>

\* Surface::present needs no context: SwapBuffers acts on the window.
Present(s) == result' = IF s \in widget THEN "ok" ELSE "err"

PresentBoundSurface(c) ==
    /\ MayCall(c)
    /\ \/ framebuffer[c] \in Surfaces /\ Present(framebuffer[c])
       \/ framebuffer[c] \notin Surfaces /\ result' = "ok"
    /\ UNCHANGED <<contextVars, current, glVars, surfaceVars>>

PresentSurface(c, s) ==
    /\ MayCall(c)
    /\ place[s] = "free"
    /\ Present(s)
    /\ UNCHANGED <<contextVars, current, glVars, surfaceVars>>

\* The application binds the framebuffer object of its bound surface to draw.
Draw(c) ==
    /\ MayCall(c) /\ IsCurrent(c)
    /\ framebuffer[c] \in Surfaces
    /\ fbo' = [fbo EXCEPT ![glrc[c]] =
                  IF Generic(framebuffer[c]) THEN framebuffer[c] ELSE NoSurface]
    /\ result' = "ok"
    /\ UNCHANGED <<contextVars, current, textures, surfaceVars>>

-----------------------------------------------------------------------------
(* Surfaces. *)

Made(s, c, n) ==
    /\ place' = [place EXCEPT ![s] = "free"]
    /\ creator' = [creator EXCEPT ![s] = c]
    /\ name' = [name EXCEPT ![s] = n]
    /\ result' = "ok"

\* FramebufferGuard::drop, before the context guard's.
BindingRestored(c, s) == UNCHANGED fbo

\* If the texture cannot be registered with Direct3D its name is leaked.
CreateGenericSurface(c, s) ==
    /\ MayCall(c)
    /\ place[s] = "absent" /\ current.dc # s
    /\ \/ \E n \in Names \ textures[glrc[c]] :
             /\ textures' = [textures EXCEPT ![glrc[c]] = @ \cup {n}]
             /\ GuardRestores
             /\ \/ /\ Made(s, c, n)
                   /\ widget' = widget \ {s}
                   /\ BindingRestored(c, s)
                \/ /\ "register" \in Faults
                   /\ result' = "err"
                   /\ UNCHANGED <<place, creator, name, widget, fbo>>
             /\ UNCHANGED <<contextVars, locked, reader>>
       \/ /\ "create" \in Faults
          /\ result' = "err"
          /\ UNCHANGED <<contextVars, current, glVars, surfaceVars>>
       \/ Refused

\* Takes the pixel format of the context's device context; no context is needed.
CreateWidgetSurface(c, s) ==
    /\ MayCall(c)
    /\ place[s] = "absent" /\ current.dc # s
    /\ \/ Made(s, c, NoName) /\ widget' = widget \cup {s}
       \/ /\ "create" \in Faults /\ result' = "err"
          /\ UNCHANGED <<place, creator, name, widget>>
    /\ UNCHANGED <<contextVars, current, glVars, locked, reader>>

\* Mistake: the surface's own context is not made current.
DeletedInCurrent(c) == IF current.glrc = NoContext THEN c ELSE current.glrc

\* The HGLRC in which a guarded method deletes GL objects.
DeletedIn(c) == glrc[c]

DestroySurface(c, s) ==
    /\ MayCall(c)
    /\ place[s] = "free"
    /\ \/ /\ creator[s] = c
          /\ GuardRestores
          /\ DeleteObjects(s, DeletedIn(c))
          /\ Gone(s, "absent")
          /\ result' = "ok"
          /\ UNCHANGED <<contextVars, locked, reader>>
       \/ /\ creator[s] # c
          /\ result' = "err"
          /\ UNCHANGED <<contextVars, current, glVars, surfaceVars>>
       \/ creator[s] = c /\ Refused

\* Any context may read s: it gets a texture name and an interop object of its own,
\* which stays locked until the texture is destroyed.
CreateSurfaceTexture(c, s) ==
    /\ MayCall(c)
    /\ place[s] = "free"
    /\ \/ /\ Generic(s)
          /\ GuardRestores
          /\ \E n \in Names \ textures[glrc[c]] :
                /\ textures' = [textures EXCEPT ![glrc[c]] = @ \cup {n}]
                /\ reader' = [reader EXCEPT ![s] = [context |-> c, name |-> n]]
          /\ place' = [place EXCEPT ![s] = "texture"]
          /\ result' = "ok"
          /\ UNCHANGED <<contextVars, fbo, widget, creator, name, locked>>
       \/ /\ s \in widget \/ "import" \in Faults
          /\ result' = "err"
          /\ UNCHANGED <<contextVars, current, glVars, surfaceVars>>
       \/ Generic(s) /\ Refused

\* Nothing compares c with the context the texture was created with.
DestroySurfaceTexture(c, s) ==
    /\ MayCall(c)
    /\ place[s] = "texture"
    /\ reader[s].context = c \/ "texture_elsewhere" \in Misuse
    /\ \/ /\ GuardRestores
          /\ textures' = [textures EXCEPT ![DeletedIn(c)] = @ \ {reader[s].name}]
          /\ place' = [place EXCEPT ![s] = "free"]
          /\ reader' = [reader EXCEPT ![s] = NoReader]
          /\ result' = "ok"
          /\ UNCHANGED <<contextVars, fbo, widget, creator, name, locked>>
       \/ Refused

-----------------------------------------------------------------------------
Init ==
    /\ status = [c \in Contexts |-> "Absent"]
    /\ glrc = [c \in Contexts |-> c]
    /\ framebuffer = [c \in Contexts |-> NoSurface]
    /\ current = NoneCurrent
    /\ textures = [c \in Contexts |-> {}]
    /\ fbo = [c \in Contexts |-> NoSurface]
    /\ place = [s \in Surfaces |-> "absent"]
    /\ widget = {}
    /\ creator = [s \in Surfaces |-> NoContext]
    /\ name = [s \in Surfaces |-> NoName]
    /\ locked = {}
    /\ reader = [s \in Surfaces |-> NoReader]
    /\ result = "ok"

\* The methods that may be called with a context and a surface.
OnSurface(c, s) ==
    \/ CreateGenericSurface(c, s) \/ CreateWidgetSurface(c, s)
    \/ DestroySurface(c, s) \/ PresentSurface(c, s)
    \/ CreateSurfaceTexture(c, s) \/ DestroySurfaceTexture(c, s)

OnContext(c) ==
    \/ CreateContext(c) \/ \E d \in Contexts : CreateContextFromNative(c, d)
    \/ DestroyContext(c) \/ UnbindSurface(c)
    \/ \E s \in Surfaces : BindSurface(c, s)

Next ==
    \/ MakeNoContextCurrent
    \/ \E c \in Contexts :
          \/ MakeContextCurrent(c) \/ PresentBoundSurface(c) \/ Draw(c)
          \/ OnContext(c)
          \/ \E s \in Surfaces : OnSurface(c, s)

-----------------------------------------------------------------------------
(* Properties. *)

\* GL may touch a shared Direct3D texture only while its interop object is locked:
\* a surface's own object is locked exactly while the surface is bound, on every
\* way it can stop being bound (wgl/device.rs:682, 698, 487).
LockedWhileBound ==
    \A s \in Surfaces :
        s \in locked <=> Generic(s) /\ \E c \in Contexts : framebuffer[c] = s

Reads(c, s, n) == place[s] = "texture" /\ reader[s] = [context |-> c, name |-> n]
Renders(c, s, n) ==
    Alive(s) /\ Generic(s) /\ creator[s] = c /\ name[s] = n

\* Every surface created with an HGLRC, and every surface texture read through it, has
\* a GL texture name of that HGLRC to itself until it is destroyed: deleting one,
\* whichever context is current, never takes the name of another away.
NamesOwned ==
    \A c, d \in {e \in Contexts : MayCall(e)}, s, t \in Surfaces, n, o \in Names :
        /\ Renders(c, s, n) => n \in textures[glrc[c]]
        /\ Reads(c, s, n) => n \in textures[glrc[c]]
        /\ glrc[c] = glrc[d] /\ n = o =>
              /\ Renders(c, s, n) /\ Renders(d, t, o) => s = t
              /\ Reads(c, s, n) /\ Reads(d, t, o) => s = t
              /\ ~(Renders(c, s, n) /\ Reads(d, t, o))

\* While a widget surface is bound to the current context, what is drawn goes to
\* its window: binding, temporary switches and destroying keep the pair in step.
\* Two contexts that wrap one HGLRC each use a window of their own.
CurrentDrawsToWidget ==
    \A c \in Contexts :
        /\ MayCall(c) /\ IsCurrent(c) /\ framebuffer[c] \in widget
        /\ \A d \in Contexts \ {c} : MayCall(d) => glrc[d] # glrc[c]
        => current.dc = framebuffer[c]
=============================================================================
