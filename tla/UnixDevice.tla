----------------------------- MODULE UnixDevice -----------------------------
(***************************************************************************)
(* The devices of Unix in one thread: multi dispatches every call to the   *)
(* Wayland, the X11 or the surfaceless device, by the device and by the    *)
(* variants of the objects that the caller passes.                         *)
(*                                                                         *)
(* A thread may have devices of several platforms, each with its own EGL   *)
(* display, but EGL has one current context: the guards and the releases of *)
(* one platform's methods meet the contexts of another.  EglDevice is what *)
(* a method does once it is dispatched.                                    *)
(***************************************************************************)
EXTENDS EglDevice

CONSTANT
    Platforms    \* "wayland", "x11" and "surfaceless", those that are used

ASSUME PlatformsAssumption ==
    Platforms # {} /\ Platforms \subseteq {"wayland", "x11", "surfaceless"}

VARIABLES
    platform,    \* context -> the variant it is wrapped in
    display      \* eglGetCurrentDisplay, if a context is current

unixVars == <<vars, platform, display>>

\* A surface is of the platform of the context it was created with.
PlatformOf(s) == platform[contextOf[s]]

UnixTypeOK ==
    /\ TypeOK
    /\ platform \in [Contexts -> Platforms]
    /\ display \in Platforms

-----------------------------------------------------------------------------
(* Dispatch. *)

\* The arm of the match in which device, context and surface are one platform's.
Same(k, c, s) == platform[c] = k /\ PlatformOf(s) = k

\* Mistake: the guard makes the old context current on its own display.
RestoredOnOwn(k) == k

\* CurrentContextGuard remembers the display that the old context was current on.
Restored(k) == display

\* A method of the device of platform k: what it leaves current that was not so
\* before, it has made current on its display.
On(k, Method) ==
    /\ Method
    /\ display' = IF current' = current THEN Restored(k) ELSE k

Stays == UNCHANGED <<eglVars, contexts, framebuffer, glVars, surfaceVars,
                     unflushed, platform, display>>

\* What was passed stays with the caller, or is handed back with the error.
Refused == MayCall /\ result' = "err" /\ Stays

Dispatch(k, c, Method) ==
    \/ platform[c] = k /\ On(k, Method) /\ UNCHANGED platform
    \/ platform[c] # k /\ c \in contexts /\ Refused

DispatchSurface(k, c, s, Method) ==
    \/ Same(k, c, s) /\ On(k, Method) /\ UNCHANGED platform
    \/ ~Same(k, c, s) /\ c \in contexts /\ Refused

\* The methods that cannot return an error panic instead.
Asked(applicable) ==
    /\ MayCall
    /\ result' = IF applicable THEN "ok" ELSE "panic"
    /\ Stays

-----------------------------------------------------------------------------
(* What differs between the platforms. *)

\* X11 asks EGL for the configuration of the context, and so needs none current.
X11CreateWindowSurface(c, s) ==
    /\ MayCall
    /\ c \in contexts
    /\ place[s] = "absent"
    /\ place' = [place EXCEPT ![s] = "free"]
    /\ window' = window \cup {s}
    /\ contextOf' = [contextOf EXCEPT ![s] = c]
    /\ result' = "ok"
    /\ UNCHANGED <<eglVars, contexts, framebuffer, glVars, fbo, unflushed>>

\* Unsupported on this platform.
SurfacelessCreateWindowSurface(c, s) ==
    /\ MayCall
    /\ c \in contexts
    /\ place[s] = "absent"
    /\ result' = "err"
    /\ UNCHANGED <<eglVars, contexts, framebuffer, glVars, surfaceVars, unflushed>>

CreateWidget(k, c, s) ==
    \/ k = "wayland" /\ CreateWindowSurface(c, s)
    \/ k = "x11" /\ X11CreateWindowSurface(c, s)
    \/ k = "surfaceless" /\ SurfacelessCreateWindowSurface(c, s)

\* On Wayland there must be a native window to resize; elsewhere any surface takes
\* the new size, a generic one too.
Resized(k, s) == k # "wayland" \/ s \in window

-----------------------------------------------------------------------------
(* Contexts. *)

\* The descriptor must be of the device's platform, and share_with, if there is one.
UnixCreateContext(k, c) ==
    \/ /\ On(k, CreateContext(c))
       /\ platform' = [platform EXCEPT ![c] = k]
    \/ Refused

\* So must the native context be.
UnixCreateContextFromNative(k, c) ==
    \/ /\ On(k, CreateContextFromNative(c))
       /\ platform' = [platform EXCEPT ![c] = k]
    \/ Refused

UnixDestroyContext(k, c) == Dispatch(k, c, DestroyContext(c))
UnixMakeContextCurrent(k, c) == Dispatch(k, c, MakeContextCurrent(c))

\* Whichever device is asked, and whichever display the context was current on.
UnixMakeNoContextCurrent(k) ==
    /\ On(k, MakeNoContextCurrent)
    /\ UNCHANGED platform

UnixUnbindSurface(k, c) == Dispatch(k, c, UnbindSurface(c))
UnixPresentBoundSurface(k, c) == Dispatch(k, c, PresentBoundSurface(c))

UnixResizeBoundSurface(k, c) ==
    /\ MayCall
    /\ c \in contexts
    /\ result' = IF /\ platform[c] = k
                    /\ framebuffer[c] \in Surfaces => Resized(k, framebuffer[c])
                 THEN "ok" ELSE "err"
    /\ Stays

ContextSurfaceInfo(k, c) ==
    /\ MayCall
    /\ c \in contexts
    /\ result' = IF platform[c] = k /\ framebuffer[c] # External THEN "ok" ELSE "err"
    /\ Stays

\* The descriptor is read from the context that is current.
UnixContextDescriptor(k, c) == c \in contexts /\ MayGuard /\ Asked(platform[c] = k)
NativeContext(k, c) == c \in contexts /\ Asked(platform[c] = k)
GetProcAddress(k, c) == c \in contexts /\ Asked(platform[c] = k)
ContextId(k, c) == c \in contexts /\ Asked(platform[c] = k)

UnixDraw(c) == Draw(c) /\ UNCHANGED <<platform, display>>

-----------------------------------------------------------------------------
(* Surfaces. *)

\* EGL keeps a surface that is destroyed while it is current, handle and all.
Reusable(s) == drawSurface # s

UnixCreateGenericSurface(k, c, s) ==
    Reusable(s) /\ Dispatch(k, c, CreateGenericSurface(c, s))

\* The native widget, too, must be of the device's platform.
UnixCreateWidgetSurface(k, c, s) ==
    \/ Reusable(s) /\ Dispatch(k, c, CreateWidget(k, c, s))
    \/ c \in contexts /\ Refused

UnixBindSurface(k, c, s) ==
    place[s] = "free" /\ DispatchSurface(k, c, s, BindSurface(c, s))

UnixCreateSurfaceTexture(k, c, s) ==
    place[s] = "free" /\ DispatchSurface(k, c, s, CreateSurfaceTexture(c, s))

UnixDestroySurfaceTexture(k, c, s) ==
    place[s] = "texture" /\ DispatchSurface(k, c, s, DestroySurfaceTexture(c, s))

UnixDestroySurface(k, c, s) ==
    place[s] = "free" /\ DispatchSurface(k, c, s, DestroySurface(c, s))

UnixPresentSurface(k, c, s) ==
    place[s] = "free" /\ DispatchSurface(k, c, s, PresentSurface(c, s))

UnixResizeSurface(k, c, s) ==
    /\ MayCall
    /\ c \in contexts
    /\ place[s] = "free"
    /\ result' = IF Same(k, c, s) /\ Resized(k, s) THEN "ok" ELSE "err"
    /\ Stays

SurfaceInfo(k, s) == place[s] = "free" /\ Asked(PlatformOf(s) = k)
SurfaceTextureObject(k, s) == place[s] = "texture" /\ Asked(PlatformOf(s) = k)

-----------------------------------------------------------------------------
UnixInit ==
    /\ Init
    /\ platform \in [Contexts -> {CHOOSE k \in Platforms : TRUE}]
    /\ display \in {CHOOSE k \in Platforms : TRUE}

\* The context and the surface methods of the Device trait.
OnUnixContext(k, c) ==
    \/ UnixCreateContext(k, c) \/ UnixCreateContextFromNative(k, c)
    \/ UnixDestroyContext(k, c) \/ UnixMakeContextCurrent(k, c)
    \/ UnixUnbindSurface(k, c) \/ UnixPresentBoundSurface(k, c)
    \/ UnixResizeBoundSurface(k, c) \/ ContextSurfaceInfo(k, c)
    \/ UnixContextDescriptor(k, c) \/ NativeContext(k, c)
    \/ GetProcAddress(k, c) \/ ContextId(k, c)

OnUnixSurface(k, c, s) ==
    \/ UnixCreateGenericSurface(k, c, s) \/ UnixCreateWidgetSurface(k, c, s)
    \/ UnixBindSurface(k, c, s)
    \/ UnixCreateSurfaceTexture(k, c, s) \/ UnixDestroySurfaceTexture(k, c, s)
    \/ UnixDestroySurface(k, c, s) \/ UnixPresentSurface(k, c, s)
    \/ UnixResizeSurface(k, c, s)
    \/ SurfaceInfo(k, s) \/ SurfaceTextureObject(k, s)

UnixNext ==
    \/ \E k \in Platforms : UnixMakeNoContextCurrent(k)
    \/ \E c \in Contexts : UnixDraw(c)
    \/ \E k \in Platforms, c \in Contexts : OnUnixContext(k, c)
    \/ \E k \in Platforms, c \in Contexts, s \in Surfaces : OnUnixSurface(k, c, s)

UnixSpec == UnixInit /\ [][UnixNext]_unixVars

-----------------------------------------------------------------------------
(* Properties. *)

\* EGL's current display, context and surface are of one platform, although the
\* methods of every platform make contexts current and restore what was current
\* before, whichever platform that is of.
OneDisplay ==
    current # NoContext =>
       /\ display = platform[current]
       /\ drawSurface \in Surfaces => PlatformOf(drawSurface) = display
=============================================================================
