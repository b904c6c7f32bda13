---------------------------- MODULE AngleDevice ----------------------------
(***************************************************************************)
(* The ANGLE back end (angle/device.rs, context.rs, surface.rs) on several *)
(* threads.  Contexts stay on their thread; surfaces move between threads. *)
(* A generic surface is a pbuffer on a Direct3D texture, which a keyed     *)
(* mutex guards if ANGLE was built with them: binding the surface acquires *)
(* it, and so does the local pbuffer of a surface texture.  AcquireSync    *)
(* waits without a limit.  The ids of contexts come from one counter of    *)
(* the process.                                                            *)
(*                                                                         *)
(* A method is one action, in the thread of the context it is given.  GL   *)
(* texture names and sizes are left out.                                   *)
(***************************************************************************)
EXTENDS Naturals, FiniteSets

CONSTANTS
    Threads, Contexts, Surfaces,
    NoContext, NoSurface, External,
    MaxId,      \* bound on the id counter
    Faults,     \* calls that may fail
    Misuse      \* calls the API accepts although it should not be given them

\* "bind_tex_image": eglBindTexImage, after the mutex has been acquired.
SystemCalls == {"create", "make_current", "import", "bind_tex_image"}

\* "reuse_wrapped": a surface is used after the texture that
\* create_surface_texture_from_texture made of it is destroyed.
Misuses == {"reuse_wrapped"}

ASSUME ThreadsAssumption == Threads # {}
ASSUME FaultsAssumption == Faults \subseteq SystemCalls
ASSUME MisuseAssumption == Misuse \subseteq Misuses
ASSUME MaxIdAssumption == MaxId \in Nat
ASSUME DistinctAssumption ==
    /\ NoContext \notin Contexts
    /\ NoSurface \notin Surfaces /\ External \notin Surfaces
    /\ External # NoSurface

VARIABLES
    status,       \* context -> "Absent", "Owned", "Wrapped" or "Destroyed"
    thread,       \* context -> the thread it belongs to
    id,           \* context -> its ContextID
    nextId,       \* CREATE_CONTEXT_MUTEX
    framebuffer,  \* context -> its Framebuffer
    current,      \* thread -> [context, surface] that EGL has current there
    place,        \* surface -> where it is
    sync,         \* surface -> its Synchronization, "Window" for a window
    creator,      \* surface -> its context_id
    dead,         \* surfaces whose EGLSurface is destroyed already
    mutex,        \* keyed mutex of a surface's texture -> who holds it
    stopped,      \* thread -> why it makes no more calls, "no" while it does
    result        \* outcome of the last call

contextVars == <<status, thread, id, nextId, framebuffer>>
surfaceVars == <<place, sync, creator, dead, mutex>>
vars == <<contextVars, current, surfaceVars, stopped, result>>

Kinds == {"Window", "KeyedMutex", "GLFinish", "None"}
NoneCurrent == [context |-> NoContext, surface |-> NoSurface]
Exists(c) == status[c] \in {"Owned", "Wrapped"}

\* No context of a thread is current in another, and none after it is destroyed.
TypeOK ==
    /\ status \in [Contexts -> {"Absent", "Owned", "Wrapped", "Destroyed"}]
    /\ thread \in [Contexts -> Threads]
    /\ id \in [Contexts -> 0..MaxId]
    /\ nextId \in 0..MaxId
    /\ framebuffer \in [Contexts -> Surfaces \cup {NoSurface, External}]
    /\ current \in [Threads -> [context : Contexts \cup {NoContext},
                                surface : Surfaces \cup {NoSurface, External}]]
    /\ \A t \in Threads : current[t].context # NoContext =>
          Exists(current[t].context) /\ thread[current[t].context] = t
    /\ place \in [Surfaces -> {"absent", "free", "bound", "texture",
                               "own_texture", "lost"}]
    /\ sync \in [Surfaces -> Kinds]
    /\ creator \in [Surfaces -> 0..MaxId]
    /\ dead \subseteq Surfaces
    /\ mutex \in [Surfaces -> {"nobody", "renderer", "reader"}]
    /\ stopped \in [Threads -> {"no", "panic", "waits"}]
    /\ result \in {"ok", "err"}

-----------------------------------------------------------------------------
(* EGL and the keyed mutex. *)

\* A thread that panicked, or waits for a mutex, makes no more calls.
Runs(t) == stopped[t] = "no"
MayCall(c) == Exists(c) /\ Runs(thread[c])

Returns(r) == result' = r /\ UNCHANGED stopped

Stops(t, why) == stopped' = [stopped EXCEPT ![t] = why] /\ UNCHANGED result

IsCurrent(c) == current[thread[c]].context = c

Switched(t, c, s) == [current EXCEPT ![t] = [context |-> c, surface |-> s]]

MayFailMakeCurrent == "make_current" \in Faults

\* eglMakeCurrent with no context.
Nothing(t) == [current EXCEPT ![t] = NoneCurrent]

\* What is current after temporarily_make_context_current(c) and its guard: as before
\* if anything was current, else c stays.  Its error is ignored.
AfterGuard(c) ==
    IF current[thread[c]].context = NoContext
    THEN {Switched(thread[c], c, framebuffer[c])}
            \cup {now \in {current} : MayFailMakeCurrent}
    ELSE {current}

Keyed(s) == sync[s] = "KeyedMutex"
Free(s) == ~Keyed(s) \/ mutex[s] = "nobody"

\* AcquireSync(0, INFINITE) by a holder, once the mutex is free.
Acquire(s, holder) ==
    /\ Free(s)
    /\ mutex' = IF Keyed(s) THEN [mutex EXCEPT ![s] = holder] ELSE mutex

\* Mistake: the mutex is left to the next user.
KeepMutex(s) == UNCHANGED mutex

Release(s) == mutex' = [mutex EXCEPT ![s] = "nobody"]

-----------------------------------------------------------------------------
(* Contexts. *)

\* Mistake: the counter is not advanced when the context is given its id.
SameIdAgain == UNCHANGED nextId

TakeId == nextId' = nextId + 1

\* The id is the counter after it is advanced.  An id is used up, and the EGL context
\* leaked, if the context cannot be made current.
CreateContext(t, c) ==
    /\ Runs(t)
    /\ status[c] = "Absent" /\ nextId < MaxId
    /\ \/ /\ TakeId
          /\ \/ /\ status' = [status EXCEPT ![c] = "Owned"]
                /\ thread' = [thread EXCEPT ![c] = t]
                /\ id' = [id EXCEPT ![c] = nextId']
                /\ framebuffer' = [framebuffer EXCEPT ![c] = NoSurface]
                /\ current' = Switched(t, c, NoSurface)
                /\ Returns("ok")
             \/ /\ MayFailMakeCurrent
                /\ Returns("err")
                /\ UNCHANGED <<status, thread, id, framebuffer, current>>
       \/ /\ "create" \in Faults
          /\ Returns("err")
          /\ UNCHANGED <<contextVars, current>>
    /\ UNCHANGED surfaceVars

\* Here the id is the counter before it is advanced: the last that CreateContext gave.
CreateContextFromNative(t, c) ==
    /\ Runs(t)
    /\ status[c] = "Absent" /\ nextId < MaxId
    /\ TakeId
    /\ status' = [status EXCEPT ![c] = "Wrapped"]
    /\ thread' = [thread EXCEPT ![c] = t]
    /\ id' = [id EXCEPT ![c] = nextId]
    /\ framebuffer' = [framebuffer EXCEPT ![c] = External]
    /\ Returns("ok")
    /\ UNCHANGED <<current, surfaceVars>>

MakeContextCurrent(c) ==
    /\ MayCall(c)
    /\ \/ current' = Switched(thread[c], c, framebuffer[c]) /\ Returns("ok")
       \/ MayFailMakeCurrent /\ UNCHANGED current /\ Returns("err")
    /\ UNCHANGED <<contextVars, surfaceVars>>

MakeNoContextCurrent(t) ==
    /\ Runs(t)
    /\ \/ current' = Nothing(t) /\ Returns("ok")
       \/ MayFailMakeCurrent /\ UNCHANGED current /\ Returns("err")
    /\ UNCHANGED <<contextVars, surfaceVars>>

\* What is left of a surface whose destroy_surface succeeded: nothing.
Gone(s, where) ==
    /\ place' = [place EXCEPT ![s] = where]
    /\ sync' = [sync EXCEPT ![s] = "None"]
    /\ creator' = [creator EXCEPT ![s] = 0]
    /\ dead' = dead \ {s}

\* Mistake: unlike EGL-backed devices this one releases no context it finds current.
NotReleased(t, s) == UNCHANGED current

\* destroy_surface makes no context current in its thread if EGL has s current there.
ReleaseSurface(t, s) ==
    current' = IF current[t].surface = s THEN Nothing(t) ELSE current

\* destroy_context: unbind and destroy the surface, make nothing current, destroy.  If
\* destroy_surface fails the surface is dropped, and its Drop panics.
DestroyContext(c) ==
    LET t == thread[c] IN
    \/ /\ status[c] = "Destroyed" /\ Runs(t)
       /\ Returns("ok")
       /\ UNCHANGED <<contextVars, current, surfaceVars>>
    \/ /\ MayCall(c)
       /\ framebuffer' = [framebuffer EXCEPT ![c] = NoSurface]
       /\ \/ /\ status' = [status EXCEPT ![c] = "Destroyed"]
             /\ current' = Nothing(t)
             /\ \/ framebuffer[c] \notin Surfaces /\ UNCHANGED surfaceVars
                \/ /\ framebuffer[c] \in Surfaces
                   /\ Release(framebuffer[c]) /\ Gone(framebuffer[c], "absent")
             /\ Returns("ok")
          \/ \E s \in Surfaces :
                /\ framebuffer[c] = s
                /\ MayFailMakeCurrent /\ current[t].surface = s
                /\ Release(s)
                /\ place' = [place EXCEPT ![s] = "lost"]
                /\ Stops(t, "panic")
                /\ UNCHANGED <<status, current, sync, creator, dead>>
       /\ UNCHANGED <<thread, id, nextId>>

-----------------------------------------------------------------------------
(* Binding and presenting. *)

\* GLFinish: c's own commands are finished first, c made current under a guard.
\* A current context is made current again, with s; that error is dropped.
Bound(c, s) ==
    \E now \in IF sync[s] = "GLFinish" THEN AfterGuard(c) ELSE {current} :
        \/ /\ now[thread[c]].context = c
           /\ current' = Switched(thread[c], c, s)
        \/ /\ now[thread[c]].context # c \/ MayFailMakeCurrent
           /\ current' = now

\* s is usable: its EGLSurface has not been destroyed with a texture.
Usable(s) == s \notin dead \/ "reuse_wrapped" \in Misuse

BindSurface(c, s) ==
    /\ MayCall(c)
    /\ place[s] = "free" /\ Usable(s)
    /\ \/ /\ creator[s] = id[c] /\ framebuffer[c] = NoSurface
          /\ Acquire(s, "renderer")
          /\ framebuffer' = [framebuffer EXCEPT ![c] = s]
          /\ place' = [place EXCEPT ![s] = "bound"]
          /\ Bound(c, s)
          /\ Returns("ok")
       \/ /\ creator[s] = id[c] /\ framebuffer[c] = NoSurface
          /\ ~Free(s)
          /\ Stops(thread[c], "waits")
          /\ UNCHANGED <<framebuffer, current, place, mutex>>
       \/ /\ creator[s] # id[c] \/ framebuffer[c] # NoSurface
          /\ Returns("err")
          /\ UNCHANGED <<framebuffer, current, place, mutex>>
    /\ UNCHANGED <<status, thread, id, nextId, sync, creator, dead>>

\* EGL keeps the surface current.
UnbindSurface(c) ==
    /\ MayCall(c)
    /\ \/ \E s \in Surfaces :
             /\ framebuffer[c] = s
             /\ framebuffer' = [framebuffer EXCEPT ![c] = NoSurface]
             /\ place' = [place EXCEPT ![s] = "free"]
             /\ Release(s)
             /\ Returns("ok")
       \/ /\ framebuffer[c] \notin Surfaces
          /\ Returns(IF framebuffer[c] = External THEN "err" ELSE "ok")
          /\ UNCHANGED <<framebuffer, place, mutex>>
    /\ UNCHANGED <<status, thread, id, nextId, current, sync, creator, dead>>

\* Surface::present looks at the surface only; a failing eglSwapBuffers panics.
Presented(s) == IF sync[s] = "Window" THEN "ok" ELSE "err"

PresentBoundSurface(c) ==
    /\ MayCall(c)
    /\ Returns(IF framebuffer[c] \in Surfaces THEN Presented(framebuffer[c]) ELSE "ok")
    /\ UNCHANGED <<contextVars, current, surfaceVars>>

PresentSurface(c, s) ==
    /\ MayCall(c)
    /\ place[s] = "free" /\ Usable(s)
    /\ Returns(Presented(s))
    /\ UNCHANGED <<contextVars, current, surfaceVars>>

-----------------------------------------------------------------------------
(* Surfaces. *)

New(c, s, kind, where) ==
    /\ place' = [place EXCEPT ![s] = where]
    /\ sync' = [sync EXCEPT ![s] = kind]
    /\ creator' = [creator EXCEPT ![s] = id[c]]
    /\ Returns("ok")

\* create_pbuffer_surface: without a client texture the synchronization is a keyed
\* mutex or GLFinish, with one a keyed mutex or none.  Failing calls are asserted not
\* to, and end the program.
CreatePbufferSurface(c, s) ==
    /\ MayCall(c)
    /\ place[s] = "absent"
    /\ \E kind \in {"KeyedMutex", "GLFinish", "None"} : New(c, s, kind, "free")
    /\ UNCHANGED <<contextVars, current, dead, mutex>>

CreateWindowSurface(c, s) ==
    /\ MayCall(c)
    /\ place[s] = "absent"
    /\ New(c, s, "Window", "free")
    /\ UNCHANGED <<contextVars, current, dead, mutex>>

\* A local pbuffer opens the share handle and acquires the mutex; then c is made
\* current under a guard, whose error is ignored, and the pbuffer becomes a texture.
\* If that fails the surface is returned, the local pbuffer leaked, the mutex kept.
CreateSurfaceTexture(c, s) ==
    /\ MayCall(c)
    /\ place[s] = "free" /\ Usable(s)
    /\ \/ /\ sync[s] # "Window"
          /\ Acquire(s, "reader")
          /\ current' \in AfterGuard(c)
          /\ \/ place' = [place EXCEPT ![s] = "texture"] /\ Returns("ok")
             \/ /\ "bind_tex_image" \in Faults
                /\ Returns("err")
                /\ UNCHANGED place
       \/ /\ sync[s] # "Window" /\ ~Free(s)
          /\ Stops(thread[c], "waits")
          /\ UNCHANGED <<current, place, mutex>>
       \/ /\ sync[s] = "Window" \/ "import" \in Faults
          /\ Returns("err")
          /\ UNCHANGED <<current, place, mutex>>
    /\ UNCHANGED <<contextVars, sync, creator, dead>>

\* The application's texture becomes a surface and its pbuffer a texture directly,
\* without the mutex.  If that fails the surface is destroyed.
CreateSurfaceTextureFromTexture(c, s) ==
    /\ MayCall(c)
    /\ place[s] = "absent"
    /\ current' \in AfterGuard(c)
    /\ \/ \E kind \in {"KeyedMutex", "None"} : New(c, s, kind, "own_texture")
       \/ /\ "bind_tex_image" \in Faults
          /\ Returns("err")
          /\ UNCHANGED <<place, sync, creator>>
    /\ UNCHANGED <<contextVars, dead, mutex>>

\* The mutex is released if it was acquired, and the local pbuffer destroyed: for
\* "own_texture" that is the surface's own.
DestroySurfaceTexture(c, s) ==
    /\ MayCall(c)
    /\ place[s] \in {"texture", "own_texture"}
    /\ IF place[s] = "texture" THEN Release(s) /\ UNCHANGED dead
       ELSE dead' = dead \cup {s} /\ UNCHANGED mutex
    /\ place' = [place EXCEPT ![s] = "free"]
    /\ Returns("ok")
    /\ UNCHANGED <<contextVars, current, sync, creator>>

DestroySurface(c, s) ==
    /\ MayCall(c)
    /\ place[s] = "free"
    /\ \/ /\ creator[s] = id[c]
          /\ ReleaseSurface(thread[c], s)
          /\ Gone(s, "absent")
          /\ mutex' = [mutex EXCEPT ![s] = "nobody"]
          /\ Returns("ok")
       \/ /\ \/ creator[s] # id[c]
             \/ MayFailMakeCurrent /\ current[thread[c]].surface = s
          /\ Returns("err")
          /\ UNCHANGED <<current, surfaceVars>>
    /\ UNCHANGED contextVars

-----------------------------------------------------------------------------
Init ==
    /\ status = [c \in Contexts |-> "Absent"]
    /\ thread = [c \in Contexts |-> CHOOSE t \in Threads : TRUE]
    /\ id = [c \in Contexts |-> 0]
    /\ nextId = 0
    /\ framebuffer = [c \in Contexts |-> NoSurface]
    /\ current = [t \in Threads |-> NoneCurrent]
    /\ place = [s \in Surfaces |-> "absent"]
    /\ sync = [s \in Surfaces |-> "None"]
    /\ creator = [s \in Surfaces |-> 0]
    /\ dead = {}
    /\ mutex = [s \in Surfaces |-> "nobody"]
    /\ stopped = [t \in Threads |-> "no"]
    /\ result = "ok"

Next ==
    \/ \E t \in Threads :
          \/ MakeNoContextCurrent(t)
          \/ \E c \in Contexts : CreateContext(t, c) \/ CreateContextFromNative(t, c)
    \/ \E c \in Contexts :
          \/ MakeContextCurrent(c) \/ DestroyContext(c)
          \/ UnbindSurface(c) \/ PresentBoundSurface(c)
    \/ \E c \in Contexts, s \in Surfaces :
          \/ BindSurface(c, s) \/ PresentSurface(c, s)
          \/ CreatePbufferSurface(c, s) \/ CreateWindowSurface(c, s)
          \/ CreateSurfaceTexture(c, s) \/ CreateSurfaceTextureFromTexture(c, s)
          \/ DestroySurfaceTexture(c, s) \/ DestroySurface(c, s)

Spec == Init /\ [][Next]_vars

-----------------------------------------------------------------------------
(* Properties. *)

\* "This ID is unique to all currently-allocated contexts." (angle/device.rs:678)
IdsDiffer ==
    \A c, d \in Contexts : c # d /\ Exists(c) /\ Exists(d) => id[c] # id[d]

\* The two ways of making a context read the counter at different moments, and agree
\* only among themselves: what one of them made shares its id with nothing else that
\* it made, in whatever threads and however the calls alternate.
SameKindIdsDiffer ==
    \A c, d \in Contexts : c # d /\ Exists(c) /\ status[c] = status[d] => id[c] # id[d]

\* Two contexts, of which one may be destroyed since, were given the same id.
IdShared ==
    \E c, d \in Contexts :
        c # d /\ status[c] # "Absent" /\ status[d] # "Absent" /\ id[c] = id[d]

\* The keyed mutex of a shared texture is held exactly while its surface is bound, by
\* the renderer, or is a surface texture, by the reader, across any exchange between
\* threads; so the next to acquire it never waits.
MutexFollowsUse ==
    /\ \A s \in Surfaces :
          mutex[s] = CASE Keyed(s) /\ place[s] = "bound" -> "renderer"
                       [] Keyed(s) /\ place[s] = "texture" -> "reader"
                       [] OTHER -> "nobody"
    /\ \A t \in Threads : stopped[t] # "waits"

\* What EGL has current in any thread is a surface that exists: unbinding leaves it
\* current, and destroy_surface looks at its own thread only.  It tells whose surface it
\* is by the id, and is deceived by contexts that share one.
CurrentSurfaceLives ==
    \/ IdShared
    \/ \A t \in Threads : current[t].surface \in Surfaces =>
          place[current[t].surface] # "absent" /\ current[t].surface \notin dead
=============================================================================
