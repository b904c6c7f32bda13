--------------------------- MODULE WindowsProofs ---------------------------
(***************************************************************************)
(* Theorems about the two back ends of Windows.  First ANGLE, with several *)
(* threads: IdInv, the ids that have been given; BoundInv and LiveInv, the *)
(* surfaces of contexts and what EGL has current; MutexFollowsUse, keyed   *)
(* mutexes.  Then WGL, in one thread: WglBoundInv, the surfaces of         *)
(* contexts; DrawInv, what is current; NameInv, GL objects and HGLRCs.     *)
(* A behaviour of MCSpec is of one back end, and leaves the variables of   *)
(* the other alone (AngleStep, WglStep).                                   *)
(***************************************************************************)
EXTENDS MCWindows, TLAPS

-----------------------------------------------------------------------------
(* ANGLE: type correctness. *)

Pairs == [context : Contexts \cup {NoContext}, surface : Surfaces \cup {NoSurface, External}]

\* What EGL may have current: in each thread a context of the thread that exists, or none.
Fits(now) ==
    /\ now \in [Threads -> Pairs]
    /\ \A t \in Threads : now[t].context # NoContext =>
          Exists(now[t].context) /\ thread[now[t].context] = t

LEMMA PairsType ==
    ASSUME TypeOK, NEW c \in Contexts
    PROVE  /\ thread[c] \in Threads
           /\ [context |-> c, surface |-> framebuffer[c]] \in Pairs
           /\ NoneCurrent \in Pairs
           /\ Fits(current)
  BY DEF TypeOK, Pairs, NoneCurrent, Fits

LEMMA SwitchFits ==
    ASSUME TypeOK, NEW now, Fits(now), NEW c \in Contexts, Exists(c),
           NEW s \in Surfaces \cup {NoSurface, External}
    PROVE  Fits([now EXCEPT ![thread[c]] = [context |-> c, surface |-> s]])
<1>1. [context |-> c, surface |-> s] \in Pairs
  BY DEF Pairs
<1>2. QED
  BY <1>1 DEF TypeOK, Fits

LEMMA NothingFits ==
    ASSUME TypeOK, NEW t \in Threads
    PROVE  Fits(Nothing(t))
<1>1. NoneCurrent \in Pairs /\ NoneCurrent.context = NoContext
  BY DEF NoneCurrent, Pairs
<1>2. QED
  BY <1>1 DEF TypeOK, Fits, Nothing, Pairs

LEMMA GuardFits ==
    ASSUME TypeOK, NEW c \in Contexts, Exists(c), NEW now \in AfterGuard(c)
    PROVE  Fits(now)
<1>1. now = current \/ now = Switched(thread[c], c, framebuffer[c])
  BY DEF AfterGuard
<1>2. framebuffer[c] \in Surfaces \cup {NoSurface, External} /\ Fits(current)
  BY PairsType DEF TypeOK
<1>3. Fits([current EXCEPT ![thread[c]] = [context |-> c, surface |-> framebuffer[c]]])
  BY <1>2, SwitchFits
<1>4. QED
  BY <1>1, <1>2, <1>3 DEF Switched

LEMMA BoundFits ==
    ASSUME TypeOK, NEW c \in Contexts, Exists(c), NEW s \in Surfaces, Bound(c, s)
    PROVE  Fits(current')
<1>1. PICK now \in IF sync[s] = "GLFinish" THEN AfterGuard(c) ELSE {current} :
         \/ current' = Switched(thread[c], c, s)
         \/ current' = now
  BY DEF Bound
<1>2. Fits(now) /\ Fits(current)
  BY GuardFits, PairsType
<1>3. Fits([current EXCEPT ![thread[c]] = [context |-> c, surface |-> s]])
  BY <1>2, SwitchFits
<1>4. QED
  BY <1>1, <1>2, <1>3 DEF Switched

Placed == [Surfaces -> {"absent", "free", "bound", "texture", "own_texture", "lost"}]

Held == [Surfaces -> {"nobody", "renderer", "reader"}]

\* A step that leaves the contexts alone.
LEMMA SurfacesType ==
    ASSUME TypeOK, UNCHANGED <<status, thread, id, nextId>>, Fits(current'),
           framebuffer' \in [Contexts -> Surfaces \cup {NoSurface, External}],
           place' \in Placed,
           sync' \in [Surfaces -> Kinds],
           creator' \in [Surfaces -> 0..MaxId],
           dead' \subseteq Surfaces,
           mutex' \in Held,
           stopped' \in [Threads -> {"no", "panic", "waits"}],
           result' \in {"ok", "err"}
    PROVE  TypeOK'
  BY DEF TypeOK, Fits, Pairs, Exists, Placed, Held

LEMMA PlacesType ==
    ASSUME TypeOK, NEW s \in Surfaces,
           NEW where \in {"absent", "free", "bound", "texture", "own_texture", "lost"},
           NEW holder \in {"nobody", "renderer", "reader"}
    PROVE  /\ place \in Placed /\ [place EXCEPT ![s] = where] \in Placed
           /\ mutex \in Held /\ [mutex EXCEPT ![s] = holder] \in Held
  BY DEF TypeOK, Placed, Held

LEMMA StopsType ==
    ASSUME TypeOK, NEW t \in Threads,
           \/ \E r \in {"ok", "err"} : Returns(r)
           \/ \E why \in {"panic", "waits"} : Stops(t, why)
    PROVE  /\ stopped' \in [Threads -> {"no", "panic", "waits"}]
           /\ result' \in {"ok", "err"}
  BY DEF TypeOK, Returns, Stops

LEMMA CreateType ==
    ASSUME TypeOK, NEW t \in Threads, NEW c \in Contexts,
           CreateContext(t, c) \/ CreateContextFromNative(t, c)
    PROVE  TypeOK'
<1> USE MaxIdAssumption, DistinctAssumption
<1>1. /\ status[c] = "Absent" /\ nextId < MaxId
      /\ UNCHANGED surfaceVars
      /\ nextId + 1 \in 0..MaxId /\ nextId \in 0..MaxId
  BY DEF CreateContext, CreateContextFromNative, TypeOK
<1>2. \E r \in {"ok", "err"} : Returns(r)
  BY DEF CreateContext, CreateContextFromNative
<1>3. ASSUME NEW d \in Contexts, Exists(d)
      PROVE  d # c
  BY <1>1, <1>3 DEF Exists
<1>4. ASSUME NEW kind \in {"Owned", "Wrapped"}, NEW i \in 0..MaxId,
             NEW f \in {NoSurface, External},
             status' = [status EXCEPT ![c] = kind],
             thread' = [thread EXCEPT ![c] = t],
             id' = [id EXCEPT ![c] = i],
             framebuffer' = [framebuffer EXCEPT ![c] = f],
             nextId' = nextId + 1,
             current' = current \/ current' = Switched(t, c, NoSurface)
      PROVE  TypeOK'
  <2>1. /\ status' \in [Contexts -> {"Absent", "Owned", "Wrapped", "Destroyed"}]
        /\ thread' \in [Contexts -> Threads]
        /\ id' \in [Contexts -> 0..MaxId]
        /\ nextId' \in 0..MaxId
        /\ framebuffer' \in [Contexts -> Surfaces \cup {NoSurface, External}]
    BY <1>1, <1>4 DEF TypeOK
  <2>2. [context |-> c, surface |-> NoSurface] \in Pairs
    BY DEF Pairs
  <2>3. current' \in [Threads -> Pairs]
    BY <1>4, <2>2 DEF TypeOK, Pairs, Switched
  <2>4. Exists(c)' /\ thread'[c] = t /\ \A d \in Contexts \ {c} :
           (Exists(d) => Exists(d)') /\ thread'[d] = thread[d]
    BY <1>4 DEF TypeOK, Exists
  <2>5. \A u \in Threads : current'[u].context # NoContext =>
           /\ status'[current'[u].context] \in {"Owned", "Wrapped"}
           /\ thread'[current'[u].context] = u
    <3>1. ASSUME NEW u \in Threads, current[u].context # NoContext
          PROVE  /\ current[u].context \in Contexts \ {c}
                 /\ status[current[u].context] \in {"Owned", "Wrapped"}
                 /\ thread[current[u].context] = u
      BY <1>3, <3>1 DEF TypeOK, Exists
    <3>2. \A d \in Contexts \ {c} : status'[d] = status[d] /\ thread'[d] = thread[d]
      BY <1>4 DEF TypeOK
    <3>3. CASE current' = current
      BY <3>1, <3>2, <3>3
    <3>4. CASE current' = Switched(t, c, NoSurface)
      <4>1. ASSUME NEW u \in Threads \ {t}
            PROVE  current'[u] = current[u]
        BY <3>4 DEF TypeOK, Switched
      <4>2. current'[t].context = c
        BY <3>4 DEF TypeOK, Switched
      <4>3. QED
        BY <3>1, <3>2, <2>4, <4>1, <4>2 DEF Exists
    <3>5. QED
      BY <1>4, <3>3, <3>4
  <2>6. QED
    <3>1. stopped' \in [Threads -> {"no", "panic", "waits"}] /\ result' \in {"ok", "err"}
      BY <1>2, StopsType
    <3>2. QED
      BY <1>1, <2>1, <2>3, <2>5, <3>1 DEF TypeOK, surfaceVars, Pairs, Exists
<1>5. CASE CreateContext(t, c)
  <2>1. CASE UNCHANGED <<status, thread, id, framebuffer, current>>
             /\ (TakeId \/ UNCHANGED nextId)
    BY <1>1, <1>2, <2>1, StopsType DEF TypeOK, surfaceVars, Exists, TakeId
  <2>2. QED
    BY <1>1, <1>4, <1>5, <2>1 DEF CreateContext, TakeId, contextVars
<1>6. CASE CreateContextFromNative(t, c)
  BY <1>1, <1>4, <1>6 DEF CreateContextFromNative, TakeId
<1>7. QED
  BY <1>5, <1>6

LEMMA DestroyType ==
    ASSUME TypeOK, NEW c \in Contexts, DestroyContext(c)
    PROVE  TypeOK'
<1> USE DistinctAssumption
<1>1. /\ thread[c] \in Threads
      /\ UNCHANGED <<thread, id, nextId>>
      /\ 0 \in 0..MaxId
  BY MaxIdAssumption DEF DestroyContext, contextVars, TypeOK
<1>2. \/ \E r \in {"ok", "err"} : Returns(r)
      \/ \E why \in {"panic", "waits"} : Stops(thread[c], why)
  BY DEF DestroyContext
<1>3. stopped' \in [Threads -> {"no", "panic", "waits"}] /\ result' \in {"ok", "err"}
  BY <1>1, <1>2, StopsType
<1>4. CASE UNCHANGED <<contextVars, current, surfaceVars>>
  BY <1>3, <1>4 DEF TypeOK, contextVars, surfaceVars, Exists
<1>5. ASSUME ~UNCHANGED <<contextVars, current, surfaceVars>>
      PROVE  TypeOK'
  <2>1. framebuffer' \in [Contexts -> Surfaces \cup {NoSurface, External}]
    BY <1>5 DEF DestroyContext, TypeOK
  <2>2. \/ UNCHANGED surfaceVars
        \/ /\ framebuffer[c] \in Surfaces
           /\ Release(framebuffer[c]) /\ Gone(framebuffer[c], "absent")
        \/ /\ framebuffer[c] \in Surfaces
           /\ Release(framebuffer[c])
           /\ place' = [place EXCEPT ![framebuffer[c]] = "lost"]
           /\ UNCHANGED <<sync, creator, dead>>
    BY <1>5 DEF DestroyContext
  <2>7. place' \in Placed /\ mutex' \in Held
    <3>1. CASE UNCHANGED surfaceVars
      BY <3>1 DEF surfaceVars, TypeOK, Placed, Held
    <3>2. CASE framebuffer[c] \in Surfaces /\ Release(framebuffer[c])
      BY <2>2, <3>2, PlacesType DEF surfaceVars, Release, Gone
    <3>3. QED
      BY <2>2, <3>1, <3>2
  <2>8. sync' \in [Surfaces -> Kinds]
    BY <2>2 DEF surfaceVars, Gone, TypeOK, Kinds
  <2>9. creator' \in [Surfaces -> 0..MaxId]
    BY <1>1, <2>2 DEF surfaceVars, Gone, TypeOK
  <2>10. dead' \subseteq Surfaces
    BY <2>2 DEF surfaceVars, Gone, TypeOK
  <2>3. \/ UNCHANGED <<status, current>>
        \/ /\ status' = [status EXCEPT ![c] = "Destroyed"]
           /\ current' = Nothing(thread[c])
    BY <1>5 DEF DestroyContext
  <2>4. CASE UNCHANGED <<status, current>>
    BY <1>1, <1>3, <2>1, <2>4, <2>7, <2>8, <2>9, <2>10 DEF TypeOK, Exists, Placed, Held
  <2>5. CASE /\ status' = [status EXCEPT ![c] = "Destroyed"]
             /\ current' = Nothing(thread[c])
    <3>1. current' \in [Threads -> Pairs]
      BY <1>1, <2>5, NothingFits DEF Fits
    <3>2. \A u \in Threads : current'[u].context # NoContext =>
             /\ status'[current'[u].context] \in {"Owned", "Wrapped"}
             /\ thread'[current'[u].context] = u
      <4>1. current'[thread[c]] = NoneCurrent
        BY <1>1, <2>5 DEF Nothing, TypeOK
      <4>2. ASSUME NEW u \in Threads \ {thread[c]}, current[u].context # NoContext
            PROVE  /\ current'[u] = current[u]
                   /\ current[u].context \in Contexts \ {c}
                   /\ status[current[u].context] \in {"Owned", "Wrapped"}
                   /\ thread[current[u].context] = u
        BY <2>5, <4>2 DEF Nothing, TypeOK, Exists
      <4>3. \A u \in Threads \ {thread[c]} : current'[u] = current[u]
        BY <2>5 DEF Nothing, TypeOK
      <4>4. \A d \in Contexts \ {c} : status'[d] = status[d]
        BY <2>5 DEF TypeOK
      <4>5. QED
        BY <1>1, <4>1, <4>2, <4>3, <4>4 DEF NoneCurrent
    <3>3. status' \in [Contexts -> {"Absent", "Owned", "Wrapped", "Destroyed"}]
      BY <2>5 DEF TypeOK
    <3>4. QED
      BY <1>1, <1>3, <2>1, <2>7, <2>8, <2>9, <2>10, <3>1, <3>2, <3>3
         DEF TypeOK, Exists, Pairs, Placed, Held
  <2>6. QED
    BY <2>3, <2>4, <2>5
<1>6. QED
  BY <1>4, <1>5

LEMMA ContextCallType ==
    ASSUME TypeOK, NEW c \in Contexts,
           MakeContextCurrent(c) \/ UnbindSurface(c) \/ PresentBoundSurface(c)
    PROVE  TypeOK'
<1>1. Exists(c) /\ thread[c] \in Threads /\ Fits(current)
  BY PairsType DEF MakeContextCurrent, UnbindSurface, PresentBoundSurface, MayCall
<1>2. \/ \E r \in {"ok", "err"} : Returns(r)
      \/ \E why \in {"panic", "waits"} : Stops(thread[c], why)
  BY DEF MakeContextCurrent, UnbindSurface, PresentBoundSurface, Presented
<1>3. stopped' \in [Threads -> {"no", "panic", "waits"}] /\ result' \in {"ok", "err"}
  BY <1>1, <1>2, StopsType
<1>4. UNCHANGED <<status, thread, id, nextId>>
  BY DEF MakeContextCurrent, UnbindSurface, PresentBoundSurface, contextVars
<1>6. CASE MakeContextCurrent(c)
  <2>1. Fits(Switched(thread[c], c, framebuffer[c]))
    BY <1>1, SwitchFits DEF TypeOK, Switched
  <2>2. Fits(current')
    BY <1>1, <1>6, <2>1 DEF MakeContextCurrent
  <2>3. QED
    BY <1>3, <1>4, <1>6, <2>2, SurfacesType DEF MakeContextCurrent, contextVars, surfaceVars,
       TypeOK, Placed, Held
<1>7. CASE UnbindSurface(c) \/ PresentBoundSurface(c)
  <2>1. UNCHANGED <<current, sync, creator, dead>>
    BY <1>7 DEF UnbindSurface, PresentBoundSurface, surfaceVars
  <2>2. \/ UNCHANGED <<framebuffer, place, mutex>>
        \/ \E r \in Surfaces :
              /\ framebuffer' = [framebuffer EXCEPT ![c] = NoSurface]
              /\ place' = [place EXCEPT ![r] = "free"]
              /\ mutex' = [mutex EXCEPT ![r] = "nobody"]
    BY <1>7 DEF UnbindSurface, PresentBoundSurface, surfaceVars, contextVars,
       Release
  <2>3. framebuffer' \in [Contexts -> Surfaces \cup {NoSurface, External}]
    BY <2>2 DEF TypeOK
  <2>4. place' \in Placed /\ mutex' \in Held
    <3>1. CASE UNCHANGED <<place, mutex>>
      BY <3>1 DEF TypeOK, Placed, Held
    <3>2. ASSUME NEW r \in Surfaces, place' = [place EXCEPT ![r] = "free"],
                 mutex' = [mutex EXCEPT ![r] = "nobody"]
          PROVE  place' \in Placed /\ mutex' \in Held
      BY <3>2, PlacesType
    <3>3. QED
      BY <2>2, <3>1, <3>2
  <2>5. QED
    BY <1>1, <1>3, <1>4, <2>1, <2>3, <2>4, SurfacesType DEF TypeOK
<1>8. QED
  BY <1>6, <1>7

LEMMA CallType ==
    ASSUME TypeOK, NEW c \in Contexts, NEW s \in Surfaces,
           \/ BindSurface(c, s) \/ PresentSurface(c, s)
           \/ CreatePbufferSurface(c, s) \/ CreateWindowSurface(c, s)
           \/ CreateSurfaceTexture(c, s) \/ CreateSurfaceTextureFromTexture(c, s)
           \/ DestroySurfaceTexture(c, s) \/ DestroySurface(c, s)
    PROVE  TypeOK'
<1>1. Exists(c) /\ thread[c] \in Threads /\ id[c] \in 0..MaxId /\ Fits(current)
  BY PairsType DEF BindSurface,
     PresentSurface, CreatePbufferSurface, CreateWindowSurface, CreateSurfaceTexture,
     CreateSurfaceTextureFromTexture, DestroySurfaceTexture, DestroySurface, MayCall, TypeOK
<1>2. \/ \E r \in {"ok", "err"} : Returns(r)
      \/ \E why \in {"panic", "waits"} : Stops(thread[c], why)
  BY DEF BindSurface,
     PresentSurface, CreatePbufferSurface, CreateWindowSurface, CreateSurfaceTexture,
     CreateSurfaceTextureFromTexture, DestroySurfaceTexture, DestroySurface, New, Presented
<1>3. stopped' \in [Threads -> {"no", "panic", "waits"}] /\ result' \in {"ok", "err"}
  BY <1>1, <1>2, StopsType
<1>4. UNCHANGED <<status, thread, id, nextId>>
  BY DEF BindSurface,
     PresentSurface, CreatePbufferSurface, CreateWindowSurface, CreateSurfaceTexture,
     CreateSurfaceTextureFromTexture, DestroySurfaceTexture, DestroySurface, contextVars
<1>6. CASE PresentSurface(c, s)
  BY <1>1, <1>3, <1>4, <1>6, SurfacesType DEF PresentSurface, contextVars, surfaceVars, TypeOK,
     Placed, Held
<1>7. CASE BindSurface(c, s)
  <2>1. Fits(current')
    BY <1>1, <1>7, BoundFits DEF BindSurface
  <2>2. \/ UNCHANGED <<framebuffer, place, mutex>>
        \/ /\ framebuffer' = [framebuffer EXCEPT ![c] = s]
           /\ place' = [place EXCEPT ![s] = "bound"]
           /\ mutex' = [mutex EXCEPT ![s] = "renderer"] \/ UNCHANGED mutex
    BY <1>7 DEF BindSurface, Acquire
  <2>3. framebuffer' \in [Contexts -> Surfaces \cup {NoSurface, External}]
    BY <2>2 DEF TypeOK
  <2>4. place' \in Placed /\ mutex' \in Held
    BY <2>2, PlacesType
  <2>5. QED
    BY <1>3, <1>4, <1>7, <2>1, <2>3, <2>4, SurfacesType DEF BindSurface, TypeOK
<1>8. CASE CreatePbufferSurface(c, s) \/ CreateWindowSurface(c, s)
  <2>1. \E kind \in Kinds : New(c, s, kind, "free")
    BY <1>8 DEF CreatePbufferSurface, CreateWindowSurface, Kinds
  <2>2. UNCHANGED <<framebuffer, current, dead, mutex>>
    BY <1>8 DEF CreatePbufferSurface, CreateWindowSurface, contextVars
  <2>3. QED
    BY <1>1, <1>3, <1>4, <2>1, <2>2, SurfacesType DEF New, TypeOK, Placed, Held
<1>9. CASE CreateSurfaceTexture(c, s)
  <2>1. Fits(current')
    BY <1>1, <1>9, GuardFits DEF CreateSurfaceTexture
  <2>2. place' \in Placed /\ mutex' \in Held
    BY <1>9, PlacesType DEF CreateSurfaceTexture, Acquire
  <2>3. QED
    BY <1>3, <1>4, <1>9, <2>1, <2>2, SurfacesType DEF CreateSurfaceTexture, contextVars, TypeOK
<1>10. CASE CreateSurfaceTextureFromTexture(c, s)
  <2>1. Fits(current')
    BY <1>1, <1>10, GuardFits DEF CreateSurfaceTextureFromTexture
  <2>2. (\E kind \in Kinds : New(c, s, kind, "own_texture"))
        \/ UNCHANGED <<place, sync, creator>>
    BY <1>10 DEF CreateSurfaceTextureFromTexture, Kinds
  <2>3. UNCHANGED <<framebuffer, dead, mutex>>
    BY <1>10 DEF CreateSurfaceTextureFromTexture, contextVars
  <2>4. CASE \E kind \in Kinds : New(c, s, kind, "own_texture")
    <3>1. place' \in Placed /\ mutex' \in Held
      BY <2>3, <2>4, PlacesType DEF New
    <3>2. sync' \in [Surfaces -> Kinds] /\ creator' \in [Surfaces -> 0..MaxId]
      BY <1>1, <2>4 DEF New, TypeOK
    <3>3. QED
      BY <1>3, <1>4, <2>1, <2>3, <3>1, <3>2, SurfacesType DEF TypeOK
  <2>5. CASE UNCHANGED <<place, sync, creator>>
    BY <1>3, <1>4, <2>1, <2>3, <2>5, SurfacesType DEF TypeOK, Placed, Held
  <2>6. QED
    BY <2>2, <2>4, <2>5
<1>11. CASE DestroySurfaceTexture(c, s)
  <2>1. /\ UNCHANGED <<framebuffer, current, sync, creator>>
        /\ place' = [place EXCEPT ![s] = "free"]
        /\ dead' = dead \cup {s} \/ UNCHANGED dead
        /\ mutex' = [mutex EXCEPT ![s] = "nobody"] \/ UNCHANGED mutex
    BY <1>11 DEF DestroySurfaceTexture, contextVars, Release
  <2>2. place' \in Placed /\ mutex' \in Held
    BY <2>1, PlacesType
  <2>3. dead' \subseteq Surfaces
    BY <2>1 DEF TypeOK
  <2>4. QED
    BY <1>1, <1>3, <1>4, <2>1, <2>2, <2>3, SurfacesType DEF TypeOK
<1>12. CASE DestroySurface(c, s)
  <2>1. Fits(current')
    BY <1>1, <1>12, NothingFits DEF DestroySurface, ReleaseSurface
  <2>2. UNCHANGED framebuffer
    BY <1>12 DEF DestroySurface, contextVars
  <2>3. CASE UNCHANGED surfaceVars
    BY <1>3, <1>4, <2>1, <2>2, <2>3, SurfacesType DEF TypeOK, surfaceVars, Placed, Held
  <2>4. CASE Gone(s, "absent") /\ mutex' = [mutex EXCEPT ![s] = "nobody"]
    <3>1. place' \in Placed /\ mutex' \in Held
      BY <2>4, PlacesType DEF Gone
    <3>2. /\ sync' \in [Surfaces -> Kinds] /\ creator' \in [Surfaces -> 0..MaxId]
          /\ dead' \subseteq Surfaces
      BY <2>4, MaxIdAssumption DEF Gone, TypeOK, Kinds
    <3>3. QED
      BY <1>3, <1>4, <2>1, <2>2, <3>1, <3>2, SurfacesType DEF TypeOK
  <2>5. QED
    BY <1>12, <2>3, <2>4 DEF DestroySurface
<1>13. QED
  BY <1>6, <1>7, <1>8, <1>9, <1>10, <1>11, <1>12

\* Contexts stay on their thread, and one that is current exists.
LEMMA TypeNext == TypeOK /\ [Next]_vars => TypeOK'
<1> SUFFICES ASSUME TypeOK, [Next]_vars
             PROVE  TypeOK'
  OBVIOUS
<1>1. ASSUME NEW t \in Threads, MakeNoContextCurrent(t)
      PROVE  TypeOK'
  <2>1. Fits(current')
    BY <1>1, NothingFits, PairsType DEF MakeNoContextCurrent, TypeOK, Fits, Pairs
  <2>2. stopped' \in [Threads -> {"no", "panic", "waits"}] /\ result' \in {"ok", "err"}
    BY <1>1, StopsType DEF MakeNoContextCurrent
  <2>3. QED
    BY <1>1, <2>1, <2>2 DEF MakeNoContextCurrent, contextVars, surfaceVars, TypeOK, Fits, Pairs,
       Exists
<1>2. CASE UNCHANGED vars
  BY <1>2 DEF vars, contextVars, surfaceVars, TypeOK, Exists
<1>3. ASSUME NEW t \in Threads, NEW c \in Contexts,
             CreateContext(t, c) \/ CreateContextFromNative(t, c)
      PROVE  TypeOK'
  BY <1>3, CreateType
<1>4. ASSUME NEW c \in Contexts, DestroyContext(c)
      PROVE  TypeOK'
  BY <1>4, DestroyType
<1>5. ASSUME NEW c \in Contexts,
             MakeContextCurrent(c) \/ UnbindSurface(c) \/ PresentBoundSurface(c)
      PROVE  TypeOK'
  BY <1>5, ContextCallType
<1>6. ASSUME NEW c \in Contexts, NEW s \in Surfaces,
             \/ BindSurface(c, s) \/ PresentSurface(c, s)
             \/ CreatePbufferSurface(c, s) \/ CreateWindowSurface(c, s)
             \/ CreateSurfaceTexture(c, s) \/ CreateSurfaceTextureFromTexture(c, s)
             \/ DestroySurfaceTexture(c, s) \/ DestroySurface(c, s)
      PROVE  TypeOK'
  BY <1>6, CallType
<1>7. QED
  BY <1>1, <1>2, <1>3, <1>4, <1>5, <1>6 DEF Next

LEMMA TypeInit == Init => TypeOK
  BY MaxIdAssumption, ThreadsAssumption, DistinctAssumption
     DEF Init, TypeOK, NoneCurrent, Kinds

-----------------------------------------------------------------------------
(* ANGLE: the ids of contexts. *)

\* The counter is never behind an id that is in use, and ahead of those read before
\* it was advanced.
IdInv ==
    /\ \A c \in Contexts : Exists(c) => id[c] \leq nextId
    /\ \A c \in Contexts : status[c] = "Wrapped" => id[c] < nextId
    /\ SameKindIdsDiffer

LEMMA IdKept ==
    ASSUME TypeOK, IdInv, UNCHANGED <<id, nextId>>,
           \/ UNCHANGED status
           \/ \E c \in Contexts : status' = [status EXCEPT ![c] = "Destroyed"]
    PROVE  IdInv'
<1>1. \A c \in Contexts : status'[c] = status[c] \/ status'[c] = "Destroyed"
  BY DEF TypeOK
<1>2. QED
  BY <1>1 DEF IdInv, SameKindIdsDiffer, Exists

LEMMA IdGiven ==
    ASSUME TypeOK, IdInv, NEW c \in Contexts, status[c] = "Absent", nextId' = nextId + 1,
           \/ UNCHANGED <<status, id>>
           \/ /\ status' = [status EXCEPT ![c] = "Owned"]
              /\ id' = [id EXCEPT ![c] = nextId + 1]
           \/ /\ status' = [status EXCEPT ![c] = "Wrapped"]
              /\ id' = [id EXCEPT ![c] = nextId]
    PROVE  IdInv'
<1>1. nextId \in Nat /\ \A d \in Contexts : id[d] \in Nat
  BY MaxIdAssumption DEF TypeOK
<1>2. CASE UNCHANGED <<status, id>>
  BY <1>1, <1>2 DEF IdInv, SameKindIdsDiffer, Exists
<1>3. ASSUME NEW kind \in {"Owned", "Wrapped"}, NEW n \in {nextId, nextId + 1},
             status' = [status EXCEPT ![c] = kind], id' = [id EXCEPT ![c] = n],
             kind = "Owned" => n = nextId + 1,
             kind = "Wrapped" => n = nextId
      PROVE  IdInv'
  <2>1. /\ id'[c] = n /\ status'[c] = kind
        /\ \A d \in Contexts \ {c} : id'[d] = id[d] /\ status'[d] = status[d]
    BY <1>3 DEF TypeOK
  <2>2. \A d \in Contexts \ {c} : status'[d] = kind => id'[d] # n
    BY <1>1, <1>3, <2>1 DEF IdInv, Exists
  <2>3. SameKindIdsDiffer'
    <3>1. ASSUME NEW d \in Contexts, NEW e \in Contexts, d # e, Exists(d)',
                 status'[d] = status'[e]
          PROVE  id'[d] # id'[e]
      <4>1. CASE d # c /\ e # c
        BY <2>1, <3>1, <4>1 DEF IdInv, SameKindIdsDiffer, Exists
      <4>2. CASE d = c \/ e = c
        BY <2>1, <2>2, <3>1, <4>2
      <4>3. QED
        BY <4>1, <4>2
    <3>2. QED
      BY <3>1 DEF SameKindIdsDiffer
  <2>4. QED
    BY <1>1, <1>3, <2>1, <2>3 DEF IdInv, Exists
<1>4. QED
  BY <1>2, <1>3

LEMMA IdNext == TypeOK /\ IdInv /\ [Next]_vars => IdInv'
<1> SUFFICES ASSUME TypeOK, IdInv, [Next]_vars
             PROVE  IdInv'
  OBVIOUS
<1>1. CASE UNCHANGED vars
  BY <1>1, IdKept DEF vars, contextVars
<1>2. ASSUME NEW t \in Threads, MakeNoContextCurrent(t)
      PROVE  IdInv'
  BY <1>2, IdKept DEF MakeNoContextCurrent, contextVars
<1>3. ASSUME NEW t \in Threads, NEW c \in Contexts,
             CreateContext(t, c) \/ CreateContextFromNative(t, c)
      PROVE  IdInv'
  <2>1. CASE CreateContext(t, c)
    BY <2>1, IdKept, IdGiven DEF CreateContext, TakeId, contextVars
  <2>2. CASE CreateContextFromNative(t, c)
    BY <2>2, IdGiven DEF CreateContextFromNative, TakeId
  <2>3. QED
    BY <1>3, <2>1, <2>2
<1>4. ASSUME NEW c \in Contexts, DestroyContext(c)
      PROVE  IdInv'
  BY <1>4, IdKept DEF DestroyContext, contextVars
<1>5. ASSUME NEW c \in Contexts,
             MakeContextCurrent(c) \/ UnbindSurface(c) \/ PresentBoundSurface(c)
      PROVE  IdInv'
  BY <1>5, IdKept DEF MakeContextCurrent, UnbindSurface, PresentBoundSurface, contextVars
<1>6. ASSUME NEW c \in Contexts, NEW s \in Surfaces,
             \/ BindSurface(c, s) \/ PresentSurface(c, s)
             \/ CreatePbufferSurface(c, s) \/ CreateWindowSurface(c, s)
             \/ CreateSurfaceTexture(c, s) \/ CreateSurfaceTextureFromTexture(c, s)
             \/ DestroySurfaceTexture(c, s) \/ DestroySurface(c, s)
      PROVE  IdInv'
  BY <1>6, IdKept DEF BindSurface, PresentSurface, CreatePbufferSurface, CreateWindowSurface,
     CreateSurfaceTexture, CreateSurfaceTextureFromTexture, DestroySurfaceTexture,
     DestroySurface, contextVars
<1>7. QED
  BY <1>1, <1>2, <1>3, <1>4, <1>5, <1>6 DEF Next

\* Contexts that shared an id always did.
LEMMA SharedStays == TypeOK /\ IdShared /\ [Next]_vars => IdShared'
<1> SUFFICES ASSUME TypeOK, [Next]_vars,
                    NEW c \in Contexts, NEW d \in Contexts, c # d,
                    status[c] # "Absent", status[d] # "Absent", id[c] = id[d]
             PROVE  IdShared'
  BY DEF IdShared
<1>1. ASSUME NEW e \in Contexts, status[e] # "Absent"
      PROVE  status'[e] # "Absent" /\ id'[e] = id[e]
  BY <1>1 DEF Next, vars, contextVars, MakeNoContextCurrent, CreateContext,
     CreateContextFromNative, MakeContextCurrent, DestroyContext, UnbindSurface,
     PresentBoundSurface, BindSurface, PresentSurface, CreatePbufferSurface,
     CreateWindowSurface, CreateSurfaceTexture, CreateSurfaceTextureFromTexture,
     DestroySurfaceTexture, DestroySurface, TypeOK
<1>2. QED
  BY <1>1 DEF IdShared

-----------------------------------------------------------------------------
(* ANGLE: bound surfaces and their mutexes. *)

\* A bound surface is bound to one context, which exists and made it.
BoundInv ==
    \A c \in Contexts : framebuffer[c] \in Surfaces =>
        /\ Exists(c)
        /\ place[framebuffer[c]] = "bound"
        /\ creator[framebuffer[c]] = id[c]
        /\ \A d \in Contexts \ {c} : framebuffer[d] # framebuffer[c]

\* Surfaces that are not bound may be moved and made.
LEMMA BoundKept ==
    ASSUME BoundInv, UNCHANGED <<status, id, framebuffer>>,
           \A s \in Surfaces : place[s] = "bound" =>
               place'[s] = "bound" /\ creator'[s] = creator[s]
    PROVE  BoundInv'
  BY DEF BoundInv, Exists

LEMMA BoundCreated ==
    ASSUME TypeOK, BoundInv, UNCHANGED <<place, creator>>, NEW c \in Contexts,
           status[c] = "Absent", NEW kind \in {"Owned", "Wrapped"}, NEW i,
           NEW f \in {NoSurface, External},
           status' = [status EXCEPT ![c] = kind], id' = [id EXCEPT ![c] = i],
           framebuffer' = [framebuffer EXCEPT ![c] = f]
    PROVE  BoundInv'
<1>1. /\ framebuffer'[c] \notin Surfaces
      /\ \A d \in Contexts \ {c} : /\ framebuffer'[d] = framebuffer[d]
                                  /\ id'[d] = id[d] /\ status'[d] = status[d]
  BY DistinctAssumption DEF TypeOK
<1>2. QED
  BY <1>1 DEF BoundInv, Exists

LEMMA BoundTaken ==
    ASSUME TypeOK, BoundInv, NEW c \in Contexts, UNCHANGED id,
           framebuffer' = [framebuffer EXCEPT ![c] = NoSurface],
           status' = status \/ status' = [status EXCEPT ![c] = "Destroyed"],
           \A s \in Surfaces : s # framebuffer[c] =>
               place'[s] = place[s] /\ creator'[s] = creator[s]
    PROVE  BoundInv'
<1>1. /\ framebuffer'[c] \notin Surfaces
      /\ \A d \in Contexts \ {c} : framebuffer'[d] = framebuffer[d] /\ status'[d] = status[d]
  BY DistinctAssumption DEF TypeOK
<1>2. QED
  BY <1>1 DEF BoundInv, Exists

LEMMA BoundGiven ==
    ASSUME TypeOK, BoundInv, NEW c \in Contexts, NEW s \in Surfaces, Exists(c),
           place[s] = "free", creator[s] = id[c], UNCHANGED <<status, id, creator>>,
           framebuffer' = [framebuffer EXCEPT ![c] = s],
           place' = [place EXCEPT ![s] = "bound"]
    PROVE  BoundInv'
<1>1. /\ framebuffer'[c] = s /\ place'[s] = "bound"
      /\ \A d \in Contexts \ {c} : framebuffer'[d] = framebuffer[d] /\ framebuffer[d] # s
      /\ \A r \in Surfaces \ {s} : place'[r] = place[r]
  BY DEF TypeOK, BoundInv
<1>2. QED
  BY <1>1 DEF BoundInv, Exists

LEMMA BoundNext == TypeOK /\ BoundInv /\ [Next]_vars => BoundInv'
<1> SUFFICES ASSUME TypeOK, BoundInv, [Next]_vars
             PROVE  BoundInv'
  OBVIOUS
<1>1. CASE UNCHANGED vars
  BY <1>1, BoundKept DEF vars, contextVars, surfaceVars
<1>2. ASSUME NEW t \in Threads, MakeNoContextCurrent(t)
      PROVE  BoundInv'
  BY <1>2, BoundKept DEF MakeNoContextCurrent, contextVars, surfaceVars
<1>3. ASSUME NEW t \in Threads, NEW c \in Contexts, CreateContext(t, c)
      PROVE  BoundInv'
  <2>1. CASE UNCHANGED <<status, id, framebuffer>>
    BY <1>3, <2>1, BoundKept DEF CreateContext, surfaceVars
  <2>2. CASE /\ status' = [status EXCEPT ![c] = "Owned"]
             /\ id' = [id EXCEPT ![c] = nextId']
             /\ framebuffer' = [framebuffer EXCEPT ![c] = NoSurface]
    BY <1>3, <2>2, BoundCreated DEF CreateContext, TakeId, surfaceVars
  <2>3. QED
    BY <1>3, <2>1, <2>2 DEF CreateContext, contextVars
<1>4. ASSUME NEW t \in Threads, NEW c \in Contexts, CreateContextFromNative(t, c)
      PROVE  BoundInv'
  BY <1>4, BoundCreated DEF CreateContextFromNative, surfaceVars
<1>5. ASSUME NEW c \in Contexts, DestroyContext(c)
      PROVE  BoundInv'
  <2>1. CASE UNCHANGED <<contextVars, surfaceVars>>
    BY <2>1, BoundKept DEF contextVars, surfaceVars
  <2>2. CASE framebuffer' = [framebuffer EXCEPT ![c] = NoSurface]
    <3>1. \A s \in Surfaces : s # framebuffer[c] =>
             place'[s] = place[s] /\ creator'[s] = creator[s]
      BY <1>5 DEF DestroyContext, Gone, surfaceVars, TypeOK
    <3>2. UNCHANGED id /\ (status' = status \/ status' = [status EXCEPT ![c] = "Destroyed"])
      BY <1>5 DEF DestroyContext, contextVars
    <3>3. QED
      BY <2>2, <3>1, <3>2, BoundTaken
  <2>3. QED
    BY <1>5, <2>1, <2>2 DEF DestroyContext
<1>6. ASSUME NEW c \in Contexts, MakeContextCurrent(c) \/ PresentBoundSurface(c)
      PROVE  BoundInv'
  BY <1>6, BoundKept DEF MakeContextCurrent, PresentBoundSurface, contextVars, surfaceVars
<1>7. ASSUME NEW c \in Contexts, UnbindSurface(c)
      PROVE  BoundInv'
  <2>1. CASE UNCHANGED <<framebuffer, place>>
    BY <1>7, <2>1, BoundKept DEF UnbindSurface
  <2>2. ASSUME NEW s \in Surfaces, framebuffer[c] = s,
               framebuffer' = [framebuffer EXCEPT ![c] = NoSurface],
               place' = [place EXCEPT ![s] = "free"]
        PROVE  BoundInv'
    BY <1>7, <2>2, BoundTaken DEF UnbindSurface, TypeOK
  <2>3. QED
    BY <1>7, <2>1, <2>2 DEF UnbindSurface
<1>8. ASSUME NEW c \in Contexts, NEW s \in Surfaces, BindSurface(c, s)
      PROVE  BoundInv'
  <2>1. CASE UNCHANGED <<framebuffer, place>>
    BY <1>8, <2>1, BoundKept DEF BindSurface
  <2>2. CASE /\ creator[s] = id[c] /\ framebuffer' = [framebuffer EXCEPT ![c] = s]
             /\ place' = [place EXCEPT ![s] = "bound"]
    BY <1>8, <2>2, BoundGiven DEF BindSurface, MayCall
  <2>3. QED
    BY <1>8, <2>1, <2>2 DEF BindSurface
<1>9. ASSUME NEW c \in Contexts, NEW s \in Surfaces,
             \/ PresentSurface(c, s)
             \/ CreatePbufferSurface(c, s) \/ CreateWindowSurface(c, s)
             \/ CreateSurfaceTexture(c, s) \/ CreateSurfaceTextureFromTexture(c, s)
             \/ DestroySurfaceTexture(c, s) \/ DestroySurface(c, s)
      PROVE  BoundInv'
  <2>1. UNCHANGED <<status, id, framebuffer>> /\ place[s] # "bound"
    BY <1>9 DEF PresentSurface, CreatePbufferSurface, CreateWindowSurface,
       CreateSurfaceTexture, CreateSurfaceTextureFromTexture, DestroySurfaceTexture,
       DestroySurface, contextVars
  <2>2. \A r \in Surfaces \ {s} : place'[r] = place[r] /\ creator'[r] = creator[r]
    <3>1. UNCHANGED place \/ \E where : place' = [place EXCEPT ![s] = where]
      BY <1>9 DEF PresentSurface, CreatePbufferSurface, CreateWindowSurface,
         CreateSurfaceTexture, CreateSurfaceTextureFromTexture, DestroySurfaceTexture,
         DestroySurface, surfaceVars, New, Gone
    <3>2. UNCHANGED creator \/ \E i : creator' = [creator EXCEPT ![s] = i]
      BY <1>9 DEF PresentSurface, CreatePbufferSurface, CreateWindowSurface,
         CreateSurfaceTexture, CreateSurfaceTextureFromTexture, DestroySurfaceTexture,
         DestroySurface, surfaceVars, New, Gone
    <3>3. QED
      BY <3>1, <3>2 DEF TypeOK
  <2>3. QED
    BY <2>1, <2>2, BoundKept
<1>10. QED
  BY <1>1, <1>2, <1>3, <1>4, <1>5, <1>6, <1>7, <1>8, <1>9 DEF Next

\* Who should hold the mutex of a surface.
Holder(s) ==
    CASE Keyed(s) /\ place[s] = "bound" -> "renderer"
      [] Keyed(s) /\ place[s] = "texture" -> "reader"
      [] OTHER -> "nobody"

\* A step that moves one surface, and changes its mutex with it.
LEMMA MutexMoved ==
    ASSUME TypeOK, MutexFollowsUse, NEW s \in Surfaces,
           UNCHANGED sync \/ \E kind : sync' = [sync EXCEPT ![s] = kind],
           UNCHANGED place \/ \E where : place' = [place EXCEPT ![s] = where],
           UNCHANGED mutex \/ \E holder : mutex' = [mutex EXCEPT ![s] = holder],
           mutex'[s] = Holder(s)',
           \A t \in Threads : stopped'[t] # "waits"
    PROVE  MutexFollowsUse'
<1>1. \A r \in Surfaces \ {s} : sync'[r] = sync[r] /\ place'[r] = place[r]
                             /\ mutex'[r] = mutex[r]
  BY DEF TypeOK
<1>2. \A r \in Surfaces \ {s} : mutex'[r] = Holder(r)'
  BY <1>1 DEF MutexFollowsUse, Holder, Keyed
<1>3. QED
  BY <1>2 DEF MutexFollowsUse, Holder, Keyed

LEMMA MutexKept ==
    ASSUME MutexFollowsUse, UNCHANGED <<sync, place, mutex>>,
           UNCHANGED stopped \/ \E t \in Threads : stopped' = [stopped EXCEPT ![t] = "panic"],
           TypeOK
    PROVE  MutexFollowsUse'
<1>1. \A t \in Threads : stopped'[t] # "waits"
  BY DEF MutexFollowsUse, TypeOK
<1>2. QED
  BY <1>1 DEF MutexFollowsUse, Keyed

LEMMA MutexNext ==
    ASSUME "bind_tex_image" \notin Faults
    PROVE  TypeOK /\ BoundInv /\ MutexFollowsUse /\ [Next]_vars => MutexFollowsUse'
<1> SUFFICES ASSUME TypeOK, BoundInv, MutexFollowsUse, [Next]_vars
             PROVE  MutexFollowsUse'
  OBVIOUS
<1>0. /\ \A s \in Surfaces : mutex[s] = Holder(s)
      /\ \A t \in Threads : stopped[t] # "waits"
      /\ \A s \in Surfaces : place[s] \notin {"bound", "texture"} => Free(s) /\ mutex[s] = "nobody"
  BY DEF MutexFollowsUse, Holder, Free, Keyed
<1>1. CASE UNCHANGED vars
  BY <1>1, MutexKept DEF vars, surfaceVars
<1>2. ASSUME NEW t \in Threads, MakeNoContextCurrent(t)
      PROVE  MutexFollowsUse'
  BY <1>2, MutexKept DEF MakeNoContextCurrent, surfaceVars, Returns
<1>3. ASSUME NEW t \in Threads, NEW c \in Contexts,
             CreateContext(t, c) \/ CreateContextFromNative(t, c)
      PROVE  MutexFollowsUse'
  BY <1>3, MutexKept DEF CreateContext, CreateContextFromNative, surfaceVars, Returns
<1>4. ASSUME NEW c \in Contexts, DestroyContext(c)
      PROVE  MutexFollowsUse'
  <2>1. thread[c] \in Threads
    BY DEF TypeOK
  <2>2. UNCHANGED stopped \/ stopped' = [stopped EXCEPT ![thread[c]] = "panic"]
    BY <1>4 DEF DestroyContext, Returns, Stops
  <2>3. \A t \in Threads : stopped'[t] # "waits"
    BY <1>0, <2>1, <2>2 DEF TypeOK
  <2>4. CASE UNCHANGED surfaceVars
    BY <2>1, <2>2, <2>4, MutexKept DEF surfaceVars
  <2>5. ASSUME NEW s \in Surfaces, framebuffer[c] = s, Release(s),
               \/ Gone(s, "absent")
               \/ place' = [place EXCEPT ![s] = "lost"] /\ UNCHANGED sync
        PROVE  MutexFollowsUse'
    <3>1. place'[s] \notin {"bound", "texture"} /\ mutex'[s] = "nobody"
      BY <2>5 DEF Release, Gone, TypeOK
    <3>2. mutex'[s] = Holder(s)'
      BY <3>1 DEF Holder
    <3>3. QED
      BY <2>3, <2>5, <3>2, MutexMoved DEF Release, Gone
  <2>6. QED
    BY <1>4, <2>4, <2>5 DEF DestroyContext
<1>5. ASSUME NEW c \in Contexts, MakeContextCurrent(c) \/ PresentBoundSurface(c)
      PROVE  MutexFollowsUse'
  BY <1>5, MutexKept DEF MakeContextCurrent, PresentBoundSurface, surfaceVars, Returns
<1>6. ASSUME NEW c \in Contexts, UnbindSurface(c)
      PROVE  MutexFollowsUse'
  <2>1. UNCHANGED <<sync, stopped>>
    BY <1>6 DEF UnbindSurface, Returns
  <2>2. CASE UNCHANGED <<place, mutex>>
    BY <2>1, <2>2, MutexKept
  <2>3. ASSUME NEW s \in Surfaces, place' = [place EXCEPT ![s] = "free"], Release(s)
        PROVE  MutexFollowsUse'
    <3>1. mutex'[s] = Holder(s)'
      BY <2>3 DEF Holder, Release, TypeOK
    <3>2. QED
      BY <1>0, <2>1, <2>3, <3>1, MutexMoved DEF Release
  <2>4. QED
    BY <1>6, <2>2, <2>3 DEF UnbindSurface
<1>7. ASSUME NEW c \in Contexts, NEW s \in Surfaces, BindSurface(c, s)
      PROVE  MutexFollowsUse'
  <2>1. UNCHANGED sync /\ place[s] = "free" /\ Free(s)
    BY <1>0, <1>7 DEF BindSurface
  <2>2. UNCHANGED stopped
    BY <1>7, <2>1 DEF BindSurface, Returns
  <2>3. CASE UNCHANGED <<place, mutex>>
    BY <2>1, <2>2, <2>3, MutexKept
  <2>4. CASE Acquire(s, "renderer") /\ place' = [place EXCEPT ![s] = "bound"]
    <3>1. mutex'[s] = Holder(s)'
      BY <1>0, <2>1, <2>4 DEF Holder, Keyed, Acquire, TypeOK
    <3>2. QED
      BY <1>0, <2>1, <2>2, <2>4, <3>1, MutexMoved DEF Acquire
  <2>5. QED
    BY <1>7, <2>3, <2>4 DEF BindSurface
<1>8. ASSUME NEW c \in Contexts, NEW s \in Surfaces,
             \/ CreatePbufferSurface(c, s) \/ CreateWindowSurface(c, s)
             \/ CreateSurfaceTextureFromTexture(c, s)
      PROVE  MutexFollowsUse'
  <2>1. UNCHANGED <<mutex, stopped>> /\ place[s] = "absent"
    BY <1>8 DEF CreatePbufferSurface, CreateWindowSurface, CreateSurfaceTextureFromTexture,
       New, Returns
  <2>2. CASE UNCHANGED <<place, sync>>
    BY <2>1, <2>2, MutexKept
  <2>3. ASSUME NEW kind, NEW where \in {"free", "own_texture"}, New(c, s, kind, where)
        PROVE  MutexFollowsUse'
    <3>1. mutex'[s] = Holder(s)'
      BY <1>0, <2>1, <2>3 DEF Holder, New, TypeOK
    <3>2. QED
      BY <1>0, <2>1, <2>3, <3>1, MutexMoved DEF New
  <2>4. QED
    BY <1>8, <2>2, <2>3 DEF CreatePbufferSurface, CreateWindowSurface,
       CreateSurfaceTextureFromTexture
<1>9. ASSUME NEW c \in Contexts, NEW s \in Surfaces, CreateSurfaceTexture(c, s)
      PROVE  MutexFollowsUse'
  <2>1. UNCHANGED sync /\ place[s] = "free" /\ Free(s)
    BY <1>0, <1>9 DEF CreateSurfaceTexture
  <2>2. UNCHANGED stopped
    BY <1>9, <2>1 DEF CreateSurfaceTexture, Returns
  <2>3. CASE UNCHANGED <<place, mutex>>
    BY <2>1, <2>2, <2>3, MutexKept
  <2>4. CASE Acquire(s, "reader") /\ place' = [place EXCEPT ![s] = "texture"]
    <3>1. mutex'[s] = Holder(s)'
      BY <1>0, <2>1, <2>4 DEF Holder, Keyed, Acquire, TypeOK
    <3>2. QED
      BY <1>0, <2>1, <2>2, <2>4, <3>1, MutexMoved DEF Acquire
  <2>5. QED
    BY <1>9, <2>3, <2>4 DEF CreateSurfaceTexture
<1>10. ASSUME NEW c \in Contexts, NEW s \in Surfaces, DestroySurfaceTexture(c, s)
      PROVE  MutexFollowsUse'
  <2>1. UNCHANGED <<sync, stopped>> /\ place' = [place EXCEPT ![s] = "free"]
    BY <1>10 DEF DestroySurfaceTexture, Returns
  <2>2. UNCHANGED mutex \/ mutex' = [mutex EXCEPT ![s] = "nobody"]
    BY <1>10 DEF DestroySurfaceTexture, Release
  <2>3. mutex'[s] = "nobody"
    BY <1>0, <1>10 DEF DestroySurfaceTexture, Release, TypeOK
  <2>4. mutex'[s] = Holder(s)'
    BY <2>1, <2>3 DEF Holder, TypeOK
  <2>5. QED
    BY <1>0, <2>1, <2>2, <2>4, MutexMoved
<1>11. ASSUME NEW c \in Contexts, NEW s \in Surfaces, DestroySurface(c, s)
      PROVE  MutexFollowsUse'
  <2>1. UNCHANGED stopped
    BY <1>11 DEF DestroySurface, Returns
  <2>2. CASE UNCHANGED surfaceVars
    BY <2>1, <2>2, MutexKept DEF surfaceVars
  <2>3. CASE Gone(s, "absent") /\ mutex' = [mutex EXCEPT ![s] = "nobody"]
    <3>1. mutex'[s] = Holder(s)'
      BY <2>3 DEF Holder, Gone, TypeOK
    <3>2. QED
      BY <1>0, <2>1, <2>3, <3>1, MutexMoved DEF Gone
  <2>4. QED
    BY <1>11, <2>2, <2>3 DEF DestroySurface
<1>12. ASSUME NEW c \in Contexts, NEW s \in Surfaces, PresentSurface(c, s)
      PROVE  MutexFollowsUse'
  BY <1>12, MutexKept DEF PresentSurface, surfaceVars, Returns
<1>13. QED
  BY <1>1, <1>2, <1>3, <1>4, <1>5, <1>6, <1>7, <1>8, <1>9, <1>10, <1>11, <1>12 DEF Next

-----------------------------------------------------------------------------
(* ANGLE: the surfaces that EGL has current. *)

\* A pair that may be current: its surface is alive and was made by its context.
Shows(p) ==
    p.surface \in Surfaces =>
        /\ p.context \in Contexts /\ creator[p.surface] = id[p.context]
        /\ place[p.surface] \notin {"absent", "own_texture"}
        /\ p.surface \notin dead

LiveInv ==
    /\ \A t \in Threads : Shows(current[t])
    /\ \A c \in Contexts : framebuffer[c] \notin dead

LEMMA BoundShows ==
    ASSUME BoundInv, LiveInv, NEW c \in Contexts
    PROVE  Shows([context |-> c, surface |-> framebuffer[c]])
  BY DEF BoundInv, LiveInv, Shows

LEMMA SwitchShows ==
    ASSUME TypeOK, NEW now \in [Threads -> Pairs], \A t \in Threads : Shows(now[t]),
           NEW c \in Contexts, NEW u \in Threads,
           NEW s, Shows([context |-> c, surface |-> s])
    PROVE  \A t \in Threads :
               Shows([now EXCEPT ![u] = [context |-> c, surface |-> s]][t])
<1>1. [now EXCEPT ![u] = [context |-> c, surface |-> s]][u] = [context |-> c, surface |-> s]
  OBVIOUS
<1>2. \A t \in Threads \ {u} :
         [now EXCEPT ![u] = [context |-> c, surface |-> s]][t] = now[t]
  OBVIOUS
<1>3. QED
  BY <1>1, <1>2

LEMMA NothingShows ==
    ASSUME TypeOK, LiveInv, NEW u \in Threads
    PROVE  \A t \in Threads : Shows(Nothing(u)[t])
<1>1. /\ Nothing(u)[u] = NoneCurrent
      /\ \A t \in Threads \ {u} : Nothing(u)[t] = current[t]
  BY DEF Nothing, TypeOK
<1>2. Shows(NoneCurrent)
  BY DistinctAssumption DEF Shows, NoneCurrent
<1>3. QED
  BY <1>1, <1>2 DEF LiveInv

LEMMA GuardShows ==
    ASSUME TypeOK, BoundInv, LiveInv, NEW c \in Contexts, NEW now \in AfterGuard(c)
    PROVE  now \in [Threads -> Pairs] /\ \A t \in Threads : Shows(now[t])
<1>1. /\ current \in [Threads -> Pairs] /\ thread[c] \in Threads
      /\ [context |-> c, surface |-> framebuffer[c]] \in Pairs
  BY DEF TypeOK, Pairs
<1>2. now = current \/ now = Switched(thread[c], c, framebuffer[c])
  BY DEF AfterGuard
<1>3. \A t \in Threads :
         Shows([current EXCEPT ![thread[c]] = [context |-> c, surface |-> framebuffer[c]]][t])
  BY <1>1, BoundShows, SwitchShows DEF LiveInv
<1>4. QED
  BY <1>1, <1>2, <1>3 DEF Switched, LiveInv

\* A step that harms no surface it leaves current, and binds none that is dead.
LEMMA LiveKept ==
    ASSUME LiveInv, UNCHANGED id, \A t \in Threads : Shows(current'[t]),
           \A t \in Threads, s \in Surfaces :
               /\ current'[t].surface = s
               /\ place[s] \notin {"absent", "own_texture"} /\ s \notin dead
               => /\ creator'[s] = creator[s]
                  /\ place'[s] \notin {"absent", "own_texture"} /\ s \notin dead',
           \A c \in Contexts : framebuffer'[c] \notin dead'
    PROVE  LiveInv'
<1>1. ASSUME NEW t \in Threads, current'[t].surface \in Surfaces
      PROVE  /\ current'[t].context \in Contexts
             /\ creator'[current'[t].surface] = id'[current'[t].context]
             /\ place'[current'[t].surface] \notin {"absent", "own_texture"}
             /\ current'[t].surface \notin dead'
  BY <1>1 DEF Shows
<1>2. QED
  BY <1>1 DEF LiveInv, Shows

\* A surface is current in no thread but that of the context that made it.
LEMMA OnlyHere ==
    ASSUME TypeOK, LiveInv, IdsDiffer, NEW c \in Contexts, Exists(c), NEW s \in Surfaces,
           creator[s] = id[c], NEW t \in Threads, t # thread[c]
    PROVE  current[t].surface # s
<1> SUFFICES ASSUME current[t].surface = s
             PROVE  FALSE
  OBVIOUS
<1>1. current[t].context \in Contexts /\ id[current[t].context] = id[c]
  BY DEF LiveInv, Shows
<1>2. Exists(current[t].context) /\ thread[current[t].context] = t
  BY <1>1, DistinctAssumption DEF TypeOK
<1>3. QED
  BY <1>1, <1>2 DEF IdsDiffer

LEMMA LiveCreated ==
    ASSUME TypeOK, LiveInv, NEW t \in Threads, NEW c \in Contexts,
           CreateContext(t, c) \/ CreateContextFromNative(t, c)
    PROVE  LiveInv'
<1>1. UNCHANGED surfaceVars /\ status[c] = "Absent"
  BY DEF CreateContext, CreateContextFromNative
<1>2. \A d \in Contexts \ {c} : id'[d] = id[d]
  BY DEF CreateContext, CreateContextFromNative, contextVars, TypeOK
<1>3. \A d \in Contexts : framebuffer'[d] \in {framebuffer[d], NoSurface, External}
  BY DEF CreateContext, CreateContextFromNative, contextVars, TypeOK
<1>4. \/ current' = current
      \/ current' = [current EXCEPT ![t] = [context |-> c, surface |-> NoSurface]]
  BY DEF CreateContext, CreateContextFromNative, Switched
<1>5. ASSUME NEW u \in Threads, current'[u].surface \in Surfaces
      PROVE  /\ current'[u] = current[u] /\ current[u].context \in Contexts \ {c}
             /\ id'[current[u].context] = id[current[u].context]
  <2>1. current'[u] = current[u]
    BY <1>4, <1>5, DistinctAssumption DEF TypeOK
  <2>2. current[u].context \in Contexts
    BY <1>5, <2>1 DEF LiveInv, Shows
  <2>3. current[u].context # c
    BY <1>1, <2>2, DistinctAssumption DEF TypeOK, Exists
  <2>4. QED
    BY <1>2, <2>1, <2>2, <2>3
<1>6. \A d \in Contexts : framebuffer'[d] \notin dead'
  BY <1>1, <1>3, DistinctAssumption DEF LiveInv, surfaceVars, TypeOK
<1>7. ASSUME NEW u \in Threads, current'[u].surface \in Surfaces
      PROVE  /\ current'[u].context \in Contexts
             /\ creator'[current'[u].surface] = id'[current'[u].context]
             /\ place'[current'[u].surface] \notin {"absent", "own_texture"}
             /\ current'[u].surface \notin dead'
  BY <1>1, <1>5, <1>7 DEF LiveInv, Shows, surfaceVars
<1>8. QED
  BY <1>6, <1>7 DEF LiveInv, Shows

LEMMA LiveDestroyed ==
    ASSUME TypeOK, BoundInv, IdsDiffer, LiveInv, NEW c \in Contexts, DestroyContext(c)
    PROVE  LiveInv'
<1>1. thread[c] \in Threads /\ UNCHANGED id
  BY DEF DestroyContext, contextVars, TypeOK
<1>2. CASE UNCHANGED <<contextVars, current, surfaceVars>>
  BY <1>2, LiveKept DEF contextVars, surfaceVars, LiveInv
<1>3. CASE /\ Exists(c)
           /\ framebuffer' = [framebuffer EXCEPT ![c] = NoSurface]
           /\ current' = Nothing(thread[c])
           /\ UNCHANGED surfaceVars
  <2>1. \A d \in Contexts : framebuffer'[d] \in {framebuffer[d], NoSurface}
    BY <1>3 DEF TypeOK
  <2>2. \A d \in Contexts : framebuffer'[d] \notin dead'
    BY <1>3, <2>1, DistinctAssumption DEF LiveInv, surfaceVars, TypeOK
  <2>3. QED
    BY <1>1, <1>3, <2>2, NothingShows, LiveKept DEF surfaceVars
<1>4. ASSUME NEW s \in Surfaces, framebuffer[c] = s, Exists(c),
             framebuffer' = [framebuffer EXCEPT ![c] = NoSurface],
             \/ current' = Nothing(thread[c]) /\ Gone(s, "absent")
             \/ /\ place' = [place EXCEPT ![s] = "lost"]
                /\ UNCHANGED <<current, creator, dead>>
      PROVE  LiveInv'
  <2>1. \A d \in Contexts : framebuffer'[d] \in {framebuffer[d], NoSurface}
    BY <1>4 DEF TypeOK
  <2>2. dead' \subseteq dead
    BY <1>4 DEF Gone
  <2>3. \A d \in Contexts : framebuffer'[d] \notin dead'
    BY <2>1, <2>2, DistinctAssumption DEF LiveInv, TypeOK
  <2>4. creator[s] = id[c]
    BY <1>4 DEF BoundInv
  <2>5. CASE current' = Nothing(thread[c]) /\ Gone(s, "absent")
    <3>1. \A t \in Threads : current'[t].surface # s
      <4>1. current'[thread[c]] = NoneCurrent
        BY <1>1, <2>5 DEF Nothing, TypeOK
      <4>2. \A t \in Threads \ {thread[c]} : current'[t] = current[t]
        BY <2>5 DEF Nothing, TypeOK
      <4>3. QED
        BY <1>4, <2>4, <4>1, <4>2, OnlyHere, DistinctAssumption DEF NoneCurrent
    <3>2. \A r \in Surfaces \ {s} : creator'[r] = creator[r] /\ place'[r] = place[r]
      BY <2>5 DEF Gone, TypeOK
    <3>3. \A t \in Threads : Shows(current'[t])
      BY <1>1, <2>5, NothingShows
    <3>4. QED
      BY <1>1, <2>2, <2>3, <3>1, <3>2, <3>3, LiveKept
  <2>6. CASE place' = [place EXCEPT ![s] = "lost"] /\ UNCHANGED <<current, creator, dead>>
    <3>1. \A r \in Surfaces : place'[r] = place[r] \/ place'[r] = "lost"
      BY <2>6 DEF TypeOK
    <3>2. QED
      BY <1>1, <2>3, <2>6, <3>1, LiveKept DEF LiveInv
  <2>7. QED
    BY <1>4, <2>5, <2>6
<1>5. QED
  BY <1>2, <1>3, <1>4 DEF DestroyContext, MayCall

LEMMA LiveBound ==
    ASSUME TypeOK, BoundInv, LiveInv, "reuse_wrapped" \notin Misuse,
           NEW c \in Contexts, NEW s \in Surfaces, BindSurface(c, s)
    PROVE  LiveInv'
<1>1. /\ UNCHANGED <<id, creator, dead>> /\ thread[c] \in Threads
      /\ place[s] = "free" /\ s \notin dead
  BY DEF BindSurface, Usable, TypeOK
<1>2. CASE UNCHANGED <<framebuffer, current, place>>
  BY <1>1, <1>2, LiveKept DEF LiveInv
<1>3. CASE /\ creator[s] = id[c] /\ Bound(c, s)
           /\ framebuffer' = [framebuffer EXCEPT ![c] = s]
           /\ place' = [place EXCEPT ![s] = "bound"]
  <2>1. \A d \in Contexts : framebuffer'[d] \notin dead'
    BY <1>1, <1>3 DEF LiveInv, TypeOK
  <2>2. \A r \in Surfaces : place'[r] = place[r] \/ place'[r] = "bound"
    BY <1>3 DEF TypeOK
  <2>3. Shows([context |-> c, surface |-> s])
    BY <1>1, <1>3 DEF Shows
  <2>4. current \in [Threads -> Pairs] /\ \A t \in Threads : Shows(current[t])
    BY DEF TypeOK, Pairs, LiveInv
  <2>5. PICK now \in IF sync[s] = "GLFinish" THEN AfterGuard(c) ELSE {current} :
           \/ current' = Switched(thread[c], c, s)
           \/ current' = now
    BY <1>3 DEF Bound
  <2>6. \A t \in Threads : Shows(now[t])
    BY <2>4, <2>5, GuardShows
  <2>7. \A t \in Threads :
           Shows([current EXCEPT ![thread[c]] = [context |-> c, surface |-> s]][t])
    BY <1>1, <2>3, <2>4, SwitchShows
  <2>8. \A t \in Threads : Shows(current'[t])
    BY <2>5, <2>6, <2>7 DEF Switched
  <2>9. QED
    BY <1>1, <2>1, <2>2, <2>8, LiveKept
<1>4. QED
  BY <1>2, <1>3 DEF BindSurface

LEMMA LiveSurface ==
    ASSUME TypeOK, BoundInv, IdsDiffer, LiveInv, NEW c \in Contexts, NEW s \in Surfaces,
           \/ PresentSurface(c, s)
           \/ CreatePbufferSurface(c, s) \/ CreateWindowSurface(c, s)
           \/ CreateSurfaceTexture(c, s) \/ CreateSurfaceTextureFromTexture(c, s)
           \/ DestroySurfaceTexture(c, s) \/ DestroySurface(c, s)
    PROVE  LiveInv'
<1>1. UNCHANGED <<id, framebuffer>> /\ thread[c] \in Threads /\ Exists(c)
  BY DEF PresentSurface, CreatePbufferSurface, CreateWindowSurface, CreateSurfaceTexture,
     CreateSurfaceTextureFromTexture, DestroySurfaceTexture, DestroySurface, contextVars,
     MayCall, TypeOK
<1>2. \A t \in Threads : Shows(current[t])
  BY DEF LiveInv
<1>3. CASE PresentSurface(c, s)
  BY <1>1, <1>2, <1>3, LiveKept DEF PresentSurface, surfaceVars, LiveInv
<1>4. CASE CreatePbufferSurface(c, s) \/ CreateWindowSurface(c, s)
           \/ CreateSurfaceTextureFromTexture(c, s)
  <2>1. place[s] = "absent" /\ UNCHANGED dead
    BY <1>4 DEF CreatePbufferSurface, CreateWindowSurface, CreateSurfaceTextureFromTexture
  <2>2. \A r \in Surfaces \ {s} : creator'[r] = creator[r] /\ place'[r] = place[r]
    BY <1>4 DEF CreatePbufferSurface, CreateWindowSurface, CreateSurfaceTextureFromTexture,
       New, TypeOK
  <2>3. current' = current \/ current' \in AfterGuard(c)
    BY <1>4 DEF CreatePbufferSurface, CreateWindowSurface, CreateSurfaceTextureFromTexture
  <2>4. \A t \in Threads : Shows(current'[t])
    BY <1>2, <2>3, GuardShows
  <2>5. QED
    BY <1>1, <2>1, <2>2, <2>4, LiveKept DEF LiveInv
<1>5. CASE CreateSurfaceTexture(c, s)
  <2>1. place[s] = "free" /\ UNCHANGED <<creator, dead>>
    BY <1>5 DEF CreateSurfaceTexture
  <2>2. \A r \in Surfaces : place'[r] = place[r] \/ place'[r] = "texture"
    BY <1>5 DEF CreateSurfaceTexture, TypeOK
  <2>3. current' = current \/ current' \in AfterGuard(c)
    BY <1>5 DEF CreateSurfaceTexture
  <2>4. \A t \in Threads : Shows(current'[t])
    BY <1>2, <2>3, GuardShows
  <2>5. QED
    BY <1>1, <2>1, <2>2, <2>4, LiveKept DEF LiveInv
<1>6. CASE DestroySurfaceTexture(c, s)
  <2>1. UNCHANGED <<current, creator>> /\ place[s] # "bound"
    BY <1>6 DEF DestroySurfaceTexture
  <2>2. \A r \in Surfaces : place'[r] = place[r] \/ place'[r] = "free"
    BY <1>6 DEF DestroySurfaceTexture, TypeOK
  <2>3. dead' = dead \/ (place[s] = "own_texture" /\ dead' = dead \cup {s})
    BY <1>6 DEF DestroySurfaceTexture
  <2>4. \A d \in Contexts : framebuffer'[d] \notin dead'
    BY <1>1, <2>1, <2>3 DEF LiveInv, BoundInv
  <2>5. QED
    BY <1>1, <1>2, <2>1, <2>2, <2>3, <2>4, LiveKept
<1>7. CASE DestroySurface(c, s)
  <2>1. CASE UNCHANGED <<current, surfaceVars>>
    BY <1>1, <1>2, <2>1, LiveKept DEF surfaceVars, LiveInv
  <2>2. CASE creator[s] = id[c] /\ ReleaseSurface(thread[c], s) /\ Gone(s, "absent")
    <3>1. \A t \in Threads : Shows(current'[t])
      BY <1>1, <1>2, <2>2, NothingShows DEF ReleaseSurface
    <3>2. \A t \in Threads : current'[t].surface # s
      <4>1. \A t \in Threads \ {thread[c]} : current'[t] = current[t]
        BY <2>2 DEF ReleaseSurface, Nothing, TypeOK
      <4>2. current'[thread[c]].surface # s
        BY <1>1, <2>2, DistinctAssumption DEF ReleaseSurface, Nothing, NoneCurrent, TypeOK
      <4>3. QED
        BY <1>1, <2>2, <4>1, <4>2, OnlyHere
    <3>3. \A r \in Surfaces \ {s} : creator'[r] = creator[r] /\ place'[r] = place[r]
      BY <2>2 DEF Gone, TypeOK
    <3>4. dead' \subseteq dead
      BY <2>2 DEF Gone
    <3>5. QED
      BY <1>1, <3>1, <3>2, <3>3, <3>4, LiveKept DEF LiveInv
  <2>3. QED
    BY <1>7, <2>1, <2>2 DEF DestroySurface
<1>8. QED
  BY <1>3, <1>4, <1>5, <1>6, <1>7

LEMMA LiveNext ==
    ASSUME "reuse_wrapped" \notin Misuse
    PROVE  TypeOK /\ BoundInv /\ IdsDiffer /\ LiveInv /\ [Next]_vars => LiveInv'
<1> SUFFICES ASSUME TypeOK, BoundInv, IdsDiffer, LiveInv, [Next]_vars
             PROVE  LiveInv'
  OBVIOUS
<1>0. IdsDiffer /\ \A t \in Threads : Shows(current[t])
  BY DEF LiveInv
<1>1. CASE UNCHANGED vars
  BY <1>0, <1>1, LiveKept DEF vars, contextVars, surfaceVars, LiveInv
<1>2. ASSUME NEW t \in Threads, MakeNoContextCurrent(t)
      PROVE  LiveInv'
  BY <1>0, <1>2, NothingShows, LiveKept DEF MakeNoContextCurrent, contextVars, surfaceVars,
     LiveInv
<1>3. ASSUME NEW t \in Threads, NEW c \in Contexts,
             CreateContext(t, c) \/ CreateContextFromNative(t, c)
      PROVE  LiveInv'
  BY <1>3, LiveCreated
<1>4. ASSUME NEW c \in Contexts, DestroyContext(c)
      PROVE  LiveInv'
  BY <1>0, <1>4, LiveDestroyed
<1>5. ASSUME NEW c \in Contexts, MakeContextCurrent(c) \/ PresentBoundSurface(c)
      PROVE  LiveInv'
  <2>1. UNCHANGED <<contextVars, surfaceVars>> /\ thread[c] \in Threads
    BY <1>5 DEF MakeContextCurrent, PresentBoundSurface, TypeOK
  <2>2. current' = current
        \/ current' = [current EXCEPT ![thread[c]] = [context |-> c, surface |-> framebuffer[c]]]
    BY <1>5 DEF MakeContextCurrent, PresentBoundSurface, Switched
  <2>3. current \in [Threads -> Pairs]
    BY DEF TypeOK, Pairs
  <2>4. \A t \in Threads : Shows(current'[t])
    BY <1>0, <2>1, <2>2, <2>3, BoundShows, SwitchShows
  <2>5. QED
    BY <2>1, <2>4, LiveKept DEF contextVars, surfaceVars, LiveInv
<1>6. ASSUME NEW c \in Contexts, UnbindSurface(c)
      PROVE  LiveInv'
  <2>1. UNCHANGED <<id, current, creator, dead>>
    BY <1>6 DEF UnbindSurface
  <2>2. \A d \in Contexts : framebuffer'[d] \in {framebuffer[d], NoSurface}
    BY <1>6 DEF UnbindSurface, TypeOK
  <2>3. \A r \in Surfaces : place'[r] = place[r] \/ place'[r] = "free"
    BY <1>6 DEF UnbindSurface, TypeOK
  <2>4. \A d \in Contexts : framebuffer'[d] \notin dead'
    BY <2>1, <2>2, DistinctAssumption DEF LiveInv, TypeOK
  <2>5. QED
    BY <1>0, <2>1, <2>3, <2>4, LiveKept
<1>7. ASSUME NEW c \in Contexts, NEW s \in Surfaces, BindSurface(c, s)
      PROVE  LiveInv'
  BY <1>7, LiveBound
<1>8. ASSUME NEW c \in Contexts, NEW s \in Surfaces,
             \/ PresentSurface(c, s)
             \/ CreatePbufferSurface(c, s) \/ CreateWindowSurface(c, s)
             \/ CreateSurfaceTexture(c, s) \/ CreateSurfaceTextureFromTexture(c, s)
             \/ DestroySurfaceTexture(c, s) \/ DestroySurface(c, s)
      PROVE  LiveInv'
  BY <1>0, <1>8, LiveSurface
<1>9. QED
  BY <1>1, <1>2, <1>3, <1>4, <1>5, <1>6, <1>7, <1>8 DEF Next

-----------------------------------------------------------------------------
(* ANGLE: the theorems. *)

\* A step of the back end that leads to ANGLE is one of ANGLE, or leaves it alone.
LEMMA AngleStep ==
    [AngleNext \/ WglNext]_mcVars /\ backend' = "angle" => backend = "angle" /\ [Next]_vars
  BY DEF AngleNext, WglNext, mcVars

LEMMA AngleInit == MCInit /\ backend = "angle" => Init
  BY DEF MCInit

\* Of the contexts that exist, in whatever threads, two that share an id were made in
\* different ways: create_context reads the counter after it is advanced and
\* create_context_from_native_context before, and each keeps its own contexts apart.
THEOREM KindsKeepTheirIds == MCSpec => []KindsKeepIds
<1> DEFINE Inv == backend = "angle" => TypeOK /\ IdInv
<1>1. MCInit => Inv
  BY AngleInit, TypeInit, DistinctAssumption DEF Init, IdInv, SameKindIdsDiffer, Exists
<1>2. Inv /\ [AngleNext \/ WglNext]_mcVars => Inv'
  BY AngleStep, TypeNext, IdNext
<1>3. Inv => KindsKeepIds
  BY DEF KindsKeepIds, IdInv
<1>4. QED
  BY <1>1, <1>2, <1>3, PTL DEF MCSpec

\* The keyed mutex of a surface's texture is held exactly while the surface is bound or
\* read, by whom it should be, and no thread ever waits for one: bind_surface, unbinding,
\* destroying and the exchange between threads keep it in step, unless eglBindTexImage
\* fails after the mutex has been acquired.
THEOREM MutexFollowsSurface ==
    ASSUME "bind_tex_image" \notin Faults
    PROVE  MCSpec => []MutexHeldInUse
<1> DEFINE Inv == backend = "angle" => TypeOK /\ BoundInv /\ MutexFollowsUse
<1>1. MCInit => Inv
  BY AngleInit, TypeInit, DistinctAssumption DEF Init, BoundInv, MutexFollowsUse, Keyed
<1>2. Inv /\ [AngleNext \/ WglNext]_mcVars => Inv'
  BY AngleStep, TypeNext, BoundNext, MutexNext
<1>3. Inv => MutexHeldInUse
  BY DEF MutexHeldInUse
<1>4. QED
  BY <1>1, <1>2, <1>3, PTL DEF MCSpec

\* What EGL has current in any thread is a surface that exists, whichever calls fail, as
\* long as no two contexts were given one id and no surface is used after the texture that
\* create_surface_texture_from_texture made of it is destroyed: destroy_surface looks only
\* at its own thread, but is refused in every thread other than that of the context that
\* made the surface.
THEOREM NoThreadShowsDeadSurface ==
    ASSUME "reuse_wrapped" \notin Misuse
    PROVE  MCSpec => []NoDeadSurfaceCurrent
<1> DEFINE Inv == backend = "angle" => TypeOK /\ BoundInv /\ (IdShared \/ LiveInv)
<1>1. MCInit => Inv
  <2>1. Init => LiveInv
    BY DistinctAssumption DEF Init, LiveInv, Shows, NoneCurrent
  <2>2. QED
    BY <2>1, AngleInit, TypeInit, DistinctAssumption DEF Init, BoundInv
<1>2. Inv /\ [AngleNext \/ WglNext]_mcVars => Inv'
  <2>1. IdShared \/ IdsDiffer
    BY DEF IdShared, IdsDiffer, Exists
  <2>2. QED
    BY <2>1, AngleStep, TypeNext, BoundNext, SharedStays, LiveNext
<1>3. Inv => NoDeadSurfaceCurrent
  BY DEF NoDeadSurfaceCurrent, CurrentSurfaceLives, LiveInv, Shows
<1>4. QED
  BY <1>1, <1>2, <1>3, PTL DEF MCSpec

-----------------------------------------------------------------------------
(* WGL: type correctness. *)

WglType ==
    /\ status \in [Contexts -> {"Absent", "Owned", "Referenced", "Destroyed"}]
    /\ glrc \in [Contexts -> Contexts]
    /\ framebuffer \in [Contexts -> Surfaces \cup {NoSurface, External}]
    /\ pair \in [glrc : Contexts \cup {NoContext}, dc : Contexts \cup Surfaces \cup {External}]
    /\ textures \in [Contexts -> SUBSET Names]
    /\ fbo \in [Contexts -> Surfaces \cup {NoSurface}]
    /\ place \in [Surfaces -> {"absent", "free", "bound", "texture", "lost"}]
    /\ widget \subseteq Surfaces
    /\ creator \in [Surfaces -> Contexts \cup {NoContext}]
    /\ name \in [Surfaces -> Names \cup {NoName}]
    /\ locked \subseteq Surfaces
    /\ reader \in [Surfaces -> [context : Contexts \cup {NoContext}, name : Names \cup {NoName}]]
    /\ result \in {"ok", "err", "panic"}

LEMMA WglContextType ==
    ASSUME WglType, NEW c \in Contexts,
           Wgl!CreateContext(c) \/ \E d \in Contexts : Wgl!CreateContextFromNative(c, d)
    PROVE  WglType'
<1>1. UNCHANGED <<pair, textures, fbo, place, widget, creator, name, locked, reader>>
  BY DEF Wgl!CreateContext, Wgl!CreateContextFromNative, Wgl!GuardRestores, Wgl!glVars,
     Wgl!surfaceVars
<1>2. status' \in [Contexts -> {"Absent", "Owned", "Referenced", "Destroyed"}]
  BY DEF Wgl!CreateContext, Wgl!CreateContextFromNative, WglType
<1>3. /\ glrc' \in [Contexts -> Contexts]
      /\ framebuffer' \in [Contexts -> Surfaces \cup {NoSurface, External}]
  BY DEF Wgl!CreateContext, Wgl!CreateContextFromNative, WglType
<1>4. result' \in {"ok", "err", "panic"}
  BY DEF Wgl!CreateContext, Wgl!CreateContextFromNative
<1>5. QED
  BY <1>1, <1>2, <1>3, <1>4 DEF WglType

LEMMA WglDestroyType ==
    ASSUME WglType, NEW c \in Contexts, Wgl!DestroyContext(c)
    PROVE  WglType'
<1>1. UNCHANGED <<glrc, reader>>
  BY DEF Wgl!DestroyContext, Wgl!contextVars, Wgl!surfaceVars
<1>2. status' \in [Contexts -> {"Absent", "Owned", "Referenced", "Destroyed"}]
  BY DEF Wgl!DestroyContext, Wgl!contextVars, Wgl!Forget, WglType
<1>3. framebuffer' \in [Contexts -> Surfaces \cup {NoSurface, External}]
  BY DEF Wgl!DestroyContext, Wgl!contextVars, Wgl!Forget, WglType
<1>4. pair' = pair \/ pair' = Wgl!NoneCurrent
  BY DEF Wgl!DestroyContext, Wgl!Forget, Wgl!MayFailMakeCurrent
<1>5. UNCHANGED Wgl!glVars \/ \E s \in Surfaces : Wgl!DeleteObjects(s, glrc[c])
  BY DEF Wgl!DestroyContext
<1>6. textures' \in [Contexts -> SUBSET Names]
  BY <1>5 DEF Wgl!glVars, Wgl!DeleteObjects, WglType
<1>7. fbo' \in [Contexts -> Surfaces \cup {NoSurface}]
  BY <1>5 DEF Wgl!glVars, Wgl!DeleteObjects, WglType
<1>8. \/ UNCHANGED <<place, creator, name, widget, locked>>
      \/ \E s \in Surfaces, where \in {"absent", "lost"} :
            Wgl!Gone(s, where) /\ Wgl!UnlockSurface(s)
  BY DEF Wgl!DestroyContext, Wgl!surfaceVars
<1>9. place' \in [Surfaces -> {"absent", "free", "bound", "texture", "lost"}]
  BY <1>8 DEF Wgl!Gone, WglType
<1>10. creator' \in [Surfaces -> Contexts \cup {NoContext}]
  BY <1>8 DEF Wgl!Gone, WglType
<1>11. name' \in [Surfaces -> Names \cup {NoName}]
  BY <1>8 DEF Wgl!Gone, WglType
<1>12. widget' \subseteq Surfaces /\ locked' \subseteq Surfaces
  BY <1>8 DEF Wgl!Gone, Wgl!UnlockSurface, WglType
<1>13. pair' \in [glrc : Contexts \cup {NoContext}, dc : Contexts \cup Surfaces \cup {External}]
  BY <1>4 DEF Wgl!NoneCurrent, WglType
<1>14. result' \in {"ok", "err", "panic"}
  BY DEF Wgl!DestroyContext
<1>15. QED
  BY <1>1, <1>2, <1>3, <1>6, <1>7, <1>9, <1>10, <1>11, <1>12, <1>13, <1>14 DEF WglType

LEMMA WglCallType ==
    ASSUME WglType, NEW c \in Contexts,
           \/ Wgl!MakeNoContextCurrent
           \/ Wgl!MakeContextCurrent(c) \/ Wgl!PresentBoundSurface(c) \/ Wgl!Draw(c)
           \/ Wgl!UnbindSurface(c) \/ \E s \in Surfaces : Wgl!BindSurface(c, s)
    PROVE  WglType'
<1>1. UNCHANGED <<status, glrc, textures, widget, creator, name, reader>>
  BY DEF Wgl!MakeNoContextCurrent, Wgl!MakeContextCurrent, Wgl!PresentBoundSurface, Wgl!Draw,
     Wgl!UnbindSurface, Wgl!BindSurface, Wgl!contextVars, Wgl!glVars, Wgl!surfaceVars
<1>2. framebuffer' \in [Contexts -> Surfaces \cup {NoSurface, External}]
  BY DEF Wgl!MakeNoContextCurrent, Wgl!MakeContextCurrent, Wgl!PresentBoundSurface, Wgl!Draw,
     Wgl!UnbindSurface, Wgl!BindSurface, Wgl!contextVars, WglType
<1>3. \/ pair' = pair \/ pair' = Wgl!NoneCurrent \/ pair' = Wgl!Of(c)
      \/ \E s \in Surfaces : pair' = [glrc |-> glrc[c], dc |-> s]
      \/ pair' = [glrc |-> glrc[c], dc |-> c]
  BY DEF Wgl!MakeNoContextCurrent, Wgl!MakeContextCurrent, Wgl!PresentBoundSurface, Wgl!Draw,
     Wgl!UnbindSurface, Wgl!BindSurface, Wgl!Rebind, Wgl!MayFailMakeCurrent
<1>4. /\ Wgl!ContextDc(c) \in Contexts \cup Surfaces
      /\ glrc[c] \in Contexts
  BY DEF Wgl!ContextDc, WglType
<1>5. pair' \in [glrc : Contexts \cup {NoContext}, dc : Contexts \cup Surfaces \cup {External}]
  BY <1>3, <1>4 DEF Wgl!NoneCurrent, Wgl!Of, WglType
<1>6. fbo' \in [Contexts -> Surfaces \cup {NoSurface}]
  BY DEF Wgl!MakeNoContextCurrent, Wgl!MakeContextCurrent, Wgl!PresentBoundSurface, Wgl!Draw,
     Wgl!UnbindSurface, Wgl!BindSurface, Wgl!glVars, WglType
<1>7. place' \in [Surfaces -> {"absent", "free", "bound", "texture", "lost"}]
  BY DEF Wgl!MakeNoContextCurrent, Wgl!MakeContextCurrent, Wgl!PresentBoundSurface, Wgl!Draw,
     Wgl!UnbindSurface, Wgl!BindSurface, Wgl!surfaceVars, WglType
<1>8. locked' \subseteq Surfaces
  BY DEF Wgl!MakeNoContextCurrent, Wgl!MakeContextCurrent, Wgl!PresentBoundSurface, Wgl!Draw,
     Wgl!UnbindSurface, Wgl!BindSurface, Wgl!surfaceVars, Wgl!UnlockSurface, Wgl!LockSurface,
     WglType
<1>9. result' \in {"ok", "err", "panic"}
  BY DEF Wgl!MakeNoContextCurrent, Wgl!MakeContextCurrent, Wgl!PresentBoundSurface, Wgl!Draw,
     Wgl!UnbindSurface, Wgl!BindSurface, Wgl!Present
<1>10. QED
  BY <1>1, <1>2, <1>5, <1>6, <1>7, <1>8, <1>9 DEF WglType

\* A call on a surface changes what belongs to that surface, the textures and the
\* framebuffer binding of its context; everything else it leaves alone.
LEMMA WglSurfaceCall ==
    ASSUME WglType, NEW c \in Contexts, NEW s \in Surfaces, Wgl!OnSurface(c, s)
    PROVE  /\ UNCHANGED <<status, glrc, framebuffer, pair, locked>>
           /\ Wgl!MayCall(c) /\ place[s] \in {"absent", "free", "texture"}
           /\ UNCHANGED widget \/ widget' = widget \cup {s} \/ widget' = widget \ {s}
           /\ UNCHANGED place
                 \/ \E w \in {"absent", "free", "texture"} : place' = [place EXCEPT ![s] = w]
           /\ UNCHANGED <<creator, name>>
                 \/ \E d \in {c, NoContext}, n \in Names \cup {NoName} :
                       /\ creator' = [creator EXCEPT ![s] = d]
                       /\ name' = [name EXCEPT ![s] = n]
           /\ UNCHANGED reader
                 \/ \E r \in [context : Contexts \cup {NoContext}, name : Names \cup {NoName}] :
                       reader' = [reader EXCEPT ![s] = r]
           /\ result' \in {"ok", "err"}
<1>1. CASE Wgl!CreateGenericSurface(c, s)
  BY <1>1 DEF Wgl!CreateGenericSurface, Wgl!GuardRestores, Wgl!Made, Wgl!Refused,
     Wgl!MayFailMakeCurrent, Wgl!contextVars, Wgl!surfaceVars
<1>2. CASE Wgl!CreateWidgetSurface(c, s)
  BY <1>2 DEF Wgl!CreateWidgetSurface, Wgl!Made, Wgl!contextVars
<1>3. CASE Wgl!DestroySurface(c, s)
  BY <1>3 DEF Wgl!DestroySurface, Wgl!GuardRestores, Wgl!Gone, Wgl!Refused,
     Wgl!MayFailMakeCurrent, Wgl!contextVars, Wgl!surfaceVars
<1>4. CASE Wgl!PresentSurface(c, s)
  BY <1>4 DEF Wgl!PresentSurface, Wgl!Present, Wgl!contextVars, Wgl!surfaceVars
<1>5. CASE Wgl!CreateSurfaceTexture(c, s)
  BY <1>5 DEF Wgl!CreateSurfaceTexture, Wgl!GuardRestores, Wgl!Refused,
     Wgl!MayFailMakeCurrent, Wgl!contextVars, Wgl!surfaceVars
<1>6. CASE Wgl!DestroySurfaceTexture(c, s)
  BY <1>6 DEF Wgl!DestroySurfaceTexture, Wgl!GuardRestores, Wgl!Refused, Wgl!NoReader,
     Wgl!MayFailMakeCurrent, Wgl!contextVars, Wgl!surfaceVars
<1>7. QED
  BY <1>1, <1>2, <1>3, <1>4, <1>5, <1>6 DEF Wgl!OnSurface

LEMMA WglSurfaceType ==
    ASSUME WglType, NEW c \in Contexts, NEW s \in Surfaces, Wgl!OnSurface(c, s)
    PROVE  WglType'
<1>1. UNCHANGED <<status, glrc, framebuffer, pair, locked>> /\ result' \in {"ok", "err"}
  BY WglSurfaceCall
<1>2. textures' \in [Contexts -> SUBSET Names]
  BY DEF Wgl!OnSurface, Wgl!CreateGenericSurface, Wgl!CreateWidgetSurface, Wgl!DestroySurface,
     Wgl!PresentSurface, Wgl!CreateSurfaceTexture, Wgl!DestroySurfaceTexture, Wgl!Refused,
     Wgl!DeleteObjects, Wgl!glVars, WglType
<1>3. fbo' \in [Contexts -> Surfaces \cup {NoSurface}]
  BY DEF Wgl!OnSurface, Wgl!CreateGenericSurface, Wgl!CreateWidgetSurface, Wgl!DestroySurface,
     Wgl!PresentSurface, Wgl!CreateSurfaceTexture, Wgl!DestroySurfaceTexture, Wgl!Refused,
     Wgl!DeleteObjects, Wgl!BindingRestored, Wgl!glVars, WglType
<1>4. place' \in [Surfaces -> {"absent", "free", "bound", "texture", "lost"}]
  BY WglSurfaceCall DEF WglType
<1>5. widget' \subseteq Surfaces
  BY WglSurfaceCall DEF WglType
<1>6. creator' \in [Surfaces -> Contexts \cup {NoContext}]
  <2>1. UNCHANGED creator \/ \E d \in {c, NoContext} : creator' = [creator EXCEPT ![s] = d]
    BY WglSurfaceCall
  <2>2. QED
    BY <2>1 DEF WglType
<1>7. name' \in [Surfaces -> Names \cup {NoName}]
  BY WglSurfaceCall DEF WglType
<1>8. reader' \in [Surfaces -> [context : Contexts \cup {NoContext},
                              name : Names \cup {NoName}]]
  <2>1. UNCHANGED reader
        \/ \E r \in [context : Contexts \cup {NoContext}, name : Names \cup {NoName}] :
              reader' = [reader EXCEPT ![s] = r]
    BY WglSurfaceCall
  <2>2. QED
    BY <2>1 DEF WglType
<1>9. QED
  BY <1>1, <1>2, <1>3, <1>4, <1>5, <1>6, <1>7, <1>8 DEF WglType

LEMMA WglTypeNext == WglType /\ [Wgl!Next]_(Wgl!vars) => WglType'
<1> SUFFICES ASSUME WglType, [Wgl!Next]_(Wgl!vars)
             PROVE  WglType'
  OBVIOUS
<1>1. CASE UNCHANGED Wgl!vars
  BY <1>1 DEF Wgl!vars, Wgl!contextVars, Wgl!glVars, Wgl!surfaceVars, WglType
<1>2. CASE Wgl!MakeNoContextCurrent
  <2>1. /\ UNCHANGED <<status, glrc, framebuffer, textures, fbo, place, widget, creator, name,
                       locked, reader>>
        /\ pair' \in {pair, Wgl!NoneCurrent} /\ result' \in {"ok", "err"}
    BY <1>2 DEF Wgl!MakeNoContextCurrent, Wgl!MayFailMakeCurrent, Wgl!contextVars,
       Wgl!glVars, Wgl!surfaceVars
  <2>2. QED
    BY <2>1 DEF WglType, Wgl!NoneCurrent
<1>3. ASSUME NEW c \in Contexts,
             \/ Wgl!MakeContextCurrent(c) \/ Wgl!PresentBoundSurface(c) \/ Wgl!Draw(c)
             \/ Wgl!OnContext(c)
             \/ \E s \in Surfaces : Wgl!OnSurface(c, s)
      PROVE  WglType'
  BY <1>3, WglContextType, WglDestroyType, WglCallType, WglSurfaceType DEF Wgl!OnContext
<1>4. QED
  BY <1>1, <1>2, <1>3 DEF Wgl!Next

\* A step of the back end that leads to WGL is one of WGL, or leaves it alone.
LEMMA WglStep ==
    [AngleNext \/ WglNext]_mcVars /\ backend' = "wgl"
    => backend = "wgl" /\ [Wgl!Next]_(Wgl!vars)
  BY DEF AngleNext, WglNext, mcVars, vars, contextVars, surfaceVars, wglOnly, Wgl!vars,
     Wgl!contextVars, Wgl!glVars, Wgl!surfaceVars

LEMMA WglInit == MCInit /\ backend = "wgl" => Wgl!Init
  BY DEF MCInit

LEMMA WglTypeInit == Wgl!Init => WglType
  BY DEF Wgl!Init, WglType, Wgl!NoneCurrent, Wgl!NoReader

-----------------------------------------------------------------------------
(* WGL: bound surfaces and their locks. *)

\* A bound surface is bound to one context, which exists and made it.
WglBoundInv ==
    \A c \in Contexts : framebuffer[c] \in Surfaces =>
        /\ status[c] \in {"Owned", "Referenced"}
        /\ place[framebuffer[c]] = "bound"
        /\ creator[framebuffer[c]] = c
        /\ \A d \in Contexts \ {c} : framebuffer[d] # framebuffer[c]

LEMMA WglBoundNext ==
    WglType /\ WglBoundInv /\ [Wgl!Next]_(Wgl!vars) => WglBoundInv'
<1> SUFFICES ASSUME WglType, WglBoundInv, [Wgl!Next]_(Wgl!vars)
             PROVE  WglBoundInv'
  OBVIOUS
<1> USE DistinctAssumption
<1>1. CASE UNCHANGED Wgl!vars
  BY <1>1 DEF Wgl!vars, Wgl!contextVars, Wgl!glVars, Wgl!surfaceVars, WglBoundInv
<1>2. CASE Wgl!MakeNoContextCurrent
  BY <1>2 DEF Wgl!MakeNoContextCurrent, Wgl!contextVars, Wgl!surfaceVars, WglBoundInv
<1>3. ASSUME NEW c \in Contexts,
             Wgl!MakeContextCurrent(c) \/ Wgl!PresentBoundSurface(c) \/ Wgl!Draw(c)
      PROVE  WglBoundInv'
  BY <1>3 DEF Wgl!MakeContextCurrent, Wgl!PresentBoundSurface, Wgl!Draw, Wgl!contextVars,
     Wgl!surfaceVars, WglBoundInv
<1>4. ASSUME NEW c \in Contexts,
             Wgl!CreateContext(c) \/ \E d \in Contexts : Wgl!CreateContextFromNative(c, d)
      PROVE  WglBoundInv'
  <2>1. status[c] = "Absent" /\ UNCHANGED <<place, creator>>
    BY <1>4 DEF Wgl!CreateContext, Wgl!CreateContextFromNative, Wgl!surfaceVars
  <2>2. framebuffer'[c] \notin Surfaces
    BY <1>4, <2>1 DEF Wgl!CreateContext, Wgl!CreateContextFromNative, WglType, WglBoundInv
  <2>3. \A d \in Contexts \ {c} : framebuffer'[d] = framebuffer[d] /\ status'[d] = status[d]
    BY <1>4 DEF Wgl!CreateContext, Wgl!CreateContextFromNative, WglType
  <2>4. QED
    BY <2>1, <2>2, <2>3 DEF WglBoundInv
<1>5. ASSUME NEW c \in Contexts, Wgl!DestroyContext(c)
      PROVE  WglBoundInv'
  <2>1. CASE UNCHANGED <<status, framebuffer, place, creator>>
    BY <2>1 DEF WglBoundInv
  <2>2. CASE framebuffer' = [framebuffer EXCEPT ![c] = NoSurface]
    <3>1. framebuffer'[c] \notin Surfaces
      BY <2>2 DEF WglType
    <3>2. \A d \in Contexts \ {c} : framebuffer'[d] = framebuffer[d] /\ status'[d] = status[d]
      BY <1>5, <2>2 DEF Wgl!DestroyContext, Wgl!contextVars, Wgl!Forget, WglType
    <3>3. \A s \in Surfaces : s # framebuffer[c] =>
             place'[s] = place[s] /\ creator'[s] = creator[s]
      BY <1>5 DEF Wgl!DestroyContext, Wgl!surfaceVars, Wgl!Gone, WglType
    <3>4. QED
      BY <3>1, <3>2, <3>3 DEF WglBoundInv
  <2>3. QED
    BY <1>5, <2>1, <2>2 DEF Wgl!DestroyContext, Wgl!Forget, Wgl!contextVars, Wgl!surfaceVars
<1>6. ASSUME NEW c \in Contexts, Wgl!UnbindSurface(c)
      PROVE  WglBoundInv'
  <2>1. framebuffer'[c] \notin Surfaces /\ UNCHANGED <<status, creator>>
    BY <1>6 DEF Wgl!UnbindSurface, WglType
  <2>2. \A d \in Contexts \ {c} : framebuffer'[d] = framebuffer[d]
    BY <1>6 DEF Wgl!UnbindSurface, WglType
  <2>3. \A s \in Surfaces : s # framebuffer[c] => place'[s] = place[s]
    BY <1>6 DEF Wgl!UnbindSurface, WglType
  <2>4. QED
    BY <2>1, <2>2, <2>3 DEF WglBoundInv
<1>7. ASSUME NEW c \in Contexts, NEW s \in Surfaces, Wgl!BindSurface(c, s)
      PROVE  WglBoundInv'
  <2>1. UNCHANGED <<status, creator>> /\ place[s] = "free"
        /\ status[c] \in {"Owned", "Referenced"}
    BY <1>7 DEF Wgl!BindSurface, Wgl!MayCall
  <2>2. CASE UNCHANGED <<framebuffer, place>>
    BY <2>1, <2>2 DEF WglBoundInv
  <2>3. CASE /\ creator[s] = c /\ framebuffer' = [framebuffer EXCEPT ![c] = s]
             /\ place' = [place EXCEPT ![s] = "bound"]
    <3>1. /\ framebuffer'[c] = s /\ place'[s] = "bound"
          /\ \A d \in Contexts \ {c} : framebuffer'[d] = framebuffer[d] /\ framebuffer[d] # s
          /\ \A r \in Surfaces \ {s} : place'[r] = place[r]
      BY <2>1, <2>3 DEF WglType, WglBoundInv
    <3>2. QED
      BY <2>1, <2>3, <3>1 DEF WglBoundInv
  <2>4. QED
    BY <1>7, <2>2, <2>3 DEF Wgl!BindSurface
<1>8. ASSUME NEW c \in Contexts, NEW s \in Surfaces, Wgl!OnSurface(c, s)
      PROVE  WglBoundInv'
  <2>1. UNCHANGED <<status, framebuffer>> /\ place[s] # "bound"
    BY <1>8, WglSurfaceCall
  <2>2. \A r \in Surfaces \ {s} : place'[r] = place[r]
    BY <1>8, WglSurfaceCall DEF WglType
  <2>3. \A r \in Surfaces \ {s} : creator'[r] = creator[r]
    <3>1. UNCHANGED creator \/ \E d \in {c, NoContext} : creator' = [creator EXCEPT ![s] = d]
      BY <1>8, WglSurfaceCall
    <3>2. QED
      BY <3>1 DEF WglType
  <2>4. QED
    BY <2>1, <2>2, <2>3 DEF WglBoundInv
<1>9. QED
  BY <1>1, <1>2, <1>3, <1>4, <1>5, <1>6, <1>7, <1>8 DEF Wgl!Next, Wgl!OnContext

\* A step that changes the lock of one surface, and what it is bound to, together.
LEMMA LockMoved ==
    ASSUME WglType, Wgl!LockedWhileBound, NEW s \in Surfaces,
           locked' \ {s} = locked \ {s}, widget' \ {s} = widget \ {s},
           \A r \in Surfaces \ {s} : (\E c \in Contexts : framebuffer'[c] = r)
                                   <=> (\E c \in Contexts : framebuffer[c] = r),
           s \in locked' <=> s \notin widget' /\ \E c \in Contexts : framebuffer'[c] = s
    PROVE  Wgl!LockedWhileBound'
  BY DEF Wgl!LockedWhileBound, Wgl!Generic

\* What a context that had surface s, or none, has now is no other surface.
LEMMA LockFreed ==
    ASSUME WglType, WglBoundInv, Wgl!LockedWhileBound, NEW c \in Contexts,
           framebuffer' = [framebuffer EXCEPT ![c] = NoSurface],
           locked' = locked \ {framebuffer[c]},
           widget' = widget \/ widget' = widget \ {framebuffer[c]}
    PROVE  Wgl!LockedWhileBound'
<1>1. /\ framebuffer'[c] \notin Surfaces
      /\ \A d \in Contexts \ {c} : framebuffer'[d] = framebuffer[d]
  BY DistinctAssumption DEF WglType
<1>2. CASE framebuffer[c] \in Surfaces
  BY <1>1, <1>2 DEF WglBoundInv, Wgl!LockedWhileBound, Wgl!Generic
<1>3. CASE framebuffer[c] \notin Surfaces
  BY <1>1, <1>3 DEF Wgl!LockedWhileBound, Wgl!Generic, WglType
<1>4. QED
  BY <1>2, <1>3

LEMMA LockNext ==
    WglType /\ WglBoundInv /\ Wgl!LockedWhileBound /\ [Wgl!Next]_(Wgl!vars)
    => Wgl!LockedWhileBound'
<1> SUFFICES ASSUME WglType, WglBoundInv, Wgl!LockedWhileBound, [Wgl!Next]_(Wgl!vars)
             PROVE  Wgl!LockedWhileBound'
  OBVIOUS
<1> USE DistinctAssumption
<1>0. ASSUME UNCHANGED <<framebuffer, locked, widget>>
      PROVE  Wgl!LockedWhileBound'
  BY <1>0 DEF Wgl!LockedWhileBound, Wgl!Generic
<1>1. CASE UNCHANGED Wgl!vars
  BY <1>0, <1>1 DEF Wgl!vars, Wgl!contextVars, Wgl!surfaceVars
<1>2. CASE Wgl!MakeNoContextCurrent
  BY <1>0, <1>2 DEF Wgl!MakeNoContextCurrent, Wgl!contextVars, Wgl!surfaceVars
<1>3. ASSUME NEW c \in Contexts,
             Wgl!MakeContextCurrent(c) \/ Wgl!PresentBoundSurface(c) \/ Wgl!Draw(c)
      PROVE  Wgl!LockedWhileBound'
  BY <1>0, <1>3 DEF Wgl!MakeContextCurrent, Wgl!PresentBoundSurface, Wgl!Draw,
     Wgl!contextVars, Wgl!surfaceVars
<1>4. ASSUME NEW c \in Contexts,
             Wgl!CreateContext(c) \/ \E d \in Contexts : Wgl!CreateContextFromNative(c, d)
      PROVE  Wgl!LockedWhileBound'
  <2>1. status[c] = "Absent" /\ UNCHANGED <<locked, widget>>
    BY <1>4 DEF Wgl!CreateContext, Wgl!CreateContextFromNative, Wgl!surfaceVars
  <2>2. framebuffer[c] \notin Surfaces /\ framebuffer'[c] \notin Surfaces
    BY <1>4, <2>1 DEF Wgl!CreateContext, Wgl!CreateContextFromNative, WglType, WglBoundInv
  <2>3. \A d \in Contexts \ {c} : framebuffer'[d] = framebuffer[d]
    BY <1>4 DEF Wgl!CreateContext, Wgl!CreateContextFromNative, WglType
  <2>4. QED
    BY <2>1, <2>2, <2>3 DEF Wgl!LockedWhileBound, Wgl!Generic
<1>5. ASSUME NEW c \in Contexts, Wgl!DestroyContext(c)
      PROVE  Wgl!LockedWhileBound'
  <2>1. CASE UNCHANGED <<framebuffer, locked, widget>>
    BY <1>0, <2>1
  <2>2. CASE framebuffer[c] \notin Surfaces /\ Wgl!Forget(c) /\ UNCHANGED Wgl!surfaceVars
    <3>1. locked' = locked \ {framebuffer[c]} /\ widget' = widget
      BY <2>2 DEF Wgl!surfaceVars, WglType
    <3>2. QED
      BY <2>2, <3>1, LockFreed DEF Wgl!Forget
  <2>3. ASSUME NEW s \in Surfaces, framebuffer[c] = s, Wgl!UnlockSurface(s),
               framebuffer' = [framebuffer EXCEPT ![c] = NoSurface],
               widget' = widget \ {s}
        PROVE  Wgl!LockedWhileBound'
    BY <2>3, LockFreed DEF Wgl!UnlockSurface
  <2>4. QED
    BY <1>5, <2>1, <2>2, <2>3 DEF Wgl!DestroyContext, Wgl!contextVars, Wgl!surfaceVars,
       Wgl!Forget, Wgl!Gone
<1>6. ASSUME NEW c \in Contexts, Wgl!UnbindSurface(c)
      PROVE  Wgl!LockedWhileBound'
  <2>1. framebuffer' = [framebuffer EXCEPT ![c] = NoSurface] /\ UNCHANGED widget
    BY <1>6 DEF Wgl!UnbindSurface
  <2>2. locked' = locked \ {framebuffer[c]}
    BY <1>6 DEF Wgl!UnbindSurface, Wgl!UnlockSurface, WglType
  <2>3. QED
    BY <2>1, <2>2, LockFreed
<1>7. ASSUME NEW c \in Contexts, NEW s \in Surfaces, Wgl!BindSurface(c, s)
      PROVE  Wgl!LockedWhileBound'
  <2>1. CASE UNCHANGED <<framebuffer, locked>>
    BY <1>0, <1>7, <2>1 DEF Wgl!BindSurface
  <2>2. CASE /\ framebuffer[c] = NoSurface /\ Wgl!LockSurface(s)
             /\ framebuffer' = [framebuffer EXCEPT ![c] = s]
    <3>1. UNCHANGED widget /\ place[s] = "free"
      BY <1>7 DEF Wgl!BindSurface
    <3>2. /\ framebuffer'[c] = s
          /\ \A d \in Contexts \ {c} : framebuffer'[d] = framebuffer[d]
      BY <2>2 DEF WglType
    <3>3. s \notin locked
      BY <3>1 DEF Wgl!LockedWhileBound, WglBoundInv
    <3>4. locked' \ {s} = locked \ {s} /\ (s \in locked' <=> s \notin widget')
      BY <2>2, <3>1, <3>3 DEF Wgl!LockSurface, Wgl!Generic
    <3>5. QED
      BY <2>2, <3>1, <3>2, <3>4, LockMoved
  <2>3. QED
    BY <1>7, <2>1, <2>2 DEF Wgl!BindSurface
<1>8. ASSUME NEW c \in Contexts, NEW s \in Surfaces, Wgl!OnSurface(c, s)
      PROVE  Wgl!LockedWhileBound'
  <2>1. UNCHANGED <<framebuffer, locked>> /\ place[s] # "bound" /\ widget' \ {s} = widget \ {s}
    BY <1>8, WglSurfaceCall
  <2>2. \A d \in Contexts : framebuffer[d] # s
    BY <2>1 DEF WglBoundInv
  <2>3. s \notin locked
    BY <2>2 DEF Wgl!LockedWhileBound
  <2>4. QED
    BY <2>1, <2>2, <2>3, LockMoved
<1>9. QED
  BY <1>1, <1>2, <1>3, <1>4, <1>5, <1>6, <1>7, <1>8 DEF Wgl!Next, Wgl!OnContext

-----------------------------------------------------------------------------
(* WGL: what is drawn to. *)

\* A context on its own has its widget current with it.
DrawInv == Wgl!CurrentDrawsToWidget

LEMMA DrawKept ==
    ASSUME DrawInv, UNCHANGED <<glrc, pair>>,
           \A c \in Contexts : Wgl!MayCall(c)' => Wgl!MayCall(c),
           \A c \in Contexts : Wgl!MayCall(c) /\ Wgl!IsCurrent(c) => Wgl!MayCall(c)',
           \A c \in Contexts : framebuffer'[c] \in widget' =>
               framebuffer'[c] = framebuffer[c] /\ framebuffer[c] \in widget
    PROVE  DrawInv'
<1> SUFFICES ASSUME NEW c \in Contexts, Wgl!MayCall(c)', Wgl!IsCurrent(c)',
                    framebuffer'[c] \in widget',
                    \A d \in Contexts \ {c} : Wgl!MayCall(d)' => glrc'[d] # glrc'[c]
             PROVE  pair'.dc = framebuffer'[c]
  BY DEF DrawInv, Wgl!CurrentDrawsToWidget
<1>1. Wgl!MayCall(c) /\ Wgl!IsCurrent(c) /\ framebuffer[c] \in widget
  BY DEF Wgl!IsCurrent
<1>2. ASSUME NEW d \in Contexts \ {c}, Wgl!MayCall(d)
      PROVE  glrc[d] # glrc[c]
  <2>1. CASE Wgl!IsCurrent(d)
    BY <1>2, <2>1
  <2>2. CASE ~Wgl!IsCurrent(d)
    BY <1>1, <2>2 DEF Wgl!IsCurrent
  <2>3. QED
    BY <2>1, <2>2
<1>3. QED
  BY <1>1, <1>2 DEF DrawInv, Wgl!CurrentDrawsToWidget

\* A context that is made current, or bound while it is, is the only one to look at.
LEMMA DrawSwitched ==
    ASSUME WglType, NEW c \in Contexts, UNCHANGED glrc, Wgl!MayCall(c)',
           pair'.glrc = glrc[c],
           framebuffer'[c] \in widget' => pair'.dc = framebuffer'[c]
    PROVE  DrawInv'
  BY DEF DrawInv, Wgl!CurrentDrawsToWidget, Wgl!IsCurrent

LEMMA NoneDraws ==
    ASSUME WglType, UNCHANGED glrc, pair' = Wgl!NoneCurrent
    PROVE  DrawInv'
<1>1. \A c \in Contexts : pair'.glrc # glrc'[c]
  BY DistinctAssumption DEF WglType, Wgl!NoneCurrent
<1>2. QED
  BY <1>1 DEF DrawInv, Wgl!CurrentDrawsToWidget, Wgl!IsCurrent

LEMMA DrawDestroyed ==
    ASSUME WglType, WglBoundInv, DrawInv, NEW c \in Contexts, Wgl!DestroyContext(c)
    PROVE  DrawInv'
<1> USE DistinctAssumption
<1>1. CASE result' = "panic"
  BY <1>1 DEF DrawInv, Wgl!CurrentDrawsToWidget, Wgl!MayCall
<1>2. CASE UNCHANGED <<status, glrc, framebuffer, pair, widget>> /\ result' = "ok"
  BY <1>2, DrawKept DEF Wgl!MayCall, DrawInv, Wgl!CurrentDrawsToWidget, Wgl!DestroyContext,
     Wgl!IsCurrent
<1>3. CASE /\ Wgl!Forget(c) /\ UNCHANGED glrc /\ result' = "ok" /\ Wgl!MayCall(c)
           /\ widget' \subseteq widget
  <2>1. CASE Wgl!IsCurrent(c)
    BY <1>3, <2>1, NoneDraws DEF Wgl!Forget
  <2>2. CASE ~Wgl!IsCurrent(c)
    <3>1. UNCHANGED pair
      BY <1>3, <2>2 DEF Wgl!Forget
    <3>2. \A d \in Contexts \ {c} : framebuffer'[d] = framebuffer[d] /\ status'[d] = status[d]
      BY <1>3 DEF Wgl!Forget, WglType
    <3>3. framebuffer'[c] \notin Surfaces /\ status'[c] = "Destroyed"
      BY <1>3 DEF Wgl!Forget, WglType
    <3>4. result # "panic"
      BY <1>3 DEF Wgl!MayCall
    <3>5. \A d \in Contexts : Wgl!MayCall(d)' => Wgl!MayCall(d)
      BY <3>2, <3>3, <3>4 DEF Wgl!MayCall
    <3>6. \A d \in Contexts : Wgl!MayCall(d) /\ Wgl!IsCurrent(d) => Wgl!MayCall(d)'
      BY <1>3, <2>2, <3>2 DEF Wgl!MayCall
    <3>7. \A d \in Contexts : framebuffer'[d] \in widget' =>
             framebuffer'[d] = framebuffer[d] /\ framebuffer[d] \in widget
      BY <1>3, <3>2, <3>3 DEF WglType
    <3>8. QED
      BY <1>3, <3>1, <3>5, <3>6, <3>7, DrawKept
  <2>3. QED
    BY <2>1, <2>2
<1>4. QED
  BY <1>1, <1>2, <1>3 DEF Wgl!DestroyContext, Wgl!contextVars, Wgl!surfaceVars, Wgl!Gone

LEMMA DrawNext ==
    ASSUME "make_current" \notin WglFaults
    PROVE  WglType /\ WglBoundInv /\ DrawInv /\ [Wgl!Next]_(Wgl!vars) => DrawInv'
<1> SUFFICES ASSUME WglType, WglBoundInv, DrawInv, [Wgl!Next]_(Wgl!vars)
             PROVE  DrawInv'
  OBVIOUS
<1> USE DistinctAssumption
<1>1. CASE UNCHANGED Wgl!vars
  BY <1>1 DEF Wgl!vars, Wgl!contextVars, Wgl!surfaceVars, DrawInv, Wgl!CurrentDrawsToWidget,
     Wgl!MayCall, Wgl!IsCurrent
<1>2. CASE Wgl!MakeNoContextCurrent
  BY <1>2, NoneDraws DEF Wgl!MakeNoContextCurrent, Wgl!MayFailMakeCurrent, Wgl!contextVars
<1>3. ASSUME NEW c \in Contexts, Wgl!MakeContextCurrent(c)
      PROVE  DrawInv'
  <2>1. /\ pair' = [glrc |-> glrc[c], dc |-> Wgl!ContextDc(c)]
        /\ UNCHANGED <<status, glrc, framebuffer, widget>>
        /\ result' = "ok" /\ Wgl!MayCall(c)
    BY <1>3 DEF Wgl!MakeContextCurrent, Wgl!Of, Wgl!MayFailMakeCurrent, Wgl!contextVars,
       Wgl!surfaceVars
  <2>2. Wgl!MayCall(c)'
    BY <2>1 DEF Wgl!MayCall
  <2>3. pair'.glrc = glrc[c] /\ (framebuffer[c] \in widget => pair'.dc = framebuffer[c])
    BY <2>1 DEF Wgl!ContextDc
  <2>4. QED
    BY <2>1, <2>2, <2>3, DrawSwitched
<1>4. ASSUME NEW c \in Contexts, Wgl!PresentBoundSurface(c) \/ Wgl!Draw(c)
      PROVE  DrawInv'
  <2>1. UNCHANGED <<status, glrc, framebuffer, pair, widget>> /\ result' \in {"ok", "err"}
        /\ result # "panic"
    BY <1>4 DEF Wgl!PresentBoundSurface, Wgl!Draw, Wgl!Present, Wgl!contextVars,
       Wgl!surfaceVars, Wgl!MayCall
  <2>2. QED
    BY <2>1, DrawKept DEF Wgl!MayCall
<1>5. ASSUME NEW c \in Contexts,
             Wgl!CreateContext(c) \/ \E d \in Contexts : Wgl!CreateContextFromNative(c, d)
      PROVE  DrawInv'
  <2>1. status[c] = "Absent" /\ UNCHANGED <<pair, widget>> /\ result # "panic"
    BY <1>5 DEF Wgl!CreateContext, Wgl!CreateContextFromNative, Wgl!surfaceVars,
       Wgl!GuardRestores, Wgl!MayCall
  <2>2. framebuffer'[c] \notin Surfaces
    BY <1>5, <2>1 DEF Wgl!CreateContext, Wgl!CreateContextFromNative, WglType, WglBoundInv
  <2>3. \A d \in Contexts \ {c} : /\ framebuffer'[d] = framebuffer[d]
                                /\ status'[d] = status[d] /\ glrc'[d] = glrc[d]
    BY <1>5 DEF Wgl!CreateContext, Wgl!CreateContextFromNative, WglType
  <2>4. result' \in {"ok", "err"}
    BY <1>5 DEF Wgl!CreateContext, Wgl!CreateContextFromNative
  <2>5. ~Wgl!MayCall(c) /\ \A d \in Contexts \ {c} : Wgl!MayCall(d)' <=> Wgl!MayCall(d)
    BY <2>1, <2>3, <2>4 DEF Wgl!MayCall
  <2>6. ASSUME NEW e \in Contexts, Wgl!MayCall(e)', Wgl!IsCurrent(e)', framebuffer'[e] \in widget',
               \A d \in Contexts \ {e} : Wgl!MayCall(d)' => glrc'[d] # glrc'[e]
        PROVE  pair'.dc = framebuffer'[e]
    <3>1. e # c
      BY <2>1, <2>2, <2>6 DEF WglType
    <3>2. Wgl!MayCall(e) /\ Wgl!IsCurrent(e) /\ framebuffer[e] \in widget
      BY <2>1, <2>3, <2>5, <2>6, <3>1 DEF Wgl!IsCurrent
    <3>3. \A d \in Contexts \ {e} : Wgl!MayCall(d) => glrc[d] # glrc[e]
      BY <2>3, <2>5, <2>6, <3>1
    <3>4. QED
      BY <2>1, <2>3, <3>1, <3>2, <3>3 DEF DrawInv, Wgl!CurrentDrawsToWidget
  <2>7. QED
    BY <2>6 DEF DrawInv, Wgl!CurrentDrawsToWidget
<1>6. ASSUME NEW c \in Contexts, Wgl!DestroyContext(c)
      PROVE  DrawInv'
  BY <1>6, DrawDestroyed
<1>7. ASSUME NEW c \in Contexts, Wgl!UnbindSurface(c)
      PROVE  DrawInv'
  <2>1. UNCHANGED <<status, glrc, pair, widget>> /\ result' \in {"ok", "err"} /\ result # "panic"
    BY <1>7 DEF Wgl!UnbindSurface, Wgl!MayCall
  <2>2. \A d \in Contexts : framebuffer'[d] \in {framebuffer[d], NoSurface}
    BY <1>7 DEF Wgl!UnbindSurface, WglType
  <2>3. NoSurface \notin widget
    BY DEF WglType
  <2>4. QED
    BY <2>1, <2>2, <2>3, DrawKept DEF Wgl!MayCall
<1>8. ASSUME NEW c \in Contexts, NEW s \in Surfaces, Wgl!BindSurface(c, s)
      PROVE  DrawInv'
  <2>1. UNCHANGED <<status, glrc, widget>> /\ result' \in {"ok", "err"} /\ Wgl!MayCall(c)
    BY <1>8 DEF Wgl!BindSurface
  <2>2. \A d \in Contexts : Wgl!MayCall(d)' <=> Wgl!MayCall(d)
    BY <2>1 DEF Wgl!MayCall
  <2>3. CASE UNCHANGED <<framebuffer, pair>>
    BY <2>1, <2>2, <2>3, DrawKept
  <2>4. CASE framebuffer' = [framebuffer EXCEPT ![c] = s] /\ Wgl!Rebind(c, s)
    <3>1. /\ framebuffer'[c] = s
          /\ \A d \in Contexts \ {c} : framebuffer'[d] = framebuffer[d]
      BY <2>4 DEF WglType
    <3>2. CASE Wgl!IsCurrent(c)
      <4>1. pair' = [glrc |-> glrc[c], dc |-> IF s \in widget THEN s ELSE c]
        BY <2>4, <3>2 DEF Wgl!Rebind, Wgl!MayFailMakeCurrent
      <4>2. pair'.glrc = glrc[c] /\ (s \in widget => pair'.dc = s)
        BY <4>1
      <4>3. QED
        BY <2>1, <2>2, <3>1, <4>2, DrawSwitched
    <3>3. CASE ~Wgl!IsCurrent(c)
      <4>1. UNCHANGED pair
        BY <2>4, <3>3 DEF Wgl!Rebind
      <4>2. QED
        BY <2>1, <2>2, <3>1, <3>3, <4>1 DEF DrawInv, Wgl!CurrentDrawsToWidget, Wgl!IsCurrent
    <3>4. QED
      BY <3>2, <3>3
  <2>5. QED
    BY <1>8, <2>3, <2>4 DEF Wgl!BindSurface
<1>9. ASSUME NEW c \in Contexts, NEW s \in Surfaces, Wgl!OnSurface(c, s)
      PROVE  DrawInv'
  <2>1. /\ UNCHANGED <<status, glrc, framebuffer, pair>> /\ place[s] # "bound"
        /\ result' \in {"ok", "err"} /\ Wgl!MayCall(c)
        /\ widget' \ {s} = widget \ {s}
    BY <1>9, WglSurfaceCall
  <2>2. \A d \in Contexts : framebuffer[d] # s
    BY <1>9, <2>1 DEF WglBoundInv
  <2>3. \A d \in Contexts : framebuffer'[d] \in widget' => framebuffer[d] \in widget
    BY <2>1, <2>2
  <2>4. QED
    BY <2>1, <2>3, DrawKept DEF Wgl!MayCall
<1>10. QED
  BY <1>1, <1>2, <1>3, <1>4, <1>5, <1>6, <1>7, <1>8, <1>9 DEF Wgl!Next, Wgl!OnContext

-----------------------------------------------------------------------------
(* WGL: the names of textures. *)

\* A GL texture that belongs to a surface, "own", or to its surface texture, "read".
Objects == {"own", "read"} \X Surfaces

Maker(o) == IF o[1] = "own" THEN creator[o[2]] ELSE reader[o[2]].context
NameOf(o) == IF o[1] = "own" THEN name[o[2]] ELSE reader[o[2]].name
Textured(o) == Maker(o) \in Contexts /\ NameOf(o) \in Names

\* Every texture is one of the HGLRC it was made with, and has its name to itself there.
NameInv ==
    \A o \in Objects : Textured(o) =>
        /\ status[Maker(o)] # "Absent"
        /\ NameOf(o) \in textures[glrc[Maker(o)]]
        /\ \A p \in Objects \ {o} :
              Textured(p) /\ glrc[Maker(p)] = glrc[Maker(o)] => NameOf(p) # NameOf(o)

LEMMA ObjectOf ==
    ASSUME NEW s \in Surfaces
    PROVE  /\ <<"own", s>> \in Objects /\ Maker(<<"own", s>>) = creator[s]
           /\ NameOf(<<"own", s>>) = name[s]
           /\ <<"read", s>> \in Objects /\ Maker(<<"read", s>>) = reader[s].context
           /\ NameOf(<<"read", s>>) = reader[s].name
  BY DEF Objects, Maker, NameOf

\* A step that makes, forgets or leaves alone each texture.
LEMMA NamesKept ==
    ASSUME NameInv,
           \A o \in Objects : Textured(o)' =>
              /\ Textured(o) /\ Maker(o)' = Maker(o) /\ NameOf(o)' = NameOf(o)
              /\ glrc'[Maker(o)] = glrc[Maker(o)]
              /\ status'[Maker(o)] # "Absent"
              /\ NameOf(o) \in textures'[glrc[Maker(o)]]
    PROVE  NameInv'
<1> SUFFICES ASSUME NEW o \in Objects, Textured(o)'
             PROVE  /\ status'[Maker(o)'] # "Absent"
                    /\ NameOf(o)' \in textures'[glrc'[Maker(o)']]
                    /\ \A p \in Objects \ {o} :
                          Textured(p)' /\ glrc'[Maker(p)'] = glrc'[Maker(o)']
                          => NameOf(p)' # NameOf(o)'
  BY DEF NameInv
<1>1. QED
  BY DEF NameInv

LEMMA NameMade ==
    ASSUME WglType, NameInv, NEW o \in Objects, NEW c \in Contexts, NEW n,
           UNCHANGED glrc, UNCHANGED status, status[c] # "Absent",
           n \notin textures[glrc[c]],
           textures' = [textures EXCEPT ![glrc[c]] = @ \cup {n}],
           Maker(o)' = c, NameOf(o)' = n,
           \A p \in Objects \ {o} : Maker(p)' = Maker(p) /\ NameOf(p)' = NameOf(p)
    PROVE  NameInv'
<1>1. \A g \in Contexts : textures[g] \subseteq textures'[g]
  BY DEF WglType
<1>2. n \in textures'[glrc[c]]
  BY DEF WglType
<1>3. ASSUME NEW p \in Objects \ {o}, Textured(p)'
      PROVE  /\ Textured(p) /\ Maker(p)' = Maker(p) /\ NameOf(p)' = NameOf(p)
             /\ Maker(p) \in Contexts /\ NameOf(p) \in textures[glrc[Maker(p)]]
             /\ status[Maker(p)] # "Absent"
  BY <1>3 DEF NameInv, Textured
<1>4. ASSUME NEW p \in Objects \ {o}, Textured(p)'
      PROVE  /\ status'[Maker(p)'] # "Absent"
             /\ NameOf(p)' \in textures'[glrc'[Maker(p)']]
             /\ \A q \in Objects \ {p} :
                   Textured(q)' /\ glrc'[Maker(q)'] = glrc'[Maker(p)']
                   => NameOf(q)' # NameOf(p)'
  <2>1. NameOf(p)' \in textures'[glrc'[Maker(p)']] /\ status'[Maker(p)'] # "Absent"
    BY <1>1, <1>3, <1>4 DEF WglType
  <2>2. ASSUME NEW q \in Objects \ {p}, Textured(q)', glrc'[Maker(q)'] = glrc'[Maker(p)']
        PROVE  NameOf(q)' # NameOf(p)'
    <3>1. CASE q = o
      BY <1>3, <1>4, <2>2, <3>1
    <3>2. CASE q # o
      BY <1>3, <1>4, <2>2, <3>2 DEF NameInv
    <3>3. QED
      BY <3>1, <3>2
  <2>3. QED
    BY <2>1, <2>2
<1>5. \A p \in Objects \ {o} :
         Textured(p)' /\ glrc'[Maker(p)'] = glrc'[Maker(o)'] => NameOf(p)' # NameOf(o)'
  BY <1>3
<1>6. QED
  BY <1>2, <1>4, <1>5 DEF NameInv

\* Of a context's textures the one of object o is deleted, and o forgotten with it.
LEMMA NameDeleted ==
    ASSUME WglType, NameInv, NEW o \in Objects, NEW c \in Contexts, Maker(o) = c,
           UNCHANGED glrc, \A d \in Contexts : status'[d] = "Absent" => status[d] = "Absent",
           \/ textures' = [textures EXCEPT ![glrc[c]] = @ \ {NameOf(o)}]
           \/ UNCHANGED textures,
           ~Textured(o)',
           \A p \in Objects \ {o} : Textured(p)' =>
              Textured(p) /\ Maker(p)' = Maker(p) /\ NameOf(p)' = NameOf(p)
    PROVE  NameInv'
<1>1. ASSUME NEW p \in Objects, Textured(p)'
      PROVE  /\ Textured(p) /\ Maker(p)' = Maker(p) /\ NameOf(p)' = NameOf(p)
             /\ glrc'[Maker(p)] = glrc[Maker(p)]
             /\ status'[Maker(p)] # "Absent"
             /\ NameOf(p) \in textures'[glrc[Maker(p)]]
  <2>1. p # o /\ Textured(p) /\ Maker(p)' = Maker(p) /\ NameOf(p)' = NameOf(p)
    BY <1>1
  <2>2. Maker(p) \in Contexts /\ NameOf(p) \in textures[glrc[Maker(p)]]
        /\ status[Maker(p)] # "Absent"
    BY <2>1 DEF NameInv, Textured
  <2>3. CASE textures' = [textures EXCEPT ![glrc[c]] = @ \ {NameOf(o)}]
    <3>1. glrc[Maker(p)] = glrc[c] => NameOf(p) # NameOf(o)
      <4>1. CASE Textured(o)
        BY <2>1, <4>1 DEF NameInv
      <4>2. CASE ~Textured(o)
        BY <2>1, <4>2 DEF Textured
      <4>3. QED
        BY <4>1, <4>2
    <3>2. NameOf(p) \in textures'[glrc[Maker(p)]]
      BY <2>2, <2>3, <3>1 DEF WglType
    <3>3. QED
      BY <2>1, <2>2, <3>2
  <2>4. QED
    BY <2>1, <2>2, <2>3
<1>2. QED
  BY <1>1, NamesKept

LEMMA NamesUntouched ==
    ASSUME NameInv, UNCHANGED <<glrc, creator, name, reader, textures>>,
           \A c \in Contexts : status'[c] = "Absent" => status[c] = "Absent"
    PROVE  NameInv'
<1>1. \A o \in Objects : /\ Maker(o)' = Maker(o) /\ NameOf(o)' = NameOf(o)
                       /\ (Textured(o)' <=> Textured(o))
  BY DEF Maker, NameOf, Textured
<1>2. ASSUME NEW o \in Objects, Textured(o)'
      PROVE  /\ Textured(o) /\ Maker(o)' = Maker(o) /\ NameOf(o)' = NameOf(o)
             /\ glrc'[Maker(o)] = glrc[Maker(o)]
             /\ status'[Maker(o)] # "Absent"
             /\ NameOf(o) \in textures'[glrc[Maker(o)]]
  <2>1. Textured(o) /\ Maker(o)' = Maker(o) /\ NameOf(o)' = NameOf(o)
    BY <1>1, <1>2
  <2>2. /\ Maker(o) \in Contexts /\ status[Maker(o)] # "Absent"
        /\ NameOf(o) \in textures[glrc[Maker(o)]]
    BY <2>1 DEF NameInv, Textured
  <2>3. QED
    BY <2>1, <2>2
<1>3. QED
  BY <1>2, NamesKept

LEMMA OwnChanged ==
    ASSUME WglType, NEW s \in Surfaces, NEW c, NEW n, UNCHANGED reader,
           creator' = [creator EXCEPT ![s] = c], name' = [name EXCEPT ![s] = n]
    PROVE  /\ Maker(<<"own", s>>)' = c /\ NameOf(<<"own", s>>)' = n
           /\ \A p \in Objects \ {<<"own", s>>} :
                 Maker(p)' = Maker(p) /\ NameOf(p)' = NameOf(p)
  BY DEF Objects, Maker, NameOf, WglType

LEMMA ReadChanged ==
    ASSUME WglType, NEW s \in Surfaces, NEW r, UNCHANGED <<creator, name>>,
           reader' = [reader EXCEPT ![s] = r]
    PROVE  /\ Maker(<<"read", s>>)' = r.context /\ NameOf(<<"read", s>>)' = r.name
           /\ \A p \in Objects \ {<<"read", s>>} :
                 Maker(p)' = Maker(p) /\ NameOf(p)' = NameOf(p)
  BY DEF Objects, Maker, NameOf, WglType

\* The surface's own texture is deleted, or it is a window, and the surface forgotten.
LEMMA SurfaceForgotten ==
    ASSUME WglType, NameInv, NEW c \in Contexts, NEW s \in Surfaces, creator[s] = c,
           NEW where, Wgl!Gone(s, where), UNCHANGED <<glrc, reader>>,
           Wgl!DeleteObjects(s, glrc[c]) \/ UNCHANGED textures,
           \A d \in Contexts : status'[d] = "Absent" => status[d] = "Absent"
    PROVE  NameInv'
<1>1. \/ textures' = [textures EXCEPT ![glrc[c]] = @ \ {name[s]}]
      \/ UNCHANGED textures
  BY DEF Wgl!DeleteObjects, Wgl!glVars
<1>2. /\ Maker(<<"own", s>>)' = NoContext
      /\ \A p \in Objects \ {<<"own", s>>} :
            Maker(p)' = Maker(p) /\ NameOf(p)' = NameOf(p)
  BY OwnChanged DEF Wgl!Gone
<1>3. /\ ~Textured(<<"own", s>>)'
      /\ \A p \in Objects \ {<<"own", s>>} : Textured(p)' => Textured(p)
  BY <1>2, DistinctAssumption DEF Textured
<1>4. /\ <<"own", s>> \in Objects /\ Maker(<<"own", s>>) = c
      /\ NameOf(<<"own", s>>) = name[s]
  BY ObjectOf
<1>5. QED
  BY <1>1, <1>2, <1>3, <1>4, NameDeleted

LEMMA NamesOnSurface ==
    ASSUME "texture_elsewhere" \notin Misuse, WglType, NameInv,
           NEW c \in Contexts, NEW s \in Surfaces, Wgl!OnSurface(c, s)
    PROVE  NameInv'
<1>0. UNCHANGED <<status, glrc>> /\ status[c] # "Absent" /\ glrc[c] \in Contexts
  BY WglSurfaceCall DEF Wgl!MayCall, WglType
<1>1. CASE UNCHANGED <<creator, name, reader, textures>>
  BY <1>0, <1>1, NamesUntouched
<1>2. CASE Wgl!CreateGenericSurface(c, s)
  <2>1. ASSUME NEW n \in Names \ textures[glrc[c]],
               textures' = [textures EXCEPT ![glrc[c]] = @ \cup {n}],
               Wgl!Made(s, c, n), UNCHANGED reader
        PROVE  NameInv'
    <3>1. /\ Maker(<<"own", s>>)' = c /\ NameOf(<<"own", s>>)' = n
          /\ \A p \in Objects \ {<<"own", s>>} :
                Maker(p)' = Maker(p) /\ NameOf(p)' = NameOf(p)
      BY <2>1, OwnChanged DEF Wgl!Made
    <3>2. <<"own", s>> \in Objects /\ n \notin textures[glrc[c]]
      BY <2>1, ObjectOf
    <3>3. QED
      BY <1>0, <2>1, <3>1, <3>2, NameMade
  <2>2. ASSUME NEW n \in Names \ textures[glrc[c]],
               textures' = [textures EXCEPT ![glrc[c]] = @ \cup {n}],
               UNCHANGED <<creator, name, reader>>
        PROVE  NameInv'
    <3>1. \A g \in Contexts : textures[g] \subseteq textures'[g]
      BY <2>2 DEF WglType
    <3>2. \A o \in Objects : /\ Maker(o)' = Maker(o) /\ NameOf(o)' = NameOf(o)
                           /\ (Textured(o)' <=> Textured(o))
      BY <2>2 DEF Maker, NameOf, Textured
    <3>3. \A o \in Objects : Textured(o) =>
             /\ glrc[Maker(o)] \in Contexts /\ status[Maker(o)] # "Absent"
             /\ NameOf(o) \in textures[glrc[Maker(o)]]
      BY DEF NameInv, Textured, WglType
    <3>4. ASSUME NEW o \in Objects, Textured(o)'
          PROVE  /\ Textured(o) /\ Maker(o)' = Maker(o) /\ NameOf(o)' = NameOf(o)
                 /\ glrc'[Maker(o)] = glrc[Maker(o)]
                 /\ status'[Maker(o)] # "Absent"
                 /\ NameOf(o) \in textures'[glrc[Maker(o)]]
      <4>1. Textured(o) /\ Maker(o)' = Maker(o) /\ NameOf(o)' = NameOf(o)
        BY <3>2, <3>4 DEF Textured
      <4>2. /\ glrc[Maker(o)] \in Contexts /\ status[Maker(o)] # "Absent"
            /\ NameOf(o) \in textures[glrc[Maker(o)]]
        BY <3>3, <4>1
      <4>3. QED
        BY <1>0, <3>1, <4>1, <4>2
    <3>5. QED
      BY <3>4, NamesKept
  <2>3. QED
    BY <1>1, <1>2, <2>1, <2>2 DEF Wgl!CreateGenericSurface, Wgl!Refused, Wgl!glVars,
       Wgl!surfaceVars
<1>3. CASE Wgl!CreateWidgetSurface(c, s)
  <2>1. UNCHANGED <<textures, reader>>
    BY <1>3 DEF Wgl!CreateWidgetSurface, Wgl!glVars
  <2>2. CASE Wgl!Made(s, c, NoName)
    <3>1. /\ NameOf(<<"own", s>>)' = NoName
          /\ \A p \in Objects \ {<<"own", s>>} :
                Maker(p)' = Maker(p) /\ NameOf(p)' = NameOf(p)
      BY <2>1, <2>2, OwnChanged DEF Wgl!Made
    <3>2. \A o \in Objects : Textured(o)' =>
             Textured(o) /\ Maker(o)' = Maker(o) /\ NameOf(o)' = NameOf(o)
      BY <3>1, WglAssumption DEF Textured
    <3>3. \A o \in Objects : Textured(o) =>
             /\ status[Maker(o)] # "Absent" /\ NameOf(o) \in textures[glrc[Maker(o)]]
      BY DEF NameInv
    <3>4. QED
      BY <1>0, <2>1, <3>2, <3>3, NamesKept
  <2>3. QED
    BY <1>1, <1>3, <2>1, <2>2 DEF Wgl!CreateWidgetSurface
<1>4. CASE Wgl!DestroySurface(c, s)
  <2>1. CASE /\ creator[s] = c /\ Wgl!DeleteObjects(s, glrc[c]) /\ Wgl!Gone(s, "absent")
             /\ UNCHANGED reader
    BY <1>0, <2>1, SurfaceForgotten
  <2>2. QED
    BY <1>1, <1>4, <2>1 DEF Wgl!DestroySurface, Wgl!DeletedIn, Wgl!Refused, Wgl!glVars,
       Wgl!surfaceVars
<1>5. CASE Wgl!PresentSurface(c, s)
  BY <1>1, <1>5 DEF Wgl!PresentSurface, Wgl!glVars, Wgl!surfaceVars
<1>6. CASE Wgl!CreateSurfaceTexture(c, s)
  <2>1. ASSUME NEW n \in Names \ textures[glrc[c]],
               textures' = [textures EXCEPT ![glrc[c]] = @ \cup {n}],
               reader' = [reader EXCEPT ![s] = [context |-> c, name |-> n]],
               UNCHANGED <<creator, name>>
        PROVE  NameInv'
    <3>1. /\ Maker(<<"read", s>>)' = c /\ NameOf(<<"read", s>>)' = n
          /\ \A p \in Objects \ {<<"read", s>>} :
                Maker(p)' = Maker(p) /\ NameOf(p)' = NameOf(p)
      BY <2>1, ReadChanged
    <3>2. <<"read", s>> \in Objects /\ n \notin textures[glrc[c]]
      BY <2>1, ObjectOf
    <3>3. QED
      BY <1>0, <2>1, <3>1, <3>2, NameMade
  <2>2. QED
    BY <1>1, <1>6, <2>1 DEF Wgl!CreateSurfaceTexture, Wgl!Refused, Wgl!glVars,
       Wgl!surfaceVars
<1>7. CASE Wgl!DestroySurfaceTexture(c, s)
  <2>1. CASE /\ textures' = [textures EXCEPT ![glrc[c]] = @ \ {reader[s].name}]
             /\ reader' = [reader EXCEPT ![s] = Wgl!NoReader]
             /\ UNCHANGED <<creator, name>>
    <3>1. reader[s].context = c
      BY <1>7 DEF Wgl!DestroySurfaceTexture
    <3>2. /\ Maker(<<"read", s>>)' = Wgl!NoReader.context
          /\ \A p \in Objects \ {<<"read", s>>} :
                Maker(p)' = Maker(p) /\ NameOf(p)' = NameOf(p)
      BY <2>1, ReadChanged
    <3>3. /\ ~Textured(<<"read", s>>)'
          /\ \A p \in Objects \ {<<"read", s>>} : Textured(p)' => Textured(p)
      BY <3>2, DistinctAssumption DEF Textured, Wgl!NoReader
    <3>4. /\ <<"read", s>> \in Objects /\ Maker(<<"read", s>>) = c
          /\ NameOf(<<"read", s>>) = reader[s].name
      BY <3>1, ObjectOf
    <3>5. QED
      BY <1>0, <2>1, <3>2, <3>3, <3>4, NameDeleted
  <2>2. QED
    BY <1>1, <1>7, <2>1 DEF Wgl!DestroySurfaceTexture, Wgl!DeletedIn, Wgl!Refused, Wgl!glVars,
       Wgl!surfaceVars
<1>8. QED
  BY <1>2, <1>3, <1>4, <1>5, <1>6, <1>7 DEF Wgl!OnSurface

LEMMA NameNext ==
    ASSUME "texture_elsewhere" \notin Misuse
    PROVE  WglType /\ WglBoundInv /\ NameInv /\ [Wgl!Next]_(Wgl!vars) => NameInv'
<1> SUFFICES ASSUME WglType, WglBoundInv, NameInv, [Wgl!Next]_(Wgl!vars)
             PROVE  NameInv'
  OBVIOUS
<1>1. CASE UNCHANGED Wgl!vars
  BY <1>1, NamesUntouched DEF Wgl!vars, Wgl!contextVars, Wgl!glVars, Wgl!surfaceVars
<1>2. CASE Wgl!MakeNoContextCurrent
  BY <1>2, NamesUntouched DEF Wgl!MakeNoContextCurrent, Wgl!contextVars, Wgl!glVars,
     Wgl!surfaceVars
<1>3. ASSUME NEW c \in Contexts,
             \/ Wgl!MakeContextCurrent(c) \/ Wgl!PresentBoundSurface(c) \/ Wgl!Draw(c)
             \/ Wgl!UnbindSurface(c) \/ \E s \in Surfaces : Wgl!BindSurface(c, s)
      PROVE  NameInv'
  <2>1. UNCHANGED <<status, glrc, creator, name, reader, textures>>
    BY <1>3 DEF Wgl!MakeContextCurrent, Wgl!PresentBoundSurface, Wgl!Draw, Wgl!UnbindSurface,
       Wgl!BindSurface, Wgl!contextVars, Wgl!glVars, Wgl!surfaceVars
  <2>2. QED
    BY <2>1, NamesUntouched
<1>4. ASSUME NEW c \in Contexts,
             Wgl!CreateContext(c) \/ \E d \in Contexts : Wgl!CreateContextFromNative(c, d)
      PROVE  NameInv'
  <2>1. status[c] = "Absent" /\ UNCHANGED <<creator, name, reader, textures>>
    BY <1>4 DEF Wgl!CreateContext, Wgl!CreateContextFromNative, Wgl!glVars, Wgl!surfaceVars
  <2>2. \A d \in Contexts \ {c} : status'[d] = status[d] /\ glrc'[d] = glrc[d]
    BY <1>4 DEF Wgl!CreateContext, Wgl!CreateContextFromNative, WglType
  <2>3. \A o \in Objects : /\ Maker(o)' = Maker(o) /\ NameOf(o)' = NameOf(o)
                         /\ (Textured(o)' <=> Textured(o))
    BY <2>1 DEF Maker, NameOf, Textured
  <2>4. \A o \in Objects : Textured(o) =>
           /\ Maker(o) \in Contexts \ {c} /\ status[Maker(o)] # "Absent"
           /\ NameOf(o) \in textures[glrc[Maker(o)]]
    BY <2>1 DEF NameInv, Textured
  <2>5. ASSUME NEW o \in Objects, Textured(o)'
        PROVE  /\ Textured(o) /\ Maker(o)' = Maker(o) /\ NameOf(o)' = NameOf(o)
               /\ glrc'[Maker(o)] = glrc[Maker(o)]
               /\ status'[Maker(o)] # "Absent"
               /\ NameOf(o) \in textures'[glrc[Maker(o)]]
    <3>1. Textured(o) /\ Maker(o)' = Maker(o) /\ NameOf(o)' = NameOf(o)
      BY <2>3, <2>5 DEF Textured
    <3>2. /\ Maker(o) \in Contexts \ {c} /\ status[Maker(o)] # "Absent"
          /\ NameOf(o) \in textures[glrc[Maker(o)]]
      BY <2>4, <3>1
    <3>3. QED
      BY <2>1, <2>2, <3>1, <3>2
  <2>6. QED
    BY <2>5, NamesKept
<1>5. ASSUME NEW c \in Contexts, Wgl!DestroyContext(c)
      PROVE  NameInv'
  <2>1. UNCHANGED <<glrc, reader>>
    BY <1>5 DEF Wgl!DestroyContext, Wgl!contextVars, Wgl!surfaceVars
  <2>2. \A d \in Contexts : status'[d] = "Absent" => status[d] = "Absent"
    BY <1>5 DEF Wgl!DestroyContext, Wgl!contextVars, Wgl!Forget, WglType
  <2>3. CASE UNCHANGED <<creator, name, textures>>
    BY <2>1, <2>2, <2>3, NamesUntouched
  <2>4. ASSUME NEW s \in Surfaces, framebuffer[c] = s,
               \/ Wgl!DeleteObjects(s, glrc[c]) /\ Wgl!Gone(s, "absent")
               \/ Wgl!Gone(s, "lost") /\ UNCHANGED Wgl!glVars
        PROVE  NameInv'
    <3>1. creator[s] = c
      BY <2>4 DEF WglBoundInv
    <3>2. QED
      BY <2>1, <2>2, <2>4, <3>1, SurfaceForgotten DEF Wgl!glVars
  <2>5. QED
    BY <1>5, <2>3, <2>4 DEF Wgl!DestroyContext, Wgl!glVars, Wgl!surfaceVars
<1>6. ASSUME NEW c \in Contexts, NEW s \in Surfaces, Wgl!OnSurface(c, s)
      PROVE  NameInv'
  BY <1>6, NamesOnSurface
<1>7. QED
  BY <1>1, <1>2, <1>3, <1>4, <1>5, <1>6 DEF Wgl!Next, Wgl!OnContext

LEMMA NamesAreOwned == NameInv => Wgl!NamesOwned
<1> SUFFICES ASSUME NameInv, NEW c \in Contexts, NEW d \in Contexts,
                    NEW s \in Surfaces, NEW t \in Surfaces, NEW n \in Names
             PROVE  /\ Wgl!Renders(c, s, n) => n \in textures[glrc[c]]
                    /\ Wgl!Reads(c, s, n) => n \in textures[glrc[c]]
                    /\ glrc[c] = glrc[d] =>
                          /\ Wgl!Renders(c, s, n) /\ Wgl!Renders(d, t, n) => s = t
                          /\ Wgl!Reads(c, s, n) /\ Wgl!Reads(d, t, n) => s = t
                          /\ ~(Wgl!Renders(c, s, n) /\ Wgl!Reads(d, t, n))
  BY DEF Wgl!NamesOwned
<1>1. ASSUME NEW e \in Contexts, NEW r \in Surfaces
      PROVE  /\ Wgl!Renders(e, r, n) =>
                   Maker(<<"own", r>>) = e /\ NameOf(<<"own", r>>) = n /\ Textured(<<"own", r>>)
             /\ Wgl!Reads(e, r, n) =>
                   Maker(<<"read", r>>) = e /\ NameOf(<<"read", r>>) = n /\ Textured(<<"read", r>>)
             /\ <<"own", r>> \in Objects /\ <<"read", r>> \in Objects
  BY <1>1, ObjectOf DEF Wgl!Renders, Wgl!Reads, Textured
<1>2. ASSUME NEW o \in Objects, NEW p \in Objects, Textured(o), Textured(p),
             glrc[Maker(o)] = glrc[Maker(p)], NameOf(o) = NameOf(p)
      PROVE  o = p
  BY <1>2 DEF NameInv
<1>3. \A o \in Objects : Textured(o) => NameOf(o) \in textures[glrc[Maker(o)]]
  BY DEF NameInv
<1>4. /\ Wgl!Renders(c, s, n) => n \in textures[glrc[c]]
      /\ Wgl!Reads(c, s, n) => n \in textures[glrc[c]]
  BY <1>1, <1>3
<1>5. glrc[c] = glrc[d] /\ Wgl!Renders(c, s, n) /\ Wgl!Renders(d, t, n) => s = t
  BY <1>1, <1>2
<1>6. glrc[c] = glrc[d] /\ Wgl!Reads(c, s, n) /\ Wgl!Reads(d, t, n) => s = t
  BY <1>1, <1>2
<1>7. ~(glrc[c] = glrc[d] /\ Wgl!Renders(c, s, n) /\ Wgl!Reads(d, t, n))
  BY <1>1, <1>2
<1>8. QED
  BY <1>4, <1>5, <1>6, <1>7

-----------------------------------------------------------------------------
(* WGL: the theorems. *)

\* A surface's interop object is locked exactly while the surface is bound, on every way
\* it can stop being bound: unbinding, destroying the context, and a failure of either.
THEOREM LocksFollowBinding == MCSpec => []LockedWhileBound
<1> DEFINE Inv == backend = "wgl" => WglType /\ WglBoundInv /\ Wgl!LockedWhileBound
<1>1. MCInit => Inv
  BY WglInit, WglTypeInit, DistinctAssumption
     DEF Wgl!Init, WglBoundInv, Wgl!LockedWhileBound
<1>2. Inv /\ [AngleNext \/ WglNext]_mcVars => Inv'
  BY WglStep, WglTypeNext, WglBoundNext, LockNext
<1>3. Inv => LockedWhileBound
  BY DEF LockedWhileBound
<1>4. QED
  BY <1>1, <1>2, <1>3, PTL DEF MCSpec

\* Every surface and every surface texture has a name of its HGLRC to itself until it is
\* destroyed, whichever context is current then and whichever calls fail, as long as
\* textures are destroyed with the context that made them.
THEOREM NamesStayOwned ==
    ASSUME "texture_elsewhere" \notin Misuse
    PROVE  MCSpec => []NamesOwned
<1> DEFINE Inv == backend = "wgl" => WglType /\ WglBoundInv /\ NameInv
<1>1. MCInit => Inv
  <2>1. Wgl!Init => NameInv
    BY DistinctAssumption
       DEF Wgl!Init, NameInv, Objects, Textured, Maker, Wgl!NoReader
  <2>2. QED
    BY <2>1, WglInit, WglTypeInit, DistinctAssumption DEF Wgl!Init, WglBoundInv
<1>2. Inv /\ [AngleNext \/ WglNext]_mcVars => Inv'
  BY WglStep, WglTypeNext, WglBoundNext, NameNext
<1>3. Inv => NamesOwned
  BY NamesAreOwned DEF NamesOwned
<1>4. QED
  BY <1>1, <1>2, <1>3, PTL DEF MCSpec

\* While a widget is bound to the current context, that widget's window is current with
\* it, unless wglMakeCurrent fails, whose error bind_surface_to_context cannot undo.
THEOREM DrawingReachesWidget ==
    ASSUME "make_current" \notin WglFaults
    PROVE  MCSpec => []CurrentDrawsToWidget
<1> DEFINE Inv == backend = "wgl" => WglType /\ WglBoundInv /\ DrawInv
<1>1. MCInit => Inv
  BY WglInit, WglTypeInit, DistinctAssumption
     DEF Wgl!Init, WglBoundInv, DrawInv, Wgl!CurrentDrawsToWidget, Wgl!MayCall
<1>2. Inv /\ [AngleNext \/ WglNext]_mcVars => Inv'
  BY WglStep, WglTypeNext, WglBoundNext, DrawNext
<1>3. Inv => CurrentDrawsToWidget
  BY DEF CurrentDrawsToWidget, DrawInv
<1>4. QED
  BY <1>1, <1>2, <1>3, PTL DEF MCSpec
=============================================================================
