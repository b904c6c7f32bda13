------------------------ MODULE GlutinHardwareProofs ------------------------
(***************************************************************************)
(* Theorems about glutin's devices and about those of Android and          *)
(* OpenHarmony, for any contexts, surfaces and names.  A behaviour of      *)
(* MCSpec is of one of the two (GlutinStep, HardwareStep).                 *)
(***************************************************************************)
EXTENDS MCGlutinHardware, TLAPS

-----------------------------------------------------------------------------
(* glutin: type correctness. *)

\* Whatever is drawn to is current with a context.
GlutinType == Glutin!TypeOK /\ (drawn # NoSurface => current \in Contexts)

LEMMA GlutinTypeInit == Glutin!Init => GlutinType
  BY DEF Glutin!Init, GlutinType, Glutin!TypeOK

LEMMA GlutinSwitch ==
    ASSUME GlutinType, NEW c \in Contexts, NEW s \in Surfaces \cup {NoSurface},
           Glutin!Switched(c, s)
    PROVE  /\ lastCurrent' \in Contexts \cup {NoContext}
           /\ current' \in Contexts \cup {NoContext}
           /\ drawn' \in Surfaces \cup {NoSurface, Orphan}
           /\ drawn' # NoSurface => current' \in Contexts
           /\ held' \in [Contexts -> BOOLEAN]
  BY DEF GlutinType, Glutin!TypeOK, Glutin!Switched

LEMMA GlutinSwitchFailed ==
    ASSUME GlutinType, NEW c \in Contexts, Glutin!SwitchFailed(c)
    PROVE  /\ lastCurrent' \in Contexts \cup {NoContext}
           /\ current' \in Contexts \cup {NoContext}
           /\ drawn' \in Surfaces \cup {NoSurface, Orphan}
           /\ drawn' # NoSurface => current' \in Contexts
           /\ held' \in [Contexts -> BOOLEAN]
  BY DEF GlutinType, Glutin!TypeOK, Glutin!SwitchFailed, Glutin!eglVars

LEMMA GlutinTypeNext == GlutinType /\ [Glutin!Next]_(Glutin!vars) => GlutinType'
<1> SUFFICES ASSUME GlutinType, [Glutin!Next]_(Glutin!vars)
             PROVE  GlutinType'
  OBVIOUS
<1> USE DEF GlutinType, Glutin!TypeOK, Glutin!NothingSwitched, Glutin!eglVars, Glutin!surfaceVars
<1>1. CASE UNCHANGED Glutin!vars
  BY <1>1 DEF Glutin!vars
<1>2. CASE Glutin!MakeNoContextCurrent
  BY <1>2 DEF Glutin!MakeNoContextCurrent
<1>3. ASSUME NEW s \in Surfaces, Glutin!DropSurface(s)
      PROVE  GlutinType'
  BY <1>3 DEF Glutin!DropSurface, Glutin!Orphaned
<1>4. ASSUME NEW c \in Contexts, Glutin!OnContext(c)
      PROVE  GlutinType'
  <2>1. CASE Glutin!MakeContextCurrent(c)
    BY <2>1, GlutinSwitch, GlutinSwitchFailed DEF Glutin!MakeContextCurrent, Glutin!SwitchOnly
  <2>2. CASE Glutin!CreateContext(c)
    <3>1. /\ UNCHANGED <<inner, framebuffer, lastCurrent, place, widget, creator>>
          /\ result' \in {"ok", "err"}
      BY <2>2 DEF Glutin!CreateContext
    <3>2. CASE UNCHANGED <<status, held, current, drawn>>
      BY <3>1, <3>2
    <3>3. CASE /\ status' = [status EXCEPT ![c] = "Live"]
               /\ held' = [held EXCEPT ![c] = TRUE]
               /\ current' = c /\ drawn' = NoSurface
      BY <3>1, <3>3
    <3>4. QED
      BY <2>2, <3>2, <3>3 DEF Glutin!CreateContext
  <2>3. CASE Glutin!NativeContextOf(c)
    BY <2>3 DEF Glutin!NativeContextOf
  <2>4. ASSUME NEW g \in Contexts, Glutin!CreateContextShared(c, g)
        PROVE  GlutinType'
    <3>1. CASE Glutin!CreateContext(c)
      BY <2>2, <3>1
    <3>2. QED
      BY <2>4, <3>1 DEF Glutin!CreateContextShared
  <2>5. ASSUME NEW g \in Contexts, Glutin!CreateContextFromNative(c, g)
        PROVE  GlutinType'
    BY <2>5 DEF Glutin!CreateContextFromNative
  <2>6. CASE Glutin!DestroyContext(c)
    <3>1. /\ status' \in [Contexts -> {"Absent", "Live", "Destroyed"}]
          /\ framebuffer' \in [Contexts -> Surfaces \cup {NoSurface}]
          /\ result' \in {"ok", "err", "panic"}
      BY <2>6 DEF Glutin!DestroyContext
    <3>2. place' \in [Surfaces -> {"absent", "free", "bound", "texture", "destroyed"}]
      BY <2>6 DEF Glutin!DestroyContext
    <3>3. UNCHANGED <<inner, widget, creator>> /\ lastCurrent' \in Contexts \cup {NoContext}
      BY <2>6 DEF Glutin!DestroyContext
    <3>4. held' = [held EXCEPT ![inner[c]] = FALSE]
      BY <2>6 DEF Glutin!DestroyContext
    <3>5. held' \in [Contexts -> BOOLEAN]
      BY <3>4
    <3>6. /\ current' \in Contexts \cup {NoContext}
          /\ drawn' \in Surfaces \cup {NoSurface, Orphan}
          /\ drawn' # NoSurface => current' \in Contexts
      BY <2>6 DEF Glutin!DestroyContext, Glutin!Orphaned
    <3>7. QED
      BY <3>1, <3>2, <3>3, <3>5, <3>6
  <2>7. CASE Glutin!UnbindSurface(c)
    <3>1. /\ UNCHANGED <<status, inner, widget, creator>>
          /\ framebuffer' \in [Contexts -> Surfaces \cup {NoSurface}]
          /\ result' \in {"ok", "err", "panic"}
      BY <2>7 DEF Glutin!UnbindSurface
    <3>2. place' \in [Surfaces -> {"absent", "free", "bound", "texture", "destroyed"}]
      BY <2>7 DEF Glutin!UnbindSurface
    <3>3. CASE Glutin!Detached(c)
      BY <3>1, <3>2, <3>3, GlutinSwitch DEF Glutin!Detached
    <3>4. CASE ~Glutin!Detached(c)
      <4>1. held' \in [Contexts -> BOOLEAN]
        BY <2>7, <3>4 DEF Glutin!UnbindSurface
      <4>2. /\ UNCHANGED <<current, lastCurrent>>
            /\ drawn' \in {drawn, IF drawn # NoSurface THEN Orphan ELSE drawn}
        BY <2>7, <3>4 DEF Glutin!UnbindSurface, Glutin!Orphaned
      <4>3. QED
        BY <3>1, <3>2, <4>1, <4>2
    <3>5. QED
      BY <3>3, <3>4
  <2>8. CASE Glutin!PresentBoundSurface(c)
    BY <2>8 DEF Glutin!PresentBoundSurface, Glutin!SwapBuffers
  <2>9. CASE Glutin!ResizeBoundSurface(c)
    BY <2>9, GlutinSwitch, GlutinSwitchFailed DEF Glutin!ResizeBoundSurface, Glutin!SwitchOnly
  <2>10. QED
    BY <1>4, <2>1, <2>2, <2>3, <2>4, <2>5, <2>6, <2>7, <2>8, <2>9 DEF Glutin!OnContext
<1>5. ASSUME NEW c \in Contexts, NEW s \in Surfaces, Glutin!OnSurface(c, s)
      PROVE  GlutinType'
  <2>1. CASE Glutin!CreateSurface(c, s)
    BY <2>1, GlutinSwitch, GlutinSwitchFailed DEF Glutin!CreateSurface
  <2>2. CASE Glutin!BindSurface(c, s)
    BY <2>2, GlutinSwitch, GlutinSwitchFailed DEF Glutin!BindSurface
  <2>3. CASE Glutin!DestroySurface(c, s)
    BY <2>3, GlutinSwitch, GlutinSwitchFailed DEF Glutin!DestroySurface
  <2>4. CASE Glutin!CreateSurfaceTexture(c, s)
    BY <2>4, GlutinSwitch, GlutinSwitchFailed DEF Glutin!CreateSurfaceTexture
  <2>5. CASE Glutin!DestroySurfaceTexture(c, s)
    BY <2>5, GlutinSwitch, GlutinSwitchFailed DEF Glutin!DestroySurfaceTexture
  <2>6. CASE Glutin!PresentSurface(c, s)
    BY <2>6, GlutinSwitch, GlutinSwitchFailed DEF Glutin!PresentSurface, Glutin!SwapBuffers
  <2>7. CASE Glutin!ResizeSurface(c, s)
    BY <2>7, GlutinSwitch, GlutinSwitchFailed DEF Glutin!ResizeSurface, Glutin!SwitchOnly
  <2>8. QED
    BY <1>5, <2>1, <2>2, <2>3, <2>4, <2>5, <2>6, <2>7 DEF Glutin!OnSurface
<1>6. QED
  BY <1>1, <1>2, <1>3, <1>4, <1>5 DEF Glutin!Next

-----------------------------------------------------------------------------
(* glutin: a surface is bound to the context that made it. *)

GlutinBoundInv ==
    \A c \in Contexts : framebuffer[c] \in Surfaces =>
        creator[framebuffer[c]] = c /\ place[framebuffer[c]] = "bound"

\* Nothing is drawn to unless it is bound; the second conjunct of the invariant.
GlutinInv == GlutinBoundInv /\ Glutin!DrawsToBoundWindow

\* What calls on surfaces and a drop leave of a context's surface.
Kept ==
    /\ UNCHANGED <<framebuffer, status, inner>>
    /\ \A s \in Surfaces : place[s] = "bound" => place'[s] = "bound" /\ creator'[s] = creator[s]

LEMMA KeptBound ==
    ASSUME GlutinType, GlutinBoundInv, Kept
    PROVE  GlutinBoundInv'
  BY DEF GlutinBoundInv, Kept, GlutinType, Glutin!TypeOK

\* A method of a live context that switches to it, or fails to.
LEMMA SwitchDraws ==
    ASSUME GlutinType, Glutin!DrawsToBoundWindow, NEW c \in Contexts, Glutin!MayCall(c),
           Glutin!Switched(c, framebuffer[c]), UNCHANGED <<status, inner, framebuffer>>
    PROVE  Glutin!DrawsToBoundWindow'
  BY DEF GlutinType, Glutin!TypeOK, Glutin!DrawsToBoundWindow, Glutin!MayCall, Glutin!Switched

LEMMA SwitchFailedDraws ==
    ASSUME GlutinType, Glutin!DrawsToBoundWindow, NEW c \in Contexts,
           Glutin!SwitchFailed(c), UNCHANGED <<status, inner, framebuffer>>
    PROVE  Glutin!DrawsToBoundWindow'
  BY DEF GlutinType, Glutin!TypeOK, Glutin!DrawsToBoundWindow, Glutin!SwitchFailed, Glutin!eglVars

LEMMA NothingDraws ==
    ASSUME Glutin!DrawsToBoundWindow, Glutin!NothingSwitched,
           UNCHANGED <<status, inner, framebuffer>>
    PROVE  Glutin!DrawsToBoundWindow'
  BY DEF Glutin!DrawsToBoundWindow, Glutin!NothingSwitched, Glutin!eglVars

LEMMA GlutinContextCalls ==
    ASSUME GlutinType, GlutinInv, NEW c \in Contexts, Glutin!OnContext(c)
    PROVE  GlutinInv'
<1> USE DEF GlutinInv
<1>1. CASE Glutin!MakeContextCurrent(c)
  BY <1>1, SwitchDraws, SwitchFailedDraws
     DEF Glutin!MakeContextCurrent, Glutin!SwitchOnly, GlutinBoundInv, Glutin!surfaceVars
<1>2. ASSUME Glutin!CreateContext(c)
      PROVE  GlutinInv'
  <2>1. GlutinBoundInv'
    BY <1>2 DEF Glutin!CreateContext, GlutinBoundInv, Glutin!surfaceVars
  <2>2. CASE drawn' = NoSurface
    BY <2>1, <2>2 DEF Glutin!DrawsToBoundWindow
  <2>3. QED
    BY <1>2, <2>1, <2>2
       DEF Glutin!CreateContext, Glutin!DrawsToBoundWindow, Glutin!eglVars
<1>3. CASE Glutin!NativeContextOf(c)
  BY <1>3, NothingDraws DEF Glutin!NativeContextOf, GlutinBoundInv, Glutin!surfaceVars
<1>4. ASSUME NEW g \in Contexts, Glutin!CreateContextShared(c, g)
      PROVE  GlutinInv'
  BY <1>2, <1>4, NothingDraws DEF Glutin!CreateContextShared, GlutinBoundInv, Glutin!surfaceVars
<1>5. ASSUME NEW g \in Contexts, Glutin!CreateContextFromNative(c, g)
      PROVE  GlutinInv'
  <2>1. GlutinBoundInv'
    BY <1>5 DEF Glutin!CreateContextFromNative, GlutinBoundInv, Glutin!surfaceVars
  <2>2. ASSUME NEW d \in Contexts, status[d] = "Live"
        PROVE  status'[d] = "Live" /\ inner'[d] = inner[d]
    BY <1>5, <2>2 DEF Glutin!CreateContextFromNative, GlutinType, Glutin!TypeOK
  <2>3. UNCHANGED <<framebuffer, held, drawn, current>>
    BY <1>5 DEF Glutin!CreateContextFromNative, Glutin!NothingSwitched, Glutin!eglVars
  <2>4. QED
    BY <2>1, <2>2, <2>3 DEF Glutin!DrawsToBoundWindow
<1>6. ASSUME Glutin!DestroyContext(c)
      PROVE  GlutinInv'
  <2>1. framebuffer' = [framebuffer EXCEPT ![c] = NoSurface]
    BY <1>6 DEF Glutin!DestroyContext
  <2>2. ASSUME NEW d \in Contexts, d # c
        PROVE  framebuffer'[d] = framebuffer[d] /\ status'[d] = status[d] /\ inner'[d] = inner[d]
    BY <1>6, <2>2 DEF Glutin!DestroyContext, GlutinType, Glutin!TypeOK
  <2>3. GlutinBoundInv'
    BY <1>6, <2>1, DistinctAssumption
       DEF Glutin!DestroyContext, GlutinBoundInv, GlutinType, Glutin!TypeOK
  <2>4. held' = [held EXCEPT ![inner[c]] = FALSE]
    BY <1>6 DEF Glutin!DestroyContext
  <2>5. CASE drawn' = NoSurface
    BY <2>3, <2>5 DEF Glutin!DrawsToBoundWindow
  <2>6. CASE Glutin!Orphaned(framebuffer[c]) /\ UNCHANGED current
    <3> SUFFICES ASSUME drawn' # NoSurface, held'[current']
                 PROVE  \E d \in Contexts : /\ status'[d] = "Live" /\ inner'[d] = current'
                                            /\ framebuffer'[d] = drawn'
      BY <2>3 DEF Glutin!DrawsToBoundWindow
    <3>0. inner[c] \in Contexts /\ held \in [Contexts -> BOOLEAN]
      BY DEF GlutinType, Glutin!TypeOK
    <3>1. current # inner[c] /\ held[current] /\ current' = current
      BY <2>4, <2>6, <3>0
    <3>2. drawn # NoSurface
      BY <2>6 DEF Glutin!Orphaned
    <3>3. PICK d \in Contexts : status[d] = "Live" /\ inner[d] = current /\ framebuffer[d] = drawn
      BY <3>1, <3>2 DEF Glutin!DrawsToBoundWindow
    <3>4. d # c
      BY <3>1, <3>3
    <3>5. drawn' = drawn
      BY <2>6, <3>3, <3>4 DEF Glutin!Orphaned, GlutinBoundInv, GlutinType, Glutin!TypeOK
    <3>6. QED
      BY <2>2, <3>1, <3>3, <3>4, <3>5
  <2>7. QED
    BY <1>6, <2>5, <2>6 DEF Glutin!DestroyContext
<1>7. CASE Glutin!UnbindSurface(c)
  <2>1. CASE /\ framebuffer[c] = NoSurface
             /\ Glutin!NothingSwitched /\ UNCHANGED <<framebuffer, place>>
    BY <1>7, <2>1, NothingDraws DEF Glutin!UnbindSurface, GlutinBoundInv
  <2>2. ASSUME NEW s \in Surfaces, framebuffer[c] = s,
               framebuffer' = [framebuffer EXCEPT ![c] = NoSurface],
               UNCHANGED <<status, inner, widget, creator>>,
               Glutin!Detached(c), place' = [place EXCEPT ![s] = "free"]
        PROVE  GlutinInv'
    <3>1. GlutinBoundInv'
      BY <2>2, DistinctAssumption DEF GlutinBoundInv, GlutinType, Glutin!TypeOK
    <3>2. drawn' = NoSurface
      BY <2>2, DistinctAssumption DEF Glutin!Detached, Glutin!Switched, GlutinType, Glutin!TypeOK
    <3>3. QED
      BY <3>1, <3>2 DEF Glutin!DrawsToBoundWindow
  <2>3. ASSUME NEW s \in Surfaces, framebuffer[c] = s,
               framebuffer' = [framebuffer EXCEPT ![c] = NoSurface],
               UNCHANGED <<status, inner, widget, creator, current>>,
               \/ ~held[inner[c]] /\ UNCHANGED held
               \/ held' = [held EXCEPT ![inner[c]] = FALSE],
               Glutin!Orphaned(s), place' = [place EXCEPT ![s] = "absent"]
        PROVE  GlutinInv'
    <3>1. GlutinBoundInv'
      BY <2>3, DistinctAssumption DEF GlutinBoundInv, GlutinType, Glutin!TypeOK
    <3> SUFFICES ASSUME drawn' # NoSurface, held'[current']
                 PROVE  \E d \in Contexts : /\ status'[d] = "Live" /\ inner'[d] = current'
                                            /\ framebuffer'[d] = drawn'
      BY <3>1 DEF Glutin!DrawsToBoundWindow
    <3>0. inner[c] \in Contexts /\ held \in [Contexts -> BOOLEAN]
      BY DEF GlutinType, Glutin!TypeOK
    <3>2. drawn # NoSurface
      BY <2>3 DEF Glutin!Orphaned
    <3>3. current # inner[c] /\ held[current] /\ current' = current /\ current \in Contexts
      BY <2>3, <3>0, <3>2 DEF GlutinType
    <3>4. PICK d \in Contexts : status[d] = "Live" /\ inner[d] = current /\ framebuffer[d] = drawn
      BY <3>2, <3>3 DEF Glutin!DrawsToBoundWindow
    <3>5. d # c
      BY <3>3, <3>4
    <3>6. drawn' = drawn
      BY <2>3, <3>4, <3>5 DEF Glutin!Orphaned, GlutinBoundInv, GlutinType, Glutin!TypeOK
    <3>7. QED
      BY <2>3, <3>3, <3>4, <3>5, <3>6 DEF GlutinType, Glutin!TypeOK
  <2>4. QED
    BY <1>7, <2>1, <2>2, <2>3 DEF Glutin!UnbindSurface, Glutin!Holds
<1>8. CASE Glutin!PresentBoundSurface(c)
  BY <1>8, NothingDraws DEF Glutin!PresentBoundSurface, GlutinBoundInv, Glutin!surfaceVars
<1>9. CASE Glutin!ResizeBoundSurface(c)
  BY <1>9, SwitchDraws, SwitchFailedDraws
     DEF Glutin!ResizeBoundSurface, Glutin!SwitchOnly, GlutinBoundInv, Glutin!surfaceVars
<1>10. QED
  BY <1>1, <1>2, <1>3, <1>4, <1>5, <1>6, <1>7, <1>8, <1>9 DEF Glutin!OnContext

LEMMA GlutinSurfaceCalls ==
    ASSUME GlutinType, GlutinInv, NEW c \in Contexts, NEW s \in Surfaces,
           Glutin!OnSurface(c, s)
    PROVE  GlutinInv'
<1> USE DEF GlutinInv
<1>1. ASSUME Glutin!BindSurface(c, s)
      PROVE  GlutinInv'
  <2>1. CASE /\ creator[s] = c /\ framebuffer[c] = NoSurface /\ Glutin!Switched(c, s)
             /\ framebuffer' = [framebuffer EXCEPT ![c] = s]
             /\ place' = [place EXCEPT ![s] = "bound"]
    <3>1. GlutinBoundInv'
      BY <1>1, <2>1 DEF Glutin!BindSurface, GlutinBoundInv, GlutinType, Glutin!TypeOK
    <3>2. /\ status'[c] = "Live" /\ inner'[c] = current' /\ framebuffer'[c] = s
          /\ drawn' \in {s, NoSurface}
      BY <1>1, <2>1
         DEF Glutin!BindSurface, Glutin!Switched, Glutin!MayCall, GlutinType, Glutin!TypeOK
    <3>3. QED
      BY <3>1, <3>2 DEF Glutin!DrawsToBoundWindow
  <2>2. QED
    BY <1>1, <2>1, NothingDraws, SwitchFailedDraws DEF Glutin!BindSurface, GlutinBoundInv
<1>2. ASSUME Glutin!CreateSurface(c, s) \/ Glutin!DestroySurface(c, s)
               \/ Glutin!CreateSurfaceTexture(c, s) \/ Glutin!DestroySurfaceTexture(c, s)
               \/ Glutin!PresentSurface(c, s) \/ Glutin!ResizeSurface(c, s)
      PROVE  Kept
  BY <1>2 DEF Kept, Glutin!CreateSurface, Glutin!DestroySurface, Glutin!CreateSurfaceTexture,
     Glutin!DestroySurfaceTexture, Glutin!PresentSurface, Glutin!ResizeSurface,
     GlutinType, Glutin!TypeOK, Glutin!surfaceVars
<1>3. ASSUME Glutin!CreateSurface(c, s) \/ Glutin!DestroySurface(c, s)
               \/ Glutin!CreateSurfaceTexture(c, s) \/ Glutin!DestroySurfaceTexture(c, s)
               \/ Glutin!PresentSurface(c, s) \/ Glutin!ResizeSurface(c, s)
      PROVE  /\ Glutin!MayCall(c)
             /\ \/ Glutin!NothingSwitched \/ Glutin!SwitchFailed(c)
                \/ Glutin!Switched(c, framebuffer[c])
  BY <1>3 DEF Glutin!CreateSurface, Glutin!DestroySurface, Glutin!CreateSurfaceTexture,
     Glutin!DestroySurfaceTexture, Glutin!PresentSurface, Glutin!ResizeSurface,
     Glutin!SwitchOnly
<1>4. QED
  BY <1>1, <1>2, <1>3, KeptBound, NothingDraws, SwitchDraws, SwitchFailedDraws
     DEF Glutin!OnSurface, Kept

LEMMA GlutinNext ==
    GlutinType /\ GlutinInv /\ [Glutin!Next]_(Glutin!vars) => GlutinInv'
<1> SUFFICES ASSUME GlutinType, GlutinInv, [Glutin!Next]_(Glutin!vars)
             PROVE  GlutinInv'
  OBVIOUS
<1>1. CASE UNCHANGED Glutin!vars
  BY <1>1 DEF Glutin!vars, GlutinInv, GlutinBoundInv, Glutin!DrawsToBoundWindow,
     Glutin!eglVars, Glutin!surfaceVars
<1>2. CASE Glutin!MakeNoContextCurrent
  BY <1>2 DEF Glutin!MakeNoContextCurrent, GlutinInv, GlutinBoundInv,
     Glutin!DrawsToBoundWindow, Glutin!eglVars, Glutin!surfaceVars
<1>3. ASSUME NEW s \in Surfaces, Glutin!DropSurface(s)
      PROVE  GlutinInv'
  <2>1. Kept /\ UNCHANGED <<held, current>>
    BY <1>3 DEF Glutin!DropSurface, Kept, GlutinType, Glutin!TypeOK
  <2>2. drawn = s /\ s # NoSurface => ~held[current]
    BY <1>3 DEF Glutin!DropSurface, GlutinInv, GlutinBoundInv, Glutin!DrawsToBoundWindow
  <2>3. Glutin!DrawsToBoundWindow'
    BY <1>3, <2>1, <2>2
       DEF Glutin!DropSurface, Glutin!Orphaned, Kept, GlutinInv, Glutin!DrawsToBoundWindow
  <2>4. QED
    BY <2>1, <2>3, KeptBound DEF GlutinInv
<1>4. QED
  BY <1>1, <1>2, <1>3, GlutinContextCalls, GlutinSurfaceCalls DEF Glutin!Next

-----------------------------------------------------------------------------
(* Hardware buffers: type correctness. *)

LEMMA TypeInit == Init => TypeOK
  BY DEF Init, TypeOK, Drawables, NoReader

LEMMA DrawableType ==
    ASSUME TypeOK, NEW c \in Contexts
    PROVE  DrawableOf(c) \in Drawables
  BY DEF TypeOK, DrawableOf, Drawables, Pbuffer, Window

\* What a method of a live context can do to EGL's state.
Switches(c) ==
    \/ UNCHANGED eglVars
    \/ current' = NoContext /\ drawn' = NoDrawable
    \/ current' = egl[c] /\ drawn' = DrawableOf(c)

LEMMA GuardedSwitches ==
    ASSUME NEW c \in Contexts, Guarded(c)
    PROVE  Switches(c)
  BY DEF Guarded, Restored, Switches

LEMMA SwitchesType ==
    ASSUME TypeOK, NEW c \in Contexts, Switches(c)
    PROVE  current' \in Contexts \cup {NoContext} /\ drawn' \in Drawables
<1>1. NoDrawable \in Drawables
  BY DEF Drawables
<1>2. QED
  BY <1>1, DrawableType DEF TypeOK, Switches, eglVars

\* An update of one name of one EGL context.
LEMMA ObjectUpdate ==
    ASSUME TypeOK, NEW g \in Contexts, NEW n \in Names, NEW v \in Objects \cup {NoObject},
           object' = [object EXCEPT ![g][n] = v]
    PROVE  /\ object' \in [Contexts -> [Names -> Objects \cup {NoObject}]]
           /\ \A h \in Contexts, m \in Names :
                 object'[h][m] = IF h = g /\ m = n THEN v ELSE object[h][m]
<1>1. object \in [Contexts -> [Names -> Objects \cup {NoObject}]]
  BY DEF TypeOK
<1>2. object' = [object EXCEPT ![g] = [object[g] EXCEPT ![n] = v]]
  OBVIOUS
<1>3. [object[g] EXCEPT ![n] = v] \in [Names -> Objects \cup {NoObject}]
  BY <1>1
<1>4. object' \in [Contexts -> [Names -> Objects \cup {NoObject}]]
  BY <1>1, <1>2, <1>3
<1>5. \A h \in Contexts : object'[h] = IF h = g THEN [object[g] EXCEPT ![n] = v] ELSE object[h]
  BY <1>1, <1>2
<1>6. \A m \in Names : [object[g] EXCEPT ![n] = v][m] = IF m = n THEN v ELSE object[g][m]
  BY <1>1
<1>7. QED
  BY <1>4, <1>5, <1>6

\* A name may also be none, which is in no context's domain.
LEMMA ObjectType ==
    ASSUME TypeOK, NEW g \in Contexts, NEW n, NEW v \in Objects \cup {NoObject},
           object' = [object EXCEPT ![g][n] = v]
    PROVE  object' \in [Contexts -> [Names -> Objects \cup {NoObject}]]
<1>1. object \in [Contexts -> [Names -> Objects \cup {NoObject}]]
  BY DEF TypeOK
<1>2. [object[g] EXCEPT ![n] = v] \in [Names -> Objects \cup {NoObject}]
  BY <1>1
<1>3. object' = [object EXCEPT ![g] = [object[g] EXCEPT ![n] = v]]
  OBVIOUS
<1>4. QED
  BY <1>1, <1>2, <1>3

LEMMA DeleteType ==
    ASSUME TypeOK, NEW n, DeleteTexture(n)
    PROVE  object' \in [Contexts -> [Names -> Objects \cup {NoObject}]]
<1>1. CASE current = NoContext
  BY <1>1 DEF DeleteTexture, TypeOK
<1>2. CASE current # NoContext
  <2>1. current \in Contexts /\ object' = [object EXCEPT ![current][n] = NoObject]
    BY <1>2 DEF DeleteTexture, TypeOK
  <2>2. QED
    BY <2>1, ObjectType
<1>3. QED
  BY <1>1, <1>2

LEMMA DiscardType ==
    ASSUME TypeOK, NEW c \in Contexts, NEW s \in Surfaces, Discard(c, s)
    PROVE  /\ object' \in [Contexts -> [Names -> Objects \cup {NoObject}]]
           /\ name' \in [Surfaces -> Names \cup {NoName}]
<1>1. CASE s \in widget
  BY <1>1 DEF Discard, TypeOK
<1>2. CASE s \notin widget
  <2>1. name' = [name EXCEPT ![s] = NoName] /\ DeleteTexture(name[s])
    BY <1>2 DEF Discard
  <2>2. QED
    BY <2>1, DeleteType DEF TypeOK
<1>3. QED
  BY <1>1, <1>2

LEMMA TypeContext ==
    ASSUME TypeOK, NEW c \in Contexts, OnContext(c)
    PROVE  TypeOK'
<1> USE DEF contextVars, eglVars, surfaceVars, glVars
<1>1. CASE MakeContextCurrent(c)
  <2>1. Switches(c)
    BY <1>1 DEF MakeContextCurrent, Switches
  <2>2. QED
    BY <1>1, <2>1, SwitchesType DEF MakeContextCurrent, TypeOK
<1>2. CASE CreateContext(c)
  <2>1. Pbuffer(c) \in Drawables
    BY DEF Drawables, Pbuffer
  <2>2. status' \in [Contexts -> {"Absent", "Live", "Destroyed"}]
    BY <1>2 DEF CreateContext, TypeOK
  <2>3. QED
    BY <1>2, <2>1, <2>2 DEF CreateContext, TypeOK
<1>3. ASSUME NEW b \in Contexts, CreateContextFromNative(c, b)
      PROVE  TypeOK'
  <2>1. CASE UNCHANGED contextVars
    BY <1>3, <2>1 DEF CreateContextFromNative, TypeOK
  <2>2. CASE /\ status' = [status EXCEPT ![c] = "Live"]
             /\ egl' = [egl EXCEPT ![c] = egl[b]]
             /\ framebuffer' = [framebuffer EXCEPT ![c] = External]
             /\ external' = [external EXCEPT ![c] = DrawableOf(b)]
    <3>1. status' \in [Contexts -> {"Absent", "Live", "Destroyed"}]
      BY <2>2 DEF TypeOK
    <3>2. egl' \in [Contexts -> Contexts]
      BY <2>2 DEF TypeOK
    <3>3. framebuffer' \in [Contexts -> Surfaces \cup {NoSurface, External}]
      BY <2>2 DEF TypeOK
    <3>4. external' \in [Contexts -> Drawables]
      BY <2>2, DrawableType DEF TypeOK
    <3>5. QED
      BY <1>3, <3>1, <3>2, <3>3, <3>4 DEF CreateContextFromNative, TypeOK
  <2>3. QED
    BY <1>3, <2>1, <2>2 DEF CreateContextFromNative
<1>4. CASE DestroyContext(c)
  <2>1. /\ object' \in [Contexts -> [Names -> Objects \cup {NoObject}]]
        /\ name' \in [Surfaces -> Names \cup {NoName}]
        /\ place' \in [Surfaces -> {"absent", "free", "bound", "texture", "destroyed"}]
    BY <1>4, DiscardType DEF DestroyContext, TypeOK
  <2>2. NoDrawable \in Drawables
    BY DEF Drawables
  <2>3. QED
    BY <1>4, <2>1, <2>2 DEF DestroyContext, TypeOK
<1>5. CASE UnbindSurface(c)
  <2>1. Switches(c)
    BY <1>5, GuardedSwitches DEF UnbindSurface, Switches
  <2>2. /\ framebuffer' \in [Contexts -> Surfaces \cup {NoSurface, External}]
        /\ place' \in [Surfaces -> {"absent", "free", "bound", "texture", "destroyed"}]
        /\ result' \in {"ok", "err", "panic"}
    BY <1>5 DEF UnbindSurface, TypeOK
  <2>3. QED
    BY <1>5, <2>1, <2>2, SwitchesType DEF UnbindSurface, TypeOK
<1>6. CASE PresentBoundSurface(c)
  BY <1>6 DEF PresentBoundSurface, TypeOK
<1>7. QED
  BY <1>1, <1>2, <1>3, <1>4, <1>5, <1>6 DEF OnContext

LEMMA TypeSurface ==
    ASSUME TypeOK, NEW c \in Contexts, NEW s \in Surfaces, OnSurface(c, s)
    PROVE  TypeOK'
<1> USE DEF contextVars, eglVars, surfaceVars, glVars
<1>0. egl[c] \in Contexts /\ Image(s) \in Objects /\ LocalImage(s) \in Objects
  BY DEF TypeOK, Image, LocalImage, Objects
<1>1. ASSUME NEW r \in {"err", "panic"}, CreateGenericSurface(c, s, r)
      PROVE  TypeOK'
  <2>1. Switches(c)
    BY <1>1, GuardedSwitches DEF CreateGenericSurface, Switches
  <2>2. /\ object' \in [Contexts -> [Names -> Objects \cup {NoObject}]]
        /\ name' \in [Surfaces -> Names \cup {NoName}]
    <3>1. CASE UNCHANGED <<object, name>>
      BY <3>1 DEF TypeOK
    <3>2. ASSUME NEW n \in FreeNames(egl[c]),
                 object' = [object EXCEPT ![egl[c]][n] = Image(s)],
                 name' = [name EXCEPT ![s] = n]
          PROVE  /\ object' \in [Contexts -> [Names -> Objects \cup {NoObject}]]
                 /\ name' \in [Surfaces -> Names \cup {NoName}]
      BY <1>0, <3>2, ObjectType DEF TypeOK, FreeNames
    <3>3. QED
      BY <1>1, <3>1, <3>2 DEF CreateGenericSurface
  <2>3. result' \in {"ok", "err", "panic"}
    BY <1>1 DEF CreateGenericSurface
  <2>4. \/ UNCHANGED <<place, creator>>
        \/ /\ place' = [place EXCEPT ![s] = "free"]
           /\ creator' = [creator EXCEPT ![s] = c]
    BY <1>1 DEF CreateGenericSurface
  <2>5. /\ place' \in [Surfaces -> {"absent", "free", "bound", "texture", "destroyed"}]
        /\ creator' \in [Surfaces -> Contexts \cup {NoContext}]
    <3>1. CASE UNCHANGED <<place, creator>>
      BY <3>1 DEF TypeOK
    <3>2. CASE /\ place' = [place EXCEPT ![s] = "free"]
               /\ creator' = [creator EXCEPT ![s] = c]
      BY <3>2 DEF TypeOK
    <3>3. QED
      BY <2>4, <3>1, <3>2
  <2>6. QED
    BY <1>1, <2>1, <2>2, <2>3, <2>5, SwitchesType DEF CreateGenericSurface, TypeOK
<1>2. CASE CreateWindowSurface(c, s)
  <2>1. CASE UNCHANGED surfaceVars /\ result' = "panic"
    BY <1>2, <2>1 DEF CreateWindowSurface, TypeOK
  <2>2. CASE /\ place' = [place EXCEPT ![s] = "free"]
             /\ widget' = widget \cup {s}
             /\ creator' = [creator EXCEPT ![s] = c]
             /\ result' = "ok"
    BY <1>2, <2>2 DEF CreateWindowSurface, TypeOK
  <2>3. QED
    BY <1>2, <2>1, <2>2 DEF CreateWindowSurface
<1>3. CASE DestroySurface(c, s)
  <2>1. /\ object' \in [Contexts -> [Names -> Objects \cup {NoObject}]]
        /\ name' \in [Surfaces -> Names \cup {NoName}]
        /\ place' \in [Surfaces -> {"absent", "free", "bound", "texture", "destroyed"}]
    BY <1>3, DiscardType DEF DestroySurface, TypeOK
  <2>2. QED
    BY <1>3, <2>1 DEF DestroySurface, TypeOK
<1>4. CASE BindSurface(c, s)
  <2>1. CASE UNCHANGED <<framebuffer, place>>
    BY <1>4, <2>1 DEF BindSurface, TypeOK
  <2>2. CASE /\ framebuffer' = [framebuffer EXCEPT ![c] = s]
             /\ place' = [place EXCEPT ![s] = "bound"]
    BY <1>4, <2>2 DEF BindSurface, TypeOK
  <2>3. QED
    BY <1>4, <2>1, <2>2 DEF BindSurface
<1>5. CASE PresentSurface(c, s)
  BY <1>5 DEF PresentSurface, TypeOK
<1>6. CASE CreateSurfaceTexture(c, s)
  <2>1. Switches(c)
    BY <1>6, GuardedSwitches DEF CreateSurfaceTexture, Switches
  <2>2. /\ object' \in [Contexts -> [Names -> Objects \cup {NoObject}]]
        /\ reader' \in [Surfaces -> [egl : Contexts, name : Names] \cup {NoReader}]
    <3>1. CASE UNCHANGED <<object, reader>>
      BY <3>1 DEF TypeOK
    <3>2. ASSUME NEW n \in FreeNames(egl[c]),
                 object' = [object EXCEPT ![egl[c]][n] = LocalImage(s)],
                 reader' = [reader EXCEPT ![s] = [egl |-> egl[c], name |-> n]]
          PROVE  /\ object' \in [Contexts -> [Names -> Objects \cup {NoObject}]]
                 /\ reader' \in [Surfaces -> [egl : Contexts, name : Names] \cup {NoReader}]
      <4>1. [egl |-> egl[c], name |-> n] \in [egl : Contexts, name : Names]
        BY <1>0 DEF FreeNames
      <4>2. QED
        BY <1>0, <3>2, <4>1, ObjectType DEF TypeOK
    <3>3. QED
      BY <1>6, <3>1, <3>2 DEF CreateSurfaceTexture
  <2>3. /\ place' \in [Surfaces -> {"absent", "free", "bound", "texture", "destroyed"}]
        /\ result' \in {"ok", "err", "panic"}
    BY <1>6 DEF CreateSurfaceTexture, TypeOK
  <2>4. QED
    BY <1>6, <2>1, <2>2, <2>3, SwitchesType DEF CreateSurfaceTexture, TypeOK
<1>7. CASE DestroySurfaceTexture(c, s)
  <2>1. Switches(c)
    BY <1>7, GuardedSwitches DEF DestroySurfaceTexture, DeletedWithGuard, Switches
  <2>2. object' \in [Contexts -> [Names -> Objects \cup {NoObject}]]
    BY <1>0, <1>7, DeleteType, ObjectType DEF DestroySurfaceTexture, DeletedWithGuard
  <2>3. QED
    BY <1>7, <2>1, <2>2, SwitchesType DEF DestroySurfaceTexture, TypeOK
<1>8. QED
  BY <1>1, <1>2, <1>3, <1>4, <1>5, <1>6, <1>7 DEF OnSurface, AndroidCreates, OhosCreates

LEMMA TypeNext == TypeOK /\ [Next]_vars => TypeOK'
<1> SUFFICES ASSUME TypeOK, [Next]_vars
             PROVE  TypeOK'
  OBVIOUS
<1>1. CASE UNCHANGED vars
  BY <1>1 DEF vars, contextVars, eglVars, surfaceVars, glVars, TypeOK
<1>2. CASE MakeNoContextCurrent
  <2>1. NoDrawable \in Drawables
    BY DEF Drawables
  <2>2. QED
    BY <1>2, <2>1
       DEF MakeNoContextCurrent, contextVars, eglVars, surfaceVars, glVars, TypeOK
<1>3. QED
  BY <1>1, <1>2, TypeContext, TypeSurface DEF Next

-----------------------------------------------------------------------------
(* Hardware buffers: contexts, their surfaces and what is drawn to. *)

\* What EGL contexts there are: a context that wraps no other holds one of its own.
EglInv ==
    /\ \A c \in Contexts :
          /\ status[c] = "Absent" => egl[c] = c /\ framebuffer[c] = NoSurface
          /\ status[c] = "Live" /\ framebuffer[c] # External => egl[c] = c
          /\ status[c] # "Absent" => status[egl[c]] # "Absent"
    /\ current # NoContext => status[current] # "Absent"

\* Where surfaces belong: to a context that was created, whose framebuffer names them
\* while they are bound.
SurfaceInv ==
    /\ \A c \in Contexts : framebuffer[c] \in Surfaces =>
          creator[framebuffer[c]] = c /\ place[framebuffer[c]] = "bound"
    /\ \A s \in Surfaces :
          /\ place[s] # "absent" => creator[s] \in Contexts /\ status[creator[s]] # "Absent"
          /\ place[s] = "absent" => s \notin widget
          /\ place[s] = "texture" =>
                reader[s] \in [egl : Contexts, name : Names] /\ status[reader[s].egl] # "Absent"
          /\ Alive(s) /\ s \notin widget => name[s] \in Names

\* d is a drawable of a Context that holds g.
Belongs(g, d) ==
    \/ \E c \in Contexts : egl[c] = g /\ d = Pbuffer(c)
    \/ \E s \in widget : d = Window(s) /\ creator[s] \in Contexts /\ egl[creator[s]] = g

OwnInv ==
    /\ current # NoContext => Belongs(current, drawn)
    /\ \A c \in Contexts : status[c] = "Live" /\ framebuffer[c] = External =>
          Belongs(egl[c], external[c])


\* What no call changes: the EGL context of a context, once it exists, and the context
\* of a surface.
Steady ==
    /\ \A c \in Contexts : status[c] # "Absent" => egl'[c] = egl[c] /\ status'[c] # "Absent"
    /\ widget \subseteq widget'
    /\ \A s \in Surfaces : place[s] # "absent" => place'[s] # "absent" /\ creator'[s] = creator[s]

LEMMA BelongsSteady ==
    ASSUME TypeOK, EglInv, SurfaceInv, Steady, NEW g \in Contexts, status[g] # "Absent",
           NEW d, Belongs(g, d)
    PROVE  Belongs(g, d)'
<1>1. ASSUME NEW c \in Contexts, egl[c] = g, d = Pbuffer(c)
      PROVE  Belongs(g, d)'
  <2>1. status[c] # "Absent"
    BY <1>1 DEF EglInv
  <2>2. egl'[c] = g
    BY <1>1, <2>1 DEF Steady
  <2>3. QED
    BY <1>1, <2>2 DEF Belongs, Pbuffer
<1>2. ASSUME NEW s \in widget, d = Window(s), creator[s] \in Contexts, egl[creator[s]] = g
      PROVE  Belongs(g, d)'
  <2>1. s \in Surfaces /\ s \in widget' /\ place[s] # "absent"
    BY <1>2 DEF TypeOK, SurfaceInv, Steady
  <2>2. creator'[s] = creator[s] /\ status[creator[s]] # "Absent"
    BY <2>1 DEF SurfaceInv, Steady
  <2>3. egl'[creator[s]] = g
    BY <1>2, <2>2 DEF Steady
  <2>4. QED
    BY <1>2, <2>1, <2>2, <2>3 DEF Belongs, Window
<1>3. QED
  BY <1>1, <1>2 DEF Belongs

\* What make_context_current draws to belongs to what it makes current.
LEMMA DrawableBelongs ==
    ASSUME TypeOK, EglInv, SurfaceInv, OwnInv, NEW c \in Contexts, status[c] = "Live"
    PROVE  Belongs(egl[c], DrawableOf(c))
<1>1. CASE framebuffer[c] = External
  BY <1>1 DEF DrawableOf, OwnInv
<1>2. CASE framebuffer[c] # External /\ framebuffer[c] \in widget
  BY <1>2 DEF DrawableOf, SurfaceInv, TypeOK, Belongs
<1>3. CASE framebuffer[c] # External /\ framebuffer[c] \notin widget
  BY <1>3 DEF DrawableOf, Belongs
<1>4. QED
  BY <1>1, <1>2, <1>3

\* Contexts that are wrapped around others stay as they are.
WrappedKept ==
    \A d \in Contexts : status'[d] = "Live" /\ framebuffer'[d] = External =>
        status[d] = "Live" /\ framebuffer[d] = External /\ external'[d] = external[d]

LEMMA OwnKept ==
    ASSUME TypeOK, EglInv, SurfaceInv, OwnInv, Steady, WrappedKept,
           NEW c \in Contexts, status[c] = "Live", Switches(c)
    PROVE  OwnInv'
<1>1. ASSUME current' # NoContext
      PROVE  Belongs(current, drawn)'
  <2>1. CASE UNCHANGED eglVars
    <3>1. current \in Contexts /\ Belongs(current, drawn) /\ status[current] # "Absent"
      BY <1>1, <2>1 DEF TypeOK, OwnInv, EglInv, eglVars
    <3>2. QED
      BY <2>1, <3>1, BelongsSteady DEF Belongs, eglVars
  <2>2. CASE current' = egl[c] /\ drawn' = DrawableOf(c)
    <3>1. egl[c] \in Contexts /\ status[egl[c]] # "Absent"
      BY DEF TypeOK, EglInv
    <3>2. Belongs(egl[c], DrawableOf(c))
      BY DrawableBelongs
    <3>3. QED
      BY <2>2, <3>1, <3>2, BelongsSteady DEF Belongs
  <2>3. QED
    BY <1>1, <2>1, <2>2 DEF Switches
<1>2. ASSUME NEW d \in Contexts, status'[d] = "Live", framebuffer'[d] = External
      PROVE  Belongs(egl[d], external[d])'
  <2>1. /\ status[d] = "Live" /\ framebuffer[d] = External /\ external'[d] = external[d]
        /\ egl'[d] = egl[d] /\ egl[d] \in Contexts /\ status[egl[d]] # "Absent"
    BY <1>2 DEF WrappedKept, Steady, EglInv, TypeOK
  <2>2. Belongs(egl[d], external[d])
    BY <2>1 DEF OwnInv
  <2>3. QED
    BY <2>1, <2>2, BelongsSteady DEF Belongs
<1>3. QED
  BY <1>1, <1>2 DEF OwnInv

HardwareInv == EglInv /\ SurfaceInv /\ OwnInv

\* A call that leaves contexts alone but for switching.
LEMMA EglKept ==
    ASSUME TypeOK, EglInv, NEW c \in Contexts, status[c] = "Live", Switches(c),
           UNCHANGED <<status, egl, framebuffer>>
    PROVE  EglInv'
  BY DEF TypeOK, EglInv, Switches, eglVars

LEMMA NothingChanged ==
    ASSUME TypeOK, HardwareInv, NEW c \in Contexts, MayCall(c), Switches(c),
           UNCHANGED <<contextVars, surfaceVars, glVars>>
    PROVE  HardwareInv'
<1>1. EglInv'
  BY EglKept DEF HardwareInv, MayCall, contextVars
<1>2. SurfaceInv'
  BY DEF HardwareInv, SurfaceInv, Alive, contextVars, surfaceVars, glVars
<1>3. Steady /\ WrappedKept
  BY DEF Steady, WrappedKept, contextVars, surfaceVars
<1>4. QED
  BY <1>1, <1>2, <1>3, OwnKept DEF HardwareInv, MayCall

LEMMA CreateContextKeeps ==
    ASSUME TypeOK, HardwareInv, NEW c \in Contexts, CreateContext(c)
    PROVE  HardwareInv'
<1> USE DEF HardwareInv
<1>1. CASE UNCHANGED <<status, eglVars>>
  BY <1>1 DEF CreateContext, EglInv, SurfaceInv, OwnInv, Belongs, Alive,
     eglVars, surfaceVars, glVars
<1>2. CASE /\ status' = [status EXCEPT ![c] = "Live"]
           /\ current' = c /\ drawn' = Pbuffer(c)
  <2>1. UNCHANGED <<egl, framebuffer, external, place, widget, creator, name, reader>>
        /\ status[c] = "Absent" /\ egl[c] = c /\ framebuffer[c] = NoSurface
    BY DEF CreateContext, EglInv, surfaceVars, glVars
  <2>2. EglInv'
    BY <1>2, <2>1 DEF EglInv, TypeOK
  <2>3. SurfaceInv'
    BY <1>2, <2>1 DEF SurfaceInv, TypeOK, Alive
  <2>4. Steady
    BY <1>2, <2>1 DEF Steady, TypeOK
  <2>5. Belongs(current, drawn)'
    BY <1>2, <2>1 DEF Belongs, Pbuffer
  <2>6. ASSUME NEW d \in Contexts, status'[d] = "Live", framebuffer'[d] = External
        PROVE  Belongs(egl[d], external[d])'
    <3>1. d # c /\ status[d] = "Live" /\ framebuffer[d] = External
      BY <1>2, <2>1, <2>6, DistinctAssumption DEF TypeOK
    <3>2. egl[d] \in Contexts /\ status[egl[d]] # "Absent" /\ Belongs(egl[d], external[d])
      BY <3>1 DEF EglInv, OwnInv, TypeOK
    <3>3. QED
      BY <2>1, <2>4, <3>2, BelongsSteady DEF Belongs
  <2>7. QED
    BY <2>2, <2>3, <2>5, <2>6 DEF OwnInv
<1>3. QED
  BY <1>1, <1>2 DEF CreateContext

LEMMA WrapKeeps ==
    ASSUME TypeOK, HardwareInv, NEW c \in Contexts, NEW b \in Contexts,
           CreateContextFromNative(c, b)
    PROVE  HardwareInv'
<1> USE DEF HardwareInv
<1>0. UNCHANGED <<current, drawn, place, widget, creator, name, reader>>
  BY DEF CreateContextFromNative, eglVars, surfaceVars, glVars
<1>1. CASE UNCHANGED contextVars
  BY <1>0, <1>1 DEF EglInv, SurfaceInv, OwnInv, Belongs, Alive, contextVars
<1>2. CASE /\ status' = [status EXCEPT ![c] = "Live"]
           /\ egl' = [egl EXCEPT ![c] = egl[b]]
           /\ framebuffer' = [framebuffer EXCEPT ![c] = External]
           /\ external' = [external EXCEPT ![c] = DrawableOf(b)]
  <2>1. /\ status[c] = "Absent" /\ egl[c] = c /\ framebuffer[c] = NoSurface
        /\ status[b] = "Live" /\ egl[b] \in Contexts /\ status[egl[b]] # "Absent"
    BY DEF CreateContextFromNative, EglInv, MayCall, TypeOK
  <2>2. \A d \in Contexts :
           /\ status'[d] = (IF d = c THEN "Live" ELSE status[d])
           /\ egl'[d] = (IF d = c THEN egl[b] ELSE egl[d])
           /\ framebuffer'[d] = (IF d = c THEN External ELSE framebuffer[d])
           /\ external'[d] = (IF d = c THEN DrawableOf(b) ELSE external[d])
    BY <1>2 DEF TypeOK
  <2>3. EglInv'
    <3>1. \A d \in Contexts : status'[d] = "Absent" => egl'[d] = d /\ framebuffer'[d] = NoSurface
      BY <2>2 DEF EglInv
    <3>2. \A d \in Contexts : status'[d] = "Live" /\ framebuffer'[d] # External => egl'[d] = d
      BY <2>2 DEF EglInv
    <3>3. \A d \in Contexts : status'[d] # "Absent" => status'[egl'[d]] # "Absent"
      BY <2>1, <2>2 DEF EglInv, TypeOK
    <3>4. current' # NoContext => status'[current'] # "Absent"
      BY <1>0, <2>2 DEF EglInv, TypeOK
    <3>5. QED
      BY <3>1, <3>2, <3>3, <3>4 DEF EglInv
  <2>4. SurfaceInv'
    BY <1>0, <2>2, DistinctAssumption DEF SurfaceInv, Alive, TypeOK
  <2>5. Steady
    BY <1>0, <2>1, <2>2 DEF Steady
  <2>6. ASSUME current' # NoContext
        PROVE  Belongs(current, drawn)'
    <3>1. current \in Contexts /\ status[current] # "Absent" /\ Belongs(current, drawn)
      BY <1>0, <2>6 DEF EglInv, OwnInv, TypeOK
    <3>2. QED
      BY <1>0, <2>5, <3>1, BelongsSteady DEF Belongs
  <2>7. ASSUME NEW d \in Contexts, status'[d] = "Live", framebuffer'[d] = External
        PROVE  Belongs(egl[d], external[d])'
    <3>1. CASE d = c
      <4>1. Belongs(egl[b], DrawableOf(b))
        BY <2>1, DrawableBelongs
      <4>2. QED
        BY <2>1, <2>2, <2>5, <3>1, <4>1, BelongsSteady DEF Belongs
    <3>2. CASE d # c
      <4>1. /\ egl[d] \in Contexts /\ status[egl[d]] # "Absent"
            /\ Belongs(egl[d], external[d])
        BY <2>2, <2>7, <3>2 DEF EglInv, OwnInv, TypeOK
      <4>2. QED
        BY <2>2, <2>5, <3>2, <4>1, BelongsSteady DEF Belongs
    <3>3. QED
      BY <3>1, <3>2
  <2>8. QED
    BY <2>3, <2>4, <2>6, <2>7 DEF OwnInv
<1>3. QED
  BY <1>1, <1>2 DEF CreateContextFromNative

\* The surface of a context that is destroyed, and the names of one that is destroyed,
\* change for that surface only.
LEMMA DestroyContextKeeps ==
    ASSUME TypeOK, HardwareInv, NEW c \in Contexts, DestroyContext(c)
    PROVE  HardwareInv'
<1> USE DEF HardwareInv
<1>1. /\ status' = [status EXCEPT ![c] = "Destroyed"] /\ status[c] = "Live"
      /\ framebuffer' = [framebuffer EXCEPT ![c] = NoSurface]
      /\ current' = NoContext /\ drawn' = NoDrawable
      /\ UNCHANGED <<egl, external, widget, creator, reader>>
  BY DEF DestroyContext, MayCall
<1>2. EglInv'
  BY <1>1 DEF EglInv, TypeOK
<1>3. SurfaceInv'
  <2>1. CASE framebuffer[c] \notin Surfaces /\ UNCHANGED <<name, place>>
    BY <1>1, <2>1, DistinctAssumption DEF SurfaceInv, Alive, TypeOK
  <2>2. CASE /\ framebuffer[c] \in Surfaces
             /\ place' = [place EXCEPT ![framebuffer[c]] = "destroyed"]
             /\ \/ UNCHANGED name
                \/ name' = [name EXCEPT ![framebuffer[c]] = NoName]
    <3>1. \A s \in Surfaces : s # framebuffer[c] => place'[s] = place[s] /\ name'[s] = name[s]
      BY <2>2 DEF TypeOK
    <3>2. place'[framebuffer[c]] = "destroyed" /\ place[framebuffer[c]] = "bound"
      BY <2>2 DEF SurfaceInv, TypeOK
    <3>3. \A d \in Contexts : framebuffer'[d] \in Surfaces =>
             creator'[framebuffer'[d]] = d /\ place'[framebuffer'[d]] = "bound"
      BY <1>1, <2>2, <3>1, DistinctAssumption DEF SurfaceInv, TypeOK
    <3>4. \A d \in Contexts : status[d] # "Absent" => status'[d] # "Absent"
      BY <1>1 DEF TypeOK
    <3>5. QED
      BY <1>1, <3>1, <3>2, <3>3, <3>4 DEF SurfaceInv, Alive
  <2>3. QED
    BY <2>1, <2>2 DEF DestroyContext, Discard
<1>4. Steady /\ WrappedKept
  <2>1. \A s \in Surfaces : place[s] # "absent" => place'[s] # "absent"
    BY DEF DestroyContext, TypeOK
  <2>2. QED
    BY <1>1, <2>1, DistinctAssumption DEF Steady, WrappedKept, TypeOK
<1>5. QED
  BY <1>1, <1>2, <1>3, <1>4, OwnKept DEF Switches

LEMMA UnbindKeeps ==
    ASSUME TypeOK, HardwareInv, NEW c \in Contexts, UnbindSurface(c)
    PROVE  HardwareInv'
<1> USE DEF HardwareInv
<1>1. /\ Switches(c) /\ status[c] = "Live"
      /\ UNCHANGED <<status, egl, external, widget, creator, object, name, reader>>
  BY GuardedSwitches DEF UnbindSurface, MayCall, Switches, glVars
<1>2. CASE UNCHANGED <<framebuffer, place>>
  <2>1. SurfaceInv' /\ Steady /\ WrappedKept
    BY <1>1, <1>2 DEF SurfaceInv, Steady, WrappedKept, Alive
  <2>2. QED
    BY <1>1, <1>2, <2>1, EglKept, OwnKept
<1>3. ASSUME NEW s \in Surfaces, framebuffer[c] = s,
             framebuffer' = [framebuffer EXCEPT ![c] = NoSurface],
             place' = [place EXCEPT ![s] = "free"]
      PROVE  HardwareInv'
  <2>1. EglInv'
    BY <1>1, <1>3, DistinctAssumption DEF EglInv, TypeOK, Switches, eglVars
  <2>2. SurfaceInv'
    BY <1>1, <1>3, DistinctAssumption DEF SurfaceInv, TypeOK, Alive
  <2>3. Steady /\ WrappedKept
    BY <1>1, <1>3, DistinctAssumption DEF Steady, WrappedKept, TypeOK
  <2>4. QED
    BY <1>1, <2>1, <2>2, <2>3, OwnKept
<1>4. QED
  BY <1>2, <1>3 DEF UnbindSurface

LEMMA BindKeeps ==
    ASSUME TypeOK, HardwareInv, NEW c \in Contexts, NEW s \in Surfaces, BindSurface(c, s)
    PROVE  HardwareInv'
<1> USE DEF HardwareInv
<1>1. /\ Switches(c) /\ status[c] = "Live" /\ place[s] = "free"
      /\ UNCHANGED <<status, egl, external, current, drawn, widget, creator, object, name, reader>>
  BY DEF BindSurface, MayCall, Switches, eglVars, glVars
<1>2. CASE UNCHANGED <<framebuffer, place>>
  <2>1. SurfaceInv' /\ Steady /\ WrappedKept
    BY <1>1, <1>2 DEF SurfaceInv, Steady, WrappedKept, Alive
  <2>2. QED
    BY <1>1, <1>2, <2>1, EglKept, OwnKept
<1>3. CASE /\ creator[s] = c /\ framebuffer[c] = NoSurface
           /\ framebuffer' = [framebuffer EXCEPT ![c] = s]
           /\ place' = [place EXCEPT ![s] = "bound"]
  <2>1. EglInv'
    BY <1>1, <1>3, DistinctAssumption DEF EglInv, TypeOK
  <2>2. SurfaceInv'
    BY <1>1, <1>3 DEF SurfaceInv, TypeOK, Alive
  <2>3. Steady /\ WrappedKept
    BY <1>1, <1>3, DistinctAssumption DEF Steady, WrappedKept, TypeOK
  <2>4. QED
    BY <1>1, <2>1, <2>2, <2>3, OwnKept
<1>4. QED
  BY <1>2, <1>3 DEF BindSurface

\* A surface is made, in the only place from which one can be.
LEMMA CreatedKeeps ==
    ASSUME TypeOK, HardwareInv, NEW c \in Contexts, NEW s \in Surfaces,
           status[c] = "Live", Switches(c), place[s] = "absent",
           UNCHANGED <<contextVars, reader>>,
           place' = [place EXCEPT ![s] = "free"],
           creator' = [creator EXCEPT ![s] = c],
           \/ widget' = widget \cup {s} /\ UNCHANGED name
           \/ UNCHANGED widget /\ \E n \in Names : name' = [name EXCEPT ![s] = n]
    PROVE  HardwareInv'
<1> USE DEF HardwareInv
<1>1. \A t \in Surfaces : t # s => place'[t] = place[t] /\ creator'[t] = creator[t]
  BY DEF TypeOK
<1>2. place'[s] = "free" /\ creator'[s] = c
  BY DEF TypeOK
<1>3. \A t \in Surfaces : t # s => name'[t] = name[t] /\ (t \in widget' <=> t \in widget)
  BY DEF TypeOK
<1>4. s \in widget' \/ name'[s] \in Names
  BY DEF TypeOK
<1>5. \A d \in Contexts : framebuffer[d] # s
  BY DEF SurfaceInv
<1>6. SurfaceInv'
  <2>1. \A d \in Contexts : framebuffer'[d] \in Surfaces =>
           creator'[framebuffer'[d]] = d /\ place'[framebuffer'[d]] = "bound"
    BY <1>1, <1>5 DEF SurfaceInv, contextVars
  <2>2. ASSUME NEW t \in Surfaces
        PROVE  /\ place'[t] # "absent" =>
                     creator'[t] \in Contexts /\ status'[creator'[t]] # "Absent"
               /\ place'[t] = "absent" => t \notin widget'
               /\ place'[t] = "texture" =>
                     /\ reader'[t] \in [egl : Contexts, name : Names]
                     /\ status'[reader'[t].egl] # "Absent"
               /\ Alive(t)' /\ t \notin widget' => name'[t] \in Names
    <3>1. CASE t = s
      BY <1>2, <1>4, <3>1 DEF contextVars
    <3>2. CASE t # s
      BY <1>1, <1>3, <3>2 DEF SurfaceInv, Alive, contextVars
    <3>3. QED
      BY <3>1, <3>2
  <2>3. QED
    BY <2>1, <2>2 DEF SurfaceInv
<1>7. Steady /\ WrappedKept
  BY <1>1, <1>2 DEF Steady, WrappedKept, TypeOK, contextVars
<1>8. QED
  BY <1>6, <1>7, EglKept, OwnKept DEF contextVars

\* A surface changes its place, but not for bound or back to absent.
LEMMA PlaceKeeps ==
    ASSUME TypeOK, HardwareInv, NEW c \in Contexts, NEW s \in Surfaces,
           status[c] = "Live", Switches(c), place[s] \in {"free", "texture"},
           UNCHANGED <<contextVars, widget, creator>>,
           \/ /\ place' = [place EXCEPT ![s] = "destroyed"] /\ UNCHANGED reader
              /\ UNCHANGED name \/ name' = [name EXCEPT ![s] = NoName]
           \/ /\ place' = [place EXCEPT ![s] = "free"] /\ UNCHANGED name
              /\ reader' = [reader EXCEPT ![s] = NoReader]
           \/ /\ place' = [place EXCEPT ![s] = "texture"] /\ UNCHANGED name
              /\ \E n \in Names : reader' = [reader EXCEPT ![s] = [egl |-> egl[c], name |-> n]]
    PROVE  HardwareInv'
<1> USE DEF HardwareInv
<1>1. \A t \in Surfaces : t # s => /\ place'[t] = place[t] /\ name'[t] = name[t]
                                   /\ reader'[t] = reader[t]
  BY DEF TypeOK
<1>2. place'[s] \in {"free", "texture", "destroyed"}
  BY DEF TypeOK
<1>3. place'[s] \in {"free", "texture"} => name'[s] = name[s]
  BY DEF TypeOK
<1>4. place'[s] = "texture" =>
         reader'[s] \in [egl : Contexts, name : Names] /\ reader'[s].egl = egl[c]
  <2>1. egl[c] \in Contexts
    BY DEF TypeOK
  <2>2. ASSUME NEW n \in Names, reader' = [reader EXCEPT ![s] = [egl |-> egl[c], name |-> n]]
        PROVE  reader'[s] \in [egl : Contexts, name : Names] /\ reader'[s].egl = egl[c]
    <3>1. reader'[s] = [egl |-> egl[c], name |-> n]
      BY <2>2 DEF TypeOK
    <3>2. QED
      BY <2>1, <3>1
  <2>3. QED
    BY <2>2 DEF TypeOK
<1>5. SurfaceInv'
  <2>1. \A d \in Contexts : framebuffer'[d] \in Surfaces =>
           creator'[framebuffer'[d]] = d /\ place'[framebuffer'[d]] = "bound"
    BY <1>1 DEF SurfaceInv, contextVars
  <2>2. ASSUME NEW t \in Surfaces
        PROVE  /\ place'[t] # "absent" =>
                     creator'[t] \in Contexts /\ status'[creator'[t]] # "Absent"
               /\ place'[t] = "absent" => t \notin widget'
               /\ place'[t] = "texture" =>
                     /\ reader'[t] \in [egl : Contexts, name : Names]
                     /\ status'[reader'[t].egl] # "Absent"
               /\ Alive(t)' /\ t \notin widget' => name'[t] \in Names
    <3>1. CASE t = s
      <4>1. status[egl[c]] # "Absent"
        BY DEF EglInv
      <4>2. QED
        BY <1>2, <1>3, <1>4, <3>1, <4>1 DEF SurfaceInv, Alive, contextVars
    <3>2. CASE t # s
      BY <1>1, <3>2 DEF SurfaceInv, Alive, contextVars
    <3>3. QED
      BY <3>1, <3>2
  <2>3. QED
    BY <2>1, <2>2 DEF SurfaceInv
<1>6. Steady /\ WrappedKept
  BY <1>1, <1>2 DEF Steady, WrappedKept, contextVars
<1>7. QED
  BY <1>5, <1>6, EglKept, OwnKept DEF contextVars

LEMMA HardwareContextCalls ==
    ASSUME TypeOK, HardwareInv, NEW c \in Contexts, OnContext(c)
    PROVE  HardwareInv'
<1>1. CASE MakeContextCurrent(c)
  BY <1>1, NothingChanged DEF MakeContextCurrent, Switches
<1>2. CASE PresentBoundSurface(c)
  BY <1>2, NothingChanged DEF PresentBoundSurface, Switches
<1>3. QED
  BY <1>1, <1>2, CreateContextKeeps, WrapKeeps, DestroyContextKeeps, UnbindKeeps DEF OnContext

LEMMA HardwareSurfaceCalls ==
    ASSUME TypeOK, HardwareInv, NEW c \in Contexts, NEW s \in Surfaces, OnSurface(c, s)
    PROVE  HardwareInv'
<1> USE DEF MayCall
<1>1. ASSUME NEW r, CreateGenericSurface(c, s, r)
      PROVE  HardwareInv'
  <2>1. Switches(c)
    BY <1>1, GuardedSwitches DEF CreateGenericSurface, Switches
  <2>2. CASE UNCHANGED <<object, name, place, creator>>
    BY <1>1, <2>1, <2>2, NothingChanged DEF CreateGenericSurface, surfaceVars, glVars
  <2>3. CASE /\ \E n \in Names : name' = [name EXCEPT ![s] = n]
             /\ place' = [place EXCEPT ![s] = "free"]
             /\ creator' = [creator EXCEPT ![s] = c]
    BY <1>1, <2>1, <2>3, CreatedKeeps DEF CreateGenericSurface
  <2>4. QED
    BY <1>1, <2>2, <2>3 DEF CreateGenericSurface, FreeNames
<1>2. CASE CreateWindowSurface(c, s)
  <2>1. Switches(c)
    BY <1>2 DEF CreateWindowSurface, Switches
  <2>2. CASE UNCHANGED surfaceVars
    BY <1>2, <2>1, <2>2, NothingChanged DEF CreateWindowSurface
  <2>3. QED
    BY <1>2, <2>1, <2>2, CreatedKeeps DEF CreateWindowSurface, glVars
<1>3. CASE DestroySurface(c, s)
  <2>1. Switches(c)
    BY <1>3 DEF DestroySurface, Switches
  <2>2. CASE UNCHANGED <<object, name, place>>
    BY <1>3, <2>1, <2>2, NothingChanged DEF DestroySurface, surfaceVars, glVars
  <2>3. CASE Discard(c, s) /\ place' = [place EXCEPT ![s] = "destroyed"]
    BY <1>3, <2>1, <2>3, PlaceKeeps DEF DestroySurface, Discard
  <2>4. QED
    BY <1>3, <2>2, <2>3 DEF DestroySurface
<1>4. CASE PresentSurface(c, s)
  BY <1>4, NothingChanged DEF PresentSurface, Switches
<1>5. CASE CreateSurfaceTexture(c, s)
  <2>1. Switches(c)
    BY <1>5, GuardedSwitches DEF CreateSurfaceTexture, Switches
  <2>2. CASE UNCHANGED <<eglVars, object, reader, place>>
    BY <1>5, <2>1, <2>2, NothingChanged DEF CreateSurfaceTexture, surfaceVars, glVars
  <2>3. CASE /\ \E n \in Names : reader' = [reader EXCEPT ![s] = [egl |-> egl[c], name |-> n]]
             /\ place' = [place EXCEPT ![s] = "texture"]
    BY <1>5, <2>1, <2>3, PlaceKeeps DEF CreateSurfaceTexture
  <2>4. QED
    BY <1>5, <2>2, <2>3 DEF CreateSurfaceTexture, FreeNames
<1>6. CASE DestroySurfaceTexture(c, s)
  <2>1. Switches(c)
    BY <1>6, GuardedSwitches DEF DestroySurfaceTexture, DeletedWithGuard, Switches
  <2>2. QED
    BY <1>6, <2>1, PlaceKeeps DEF DestroySurfaceTexture
<1>7. QED
  BY <1>1, <1>2, <1>3, <1>4, <1>5, <1>6, BindKeeps DEF OnSurface, AndroidCreates, OhosCreates

LEMMA HardwareNext == TypeOK /\ HardwareInv /\ [Next]_vars => HardwareInv'
<1> SUFFICES ASSUME TypeOK, HardwareInv, [Next]_vars
             PROVE  HardwareInv'
  OBVIOUS
<1>1. CASE UNCHANGED vars
  BY <1>1 DEF vars, contextVars, eglVars, surfaceVars, glVars, HardwareInv, EglInv,
     SurfaceInv, OwnInv, Belongs, Alive
<1>2. CASE MakeNoContextCurrent
  BY <1>2 DEF MakeNoContextCurrent, contextVars, eglVars, surfaceVars, glVars, HardwareInv,
     EglInv, SurfaceInv, OwnInv, Belongs, Alive
<1>3. QED
  BY <1>1, <1>2, HardwareContextCalls, HardwareSurfaceCalls DEF Next

-----------------------------------------------------------------------------
(* Hardware buffers: contexts can be made current. *)

\* Drawables that can be made current.
Drawn == {Pbuffer(c) : c \in {b \in Contexts : status[b] = "Live"}}
             \cup {Window(s) : s \in {t \in widget : Alive(t)}}

\* What a wrapped context uses exists as long as it does.
BorrowInv ==
    \A c \in Contexts : status[c] = "Live" =>
        /\ status[egl[c]] = "Live"
        /\ framebuffer[c] = External =>
              /\ external[c] \in Drawn
              /\ \A s \in Surfaces : external[c] = Window(s) => creator[s] # c

LEMMA DrawableDrawn ==
    ASSUME TypeOK, HardwareInv, BorrowInv, NEW c \in Contexts, status[c] = "Live"
    PROVE  DrawableOf(c) \in Drawn
<1>1. CASE framebuffer[c] = External
  BY <1>1 DEF DrawableOf, BorrowInv
<1>2. CASE framebuffer[c] # External /\ framebuffer[c] \in widget
  BY <1>2 DEF DrawableOf, HardwareInv, SurfaceInv, TypeOK, Drawn, Alive
<1>3. CASE framebuffer[c] # External /\ framebuffer[c] \notin widget
  BY <1>3 DEF DrawableOf, Drawn
<1>4. QED
  BY <1>1, <1>2, <1>3

\* As long as no native context outlives what it was wrapped with, making current fails
\* only if EGL does.
LEMMA AlwaysSwitches ==
    ASSUME TypeOK, HardwareInv, BorrowInv, NEW c \in Contexts, status[c] = "Live"
    PROVE  CanSwitch(c)
  BY DrawableDrawn DEF CanSwitch, Valid, Drawn, BorrowInv

\* A drawable stays valid if the context or the window it is of stays.
LEMMA StaysDrawn ==
    ASSUME TypeOK, NEW d \in Drawn,
           \A b \in Contexts : status[b] = "Live" /\ d = Pbuffer(b) => status'[b] = "Live",
           \A s \in widget : Alive(s) /\ d = Window(s) => s \in widget' /\ Alive(s)'
    PROVE  d \in Drawn'
  BY DEF Drawn, Pbuffer, Window

LEMMA DrawnWindow ==
    ASSUME TypeOK, HardwareInv, NEW s \in Surfaces, Window(s) \in Drawn
    PROVE  Alive(s) /\ s \in widget /\ creator[s] \in Contexts /\ status[creator[s]] # "Absent"
<1>1. PICK t \in widget : Alive(t) /\ Window(s) = Window(t)
  BY DEF Drawn, Window, Pbuffer
<1>2. t = s
  BY <1>1 DEF Window
<1>3. QED
  BY <1>1, <1>2 DEF HardwareInv, SurfaceInv, Alive

LEMMA BorrowKept ==
    ASSUME TypeOK, HardwareInv, BorrowInv, Steady, WrappedKept, UNCHANGED status,
           \A s \in widget : Alive(s) => Alive(s)'
    PROVE  BorrowInv'
<1> SUFFICES ASSUME NEW c \in Contexts, status'[c] = "Live"
             PROVE  /\ status'[egl'[c]] = "Live"
                    /\ framebuffer'[c] = External =>
                          /\ external'[c] \in Drawn'
                          /\ \A s \in Surfaces : external'[c] = Window(s)' => creator'[s] # c
  BY DEF BorrowInv
<1>1. status[c] = "Live" /\ egl'[c] = egl[c] /\ status'[egl[c]] = "Live"
  BY DEF Steady, BorrowInv
<1>2. ASSUME framebuffer'[c] = External
      PROVE  /\ external'[c] \in Drawn'
             /\ \A s \in Surfaces : external'[c] = Window(s)' => creator'[s] # c
  <2>1. framebuffer[c] = External /\ external'[c] = external[c] /\ external[c] \in Drawn
    BY <1>2 DEF WrappedKept, BorrowInv
  <2>2. external[c] \in Drawn'
    BY <2>1, StaysDrawn DEF Steady
  <2>3. ASSUME NEW s \in Surfaces, external[c] = Window(s)
        PROVE  creator'[s] # c
    <3>1. creator[s] # c /\ place[s] # "absent"
      BY <1>1, <2>1, <2>3, DrawnWindow DEF BorrowInv, Alive
    <3>2. QED
      BY <3>1 DEF Steady
  <2>4. QED
    BY <2>1, <2>2, <2>3 DEF Window
<1>3. QED
  BY <1>1, <1>2

LEMMA CreateContextBorrows ==
    ASSUME TypeOK, HardwareInv, BorrowInv, NEW c \in Contexts, CreateContext(c)
    PROVE  BorrowInv'
<1>1. UNCHANGED <<egl, framebuffer, external, place, widget, creator>>
      /\ status[c] = "Absent" /\ egl[c] = c /\ framebuffer[c] = NoSurface
  BY DEF CreateContext, HardwareInv, EglInv, surfaceVars
<1>2. CASE UNCHANGED status
  BY <1>1, <1>2 DEF BorrowInv, Drawn, Alive, Window, Pbuffer
<1>3. CASE status' = [status EXCEPT ![c] = "Live"]
  <2>1. status'[c] = "Live" /\ \A d \in Contexts : status[d] = "Live" => status'[d] = "Live"
    BY <1>3 DEF TypeOK
  <2>2. \A d \in Contexts : d # c => status'[d] = status[d]
    BY <1>3 DEF TypeOK
  <2>3. ASSUME NEW d \in Drawn
        PROVE  d \in Drawn'
    BY <1>1, <2>1, StaysDrawn DEF Alive
  <2>4. ASSUME NEW d \in Contexts, status'[d] = "Live"
        PROVE  /\ status'[egl'[d]] = "Live"
               /\ framebuffer'[d] = External =>
                     /\ external'[d] \in Drawn'
                     /\ \A s \in Surfaces : external'[d] = Window(s)' => creator'[s] # d
    <3>1. CASE d = c
      BY <1>1, <2>1, <3>1, DistinctAssumption
    <3>2. CASE d # c
      <4>1. egl[d] \in Contexts
        BY DEF TypeOK
      <4>2. QED
        BY <1>1, <2>1, <2>2, <2>3, <2>4, <3>2, <4>1 DEF BorrowInv, Window
    <3>3. QED
      BY <3>1, <3>2
  <2>5. QED
    BY <2>4 DEF BorrowInv
<1>4. QED
  BY <1>2, <1>3 DEF CreateContext

LEMMA WrapBorrows ==
    ASSUME TypeOK, HardwareInv, BorrowInv, NEW c \in Contexts, NEW b \in Contexts,
           CreateContextFromNative(c, b)
    PROVE  BorrowInv'
<1>0. UNCHANGED <<place, widget, creator>> /\ status[c] = "Absent" /\ status[b] = "Live"
  BY DEF CreateContextFromNative, surfaceVars, MayCall
<1>1. CASE UNCHANGED contextVars
  BY <1>0, <1>1 DEF contextVars, BorrowInv, Drawn, Alive, Window, Pbuffer
<1>2. CASE /\ status' = [status EXCEPT ![c] = "Live"]
           /\ egl' = [egl EXCEPT ![c] = egl[b]]
           /\ framebuffer' = [framebuffer EXCEPT ![c] = External]
           /\ external' = [external EXCEPT ![c] = DrawableOf(b)]
  <2>1. /\ status'[c] = "Live" /\ egl'[c] = egl[b] /\ external'[c] = DrawableOf(b)
        /\ \A d \in Contexts : status[d] = "Live" => status'[d] = "Live"
    BY <1>2 DEF TypeOK
  <2>2. \A d \in Contexts : d # c =>
           /\ status'[d] = status[d] /\ egl'[d] = egl[d]
           /\ framebuffer'[d] = framebuffer[d] /\ external'[d] = external[d]
    BY <1>2 DEF TypeOK
  <2>3. ASSUME NEW d \in Drawn
        PROVE  d \in Drawn'
    BY <1>0, <2>1, StaysDrawn DEF Alive
  <2>4. ASSUME NEW d \in Contexts, status'[d] = "Live"
        PROVE  /\ status'[egl'[d]] = "Live"
               /\ framebuffer'[d] = External =>
                     /\ external'[d] \in Drawn'
                     /\ \A s \in Surfaces : external'[d] = Window(s)' => creator'[s] # d
    <3>0. egl[d] \in Contexts /\ egl[b] \in Contexts
      BY DEF TypeOK
    <3>1. CASE d = c
      <4>1. status'[egl'[c]] = "Live"
        BY <1>0, <2>1, <3>0 DEF BorrowInv
      <4>2. DrawableOf(b) \in Drawn
        BY <1>0, DrawableDrawn
      <4>3. \A s \in Surfaces : DrawableOf(b) = Window(s) => creator[s] # c
        BY <1>0, <4>2, DrawnWindow
      <4>4. QED
        BY <1>0, <2>1, <2>3, <3>1, <4>1, <4>2, <4>3 DEF Window
    <3>2. CASE d # c
      BY <1>0, <2>1, <2>2, <2>3, <2>4, <3>0, <3>2 DEF BorrowInv, Window
    <3>3. QED
      BY <3>1, <3>2
  <2>5. QED
    BY <2>4 DEF BorrowInv
<1>3. QED
  BY <1>1, <1>2 DEF CreateContextFromNative

LEMMA DestroyContextBorrows ==
    ASSUME TypeOK, HardwareInv, BorrowInv, "outlived" \notin Misuse, NEW c \in Contexts,
           DestroyContext(c)
    PROVE  BorrowInv'
<1>1. /\ status' = [status EXCEPT ![c] = "Destroyed"]
      /\ framebuffer' = [framebuffer EXCEPT ![c] = NoSurface]
      /\ UNCHANGED <<egl, external, widget, creator>>
      /\ Borrowers(c, {Pbuffer(c), Window(framebuffer[c])}) = {}
  BY DEF DestroyContext
<1>2. \A d \in Contexts : d # c => status'[d] = status[d] /\ framebuffer'[d] = framebuffer[d]
  BY <1>1 DEF TypeOK
<1>3. status'[c] = "Destroyed"
  BY <1>1 DEF TypeOK
<1>4. \A s \in Surfaces : s # framebuffer[c] => place'[s] = place[s]
  BY DEF DestroyContext, TypeOK
<1> SUFFICES ASSUME NEW d \in Contexts, status'[d] = "Live"
             PROVE  /\ status'[egl'[d]] = "Live"
                    /\ framebuffer'[d] = External =>
                          /\ external'[d] \in Drawn'
                          /\ \A s \in Surfaces : external'[d] = Window(s)' => creator'[s] # d
  BY DEF BorrowInv
<1>5. d # c /\ status[d] = "Live" /\ egl[d] \in Contexts /\ status[egl[d]] = "Live"
  BY <1>2, <1>3 DEF BorrowInv, TypeOK
<1>6. CASE framebuffer[d] # External
  <2>1. egl[d] = d
    BY <1>5, <1>6 DEF HardwareInv, EglInv
  <2>2. QED
    BY <1>1, <1>2, <1>5, <1>6, <2>1
<1>7. CASE framebuffer[d] = External
  <2>1. egl[d] # c /\ external[d] \notin {Pbuffer(c), Window(framebuffer[c])}
    BY <1>1, <1>5, <1>7 DEF Borrowers
  <2>2. external[d] \in Drawn /\ \A s \in Surfaces : external[d] = Window(s) => creator[s] # d
    BY <1>5, <1>7 DEF BorrowInv
  <2>3. external[d] \in Drawn'
    <3>1. \A b \in Contexts : status[b] = "Live" /\ external[d] = Pbuffer(b) => status'[b] = "Live"
      BY <1>2, <2>1
    <3>2. \A s \in widget : Alive(s) /\ external[d] = Window(s) => s \in widget' /\ Alive(s)'
      BY <1>1, <1>4, <2>1 DEF Alive, TypeOK
    <3>3. QED
      BY <2>2, <3>1, <3>2, StaysDrawn
  <2>4. QED
    BY <1>1, <1>2, <1>5, <2>1, <2>2, <2>3 DEF Window
<1>8. QED
  BY <1>6, <1>7

LEMMA DestroySurfaceBorrows ==
    ASSUME TypeOK, HardwareInv, BorrowInv, "outlived" \notin Misuse,
           NEW c \in Contexts, NEW s \in Surfaces, DestroySurface(c, s)
    PROVE  BorrowInv'
<1>1. UNCHANGED <<status, egl, framebuffer, external, widget, creator>>
  BY DEF DestroySurface, contextVars
<1>2. CASE UNCHANGED place
  BY <1>1, <1>2 DEF BorrowInv, Drawn, Alive, Window, Pbuffer
<1>3. CASE /\ creator[s] = c /\ Borrowers(c, {Window(s)}) = {}
           /\ place' = [place EXCEPT ![s] = "destroyed"]
  <2>1. \A t \in Surfaces : t # s => place'[t] = place[t]
    BY <1>3 DEF TypeOK
  <2>2. ASSUME NEW d \in Contexts, status[d] = "Live", framebuffer[d] = External
        PROVE  external[d] \in Drawn'
    <3>1. external[d] \in Drawn /\ (external[d] = Window(s) => creator[s] # d)
      BY <2>2 DEF BorrowInv
    <3>2. external[d] # Window(s)
      BY <1>3, <2>2, <3>1 DEF Borrowers
    <3>3. QED
      BY <1>1, <2>1, <3>1, <3>2, StaysDrawn DEF Alive, TypeOK
  <2>3. QED
    BY <1>1, <2>2 DEF BorrowInv, Window
<1>4. QED
  BY <1>2, <1>3 DEF DestroySurface

LEMMA BorrowNext ==
    TypeOK /\ HardwareInv /\ BorrowInv /\ [Next]_vars /\ "outlived" \notin Misuse => BorrowInv'
<1> SUFFICES ASSUME TypeOK, HardwareInv, BorrowInv, [Next]_vars, "outlived" \notin Misuse
             PROVE  BorrowInv'
  OBVIOUS
<1> USE DEF contextVars, eglVars, surfaceVars, glVars
<1>1. ASSUME UNCHANGED contextVars, UNCHANGED surfaceVars
      PROVE  BorrowInv'
  BY <1>1 DEF BorrowInv, Drawn, Alive, Window, Pbuffer
<1>2. CASE UNCHANGED vars \/ MakeNoContextCurrent
  BY <1>1, <1>2 DEF vars, MakeNoContextCurrent
<1>3. ASSUME NEW c \in Contexts, OnContext(c)
      PROVE  BorrowInv'
  <2>1. CASE MakeContextCurrent(c) \/ PresentBoundSurface(c)
    BY <1>1, <2>1 DEF MakeContextCurrent, PresentBoundSurface
  <2>2. ASSUME UnbindSurface(c)
        PROVE  /\ Steady /\ WrappedKept /\ UNCHANGED status
               /\ \A s \in widget : Alive(s) => Alive(s)'
    <3>1. \A s \in Surfaces : Alive(s) => Alive(s)' /\ place'[s] # "absent"
      BY <2>2 DEF UnbindSurface, Alive, TypeOK
    <3>2. \A d \in Contexts : framebuffer'[d] = External => framebuffer[d] = External
      BY <2>2, DistinctAssumption DEF UnbindSurface, TypeOK
    <3>3. UNCHANGED <<status, egl, external, widget, creator>>
      BY <2>2 DEF UnbindSurface
    <3>4. \A s \in Surfaces : place[s] # "absent" => place'[s] # "absent"
      BY <2>2 DEF UnbindSurface, TypeOK
    <3>5. QED
      BY <3>1, <3>2, <3>3, <3>4 DEF Steady, WrappedKept, TypeOK
  <2>3. QED
    BY <1>3, <2>1, <2>2, BorrowKept, CreateContextBorrows, WrapBorrows, DestroyContextBorrows
       DEF OnContext
<1>4. ASSUME NEW c \in Contexts, NEW s \in Surfaces, OnSurface(c, s)
      PROVE  BorrowInv'
  <2>1. CASE PresentSurface(c, s)
    BY <1>1, <2>1 DEF PresentSurface
  <2>2. ASSUME AndroidCreates(c, s) \/ OhosCreates(c, s) \/ CreateWindowSurface(c, s)
                 \/ BindSurface(c, s) \/ CreateSurfaceTexture(c, s)
                 \/ DestroySurfaceTexture(c, s)
        PROVE  /\ Steady /\ WrappedKept /\ UNCHANGED status
               /\ \A t \in widget : Alive(t) => Alive(t)'
    <3>1. \A t \in Surfaces : Alive(t) => Alive(t)'
      BY <2>2 DEF AndroidCreates, OhosCreates, CreateGenericSurface, CreateWindowSurface,
         BindSurface, CreateSurfaceTexture, DestroySurfaceTexture, Alive, TypeOK
    <3>2. \A t \in Surfaces : place[t] # "absent" =>
             place'[t] # "absent" /\ creator'[t] = creator[t]
      BY <2>2 DEF AndroidCreates, OhosCreates, CreateGenericSurface, CreateWindowSurface,
         BindSurface, CreateSurfaceTexture, DestroySurfaceTexture, TypeOK
    <3>3. \A d \in Contexts : framebuffer'[d] = External => framebuffer[d] = External
      BY <2>2, DistinctAssumption DEF AndroidCreates, OhosCreates, CreateGenericSurface,
         CreateWindowSurface, BindSurface, CreateSurfaceTexture, DestroySurfaceTexture, TypeOK
    <3>4. UNCHANGED <<status, egl, external>> /\ widget \subseteq widget'
      BY <2>2 DEF AndroidCreates, OhosCreates, CreateGenericSurface, CreateWindowSurface,
         BindSurface, CreateSurfaceTexture, DestroySurfaceTexture
    <3>5. QED
      BY <3>1, <3>2, <3>3, <3>4 DEF Steady, WrappedKept, TypeOK
  <2>3. QED
    BY <1>4, <2>1, <2>2, BorrowKept, DestroySurfaceBorrows DEF OnSurface
<1>5. QED
  BY <1>2, <1>3, <1>4 DEF Next

-----------------------------------------------------------------------------
(* Hardware buffers: textures. *)

\* s has its own texture in its EGL context, as long as that lives.
OwnTexture(s) ==
    Alive(s) /\ s \notin widget /\ status[egl[creator[s]]] = "Live" =>
        object[egl[creator[s]]][name[s]] = Image(s)

\* It has the one it is read through.
ReadTexture(s) ==
    place[s] = "texture" /\ status[reader[s].egl] = "Live" =>
        object[reader[s].egl][reader[s].name] = LocalImage(s)

LEMMA TexturesAreOwned ==
    TypeOK => (TexturesLive <=> \A s \in Surfaces : OwnTexture(s) /\ ReadTexture(s))
  BY DEF TexturesLive, OwnTexture, ReadTexture, Alive

NoRevival == \A c \in Contexts : status[c] = "Destroyed" => status'[c] # "Live"

\* What a call leaves alone of a surface: its own texture, if it stays where it is.
OwnLeft(s) ==
    Alive(s)' /\ s \notin widget' =>
        /\ Alive(s) /\ s \notin widget /\ name'[s] = name[s]
        /\ status[egl[creator[s]]] = "Live" =>
              object'[egl[creator[s]]][name[s]] = object[egl[creator[s]]][name[s]]

\* And the one it is read through.
ReadLeft(s) ==
    place'[s] = "texture" =>
        /\ place[s] = "texture" /\ reader'[s] = reader[s]
        /\ status[reader[s].egl] = "Live" =>
              object'[reader[s].egl][reader[s].name] = object[reader[s].egl][reader[s].name]

LEMMA OwnStays ==
    ASSUME TypeOK, HardwareInv, Steady, NoRevival, NEW s \in Surfaces,
           OwnTexture(s), OwnLeft(s)
    PROVE  OwnTexture(s)'
<1> SUFFICES ASSUME Alive(s)', s \notin widget', status'[egl'[creator'[s]]] = "Live"
             PROVE  object'[egl'[creator'[s]]][name'[s]] = Image(s)
  BY DEF OwnTexture, Image
<1>1. Alive(s) /\ s \notin widget /\ name'[s] = name[s]
  BY DEF OwnLeft
<1>2. place[s] # "absent" /\ creator[s] \in Contexts /\ status[creator[s]] # "Absent"
  BY <1>1 DEF HardwareInv, SurfaceInv, Alive
<1>3. creator'[s] = creator[s] /\ egl'[creator[s]] = egl[creator[s]]
  BY <1>2 DEF Steady
<1>4. egl[creator[s]] \in Contexts /\ status[egl[creator[s]]] # "Absent"
  BY <1>2 DEF TypeOK, HardwareInv, EglInv
<1>5. status[egl[creator[s]]] = "Live"
  BY <1>3, <1>4 DEF TypeOK, NoRevival
<1>6. QED
  BY <1>1, <1>3, <1>5 DEF OwnLeft, OwnTexture

LEMMA ReadStays ==
    ASSUME TypeOK, HardwareInv, NoRevival, NEW s \in Surfaces, ReadTexture(s), ReadLeft(s)
    PROVE  ReadTexture(s)'
<1> SUFFICES ASSUME place'[s] = "texture", status'[reader'[s].egl] = "Live"
             PROVE  object'[reader'[s].egl][reader'[s].name] = LocalImage(s)
  BY DEF ReadTexture, LocalImage
<1>1. place[s] = "texture" /\ reader'[s] = reader[s]
  BY DEF ReadLeft
<1>2. reader[s].egl \in Contexts /\ status[reader[s].egl] # "Absent"
  BY <1>1 DEF HardwareInv, SurfaceInv
<1>3. status[reader[s].egl] = "Live"
  BY <1>1, <1>2 DEF TypeOK, NoRevival
<1>4. QED
  BY <1>1, <1>3 DEF ReadLeft, ReadTexture

OwnCellKept(t) ==
    Alive(t) /\ t \notin widget /\ status[egl[creator[t]]] = "Live" =>
        object'[egl[creator[t]]][name[t]] = object[egl[creator[t]]][name[t]]

ReadCellKept(t) ==
    place[t] = "texture" /\ status[reader[t].egl] = "Live" =>
        object'[reader[t].egl][reader[t].name] = object[reader[t].egl][reader[t].name]

\* The cells that surfaces need differ from the one that a call changes, if that has
\* something else in it, or belongs to a context that is gone.
LEMMA OtherCells ==
    ASSUME TypeOK, HardwareInv, TexturesLive, NEW g \in Contexts, NEW n \in Names,
           NEW v \in Objects \cup {NoObject},
           object' = [object EXCEPT ![g][n] = v],
           NEW t \in Surfaces
    PROVE  /\ (status[g] = "Live" => object[g][n] # Image(t)) => OwnCellKept(t)
           /\ (status[g] = "Live" => object[g][n] # LocalImage(t)) => ReadCellKept(t)
<1>0. \A h \in Contexts, m \in Names :
         object'[h][m] = IF h = g /\ m = n THEN v ELSE object[h][m]
  BY ObjectUpdate
<1>1. ASSUME Alive(t), t \notin widget, status[egl[creator[t]]] = "Live",
             status[g] = "Live" => object[g][n] # Image(t)
      PROVE  object'[egl[creator[t]]][name[t]] = object[egl[creator[t]]][name[t]]
  <2>1. egl[creator[t]] \in Contexts /\ name[t] \in Names
    BY <1>1 DEF HardwareInv, SurfaceInv, Alive, TypeOK
  <2>2. object[egl[creator[t]]][name[t]] = Image(t)
    BY <1>1 DEF TexturesLive
  <2>3. ~(egl[creator[t]] = g /\ name[t] = n)
    BY <1>1, <2>2
  <2>4. QED
    BY <1>0, <2>1, <2>3
<1>2. ASSUME place[t] = "texture", status[reader[t].egl] = "Live",
             status[g] = "Live" => object[g][n] # LocalImage(t)
      PROVE  object'[reader[t].egl][reader[t].name] = object[reader[t].egl][reader[t].name]
  <2>1. reader[t].egl \in Contexts /\ reader[t].name \in Names
    BY <1>2 DEF HardwareInv, SurfaceInv
  <2>2. object[reader[t].egl][reader[t].name] = LocalImage(t)
    BY <1>2 DEF TexturesLive, Alive
  <2>3. ~(reader[t].egl = g /\ reader[t].name = n)
    BY <1>2, <2>2
  <2>4. QED
    BY <1>0, <2>1, <2>3
<1>3. QED
  BY <1>1, <1>2 DEF OwnCellKept, ReadCellKept

LEMMA ImagesDiffer ==
    ASSUME NEW s \in Surfaces, NEW t \in Surfaces
    PROVE  /\ Image(s) = Image(t) => s = t
           /\ LocalImage(s) = LocalImage(t) => s = t
           /\ Image(s) # LocalImage(t)
           /\ NoObject \notin {Image(s), LocalImage(s)}
           /\ Image(s) \in Objects /\ LocalImage(s) \in Objects
  BY ObjectAssumption DEF Image, LocalImage, Objects

LEMMA TexturesKept ==
    ASSUME TypeOK, HardwareInv, TexturesLive, Steady, NoRevival, TypeOK',
           \A t \in Surfaces : (OwnLeft(t) \/ OwnTexture(t)') /\ (ReadLeft(t) \/ ReadTexture(t)')
    PROVE  TexturesLive'
<1>1. \A t \in Surfaces : OwnTexture(t) /\ ReadTexture(t)
  BY TexturesAreOwned
<1>2. \A t \in Surfaces : OwnTexture(t)' /\ ReadTexture(t)'
  BY <1>1, OwnStays, ReadStays
<1>3. QED
  BY <1>2 DEF TexturesLive, OwnTexture, ReadTexture, Alive

LEMMA NothingRevives ==
    ASSUME TypeOK, [Next]_vars
    PROVE  NoRevival
<1> USE DEF contextVars
<1>1. CASE UNCHANGED status
  BY <1>1 DEF NoRevival
<1>2. ASSUME NEW c \in Contexts,
             \/ status' = [status EXCEPT ![c] = "Destroyed"]
             \/ status[c] = "Absent" /\ status' = [status EXCEPT ![c] = "Live"]
      PROVE  NoRevival
  BY <1>2 DEF NoRevival, TypeOK
<1>3. CASE UNCHANGED vars \/ MakeNoContextCurrent
  BY <1>1, <1>3 DEF vars, MakeNoContextCurrent
<1>4. ASSUME NEW c \in Contexts, OnContext(c)
      PROVE  NoRevival
  BY <1>1, <1>2, <1>4 DEF OnContext, MakeContextCurrent, CreateContext,
     CreateContextFromNative, DestroyContext, UnbindSurface, PresentBoundSurface
<1>5. ASSUME NEW c \in Contexts, NEW s \in Surfaces, OnSurface(c, s)
      PROVE  NoRevival
  BY <1>1, <1>5 DEF OnSurface, AndroidCreates, OhosCreates, CreateGenericSurface,
     CreateWindowSurface, DestroySurface, BindSurface, PresentSurface, CreateSurfaceTexture,
     DestroySurfaceTexture
<1>6. QED
  BY <1>3, <1>4, <1>5 DEF Next

\* Texture and framebuffer object of a surface are deleted where they were made.
LEMMA DiscardLeaves ==
    ASSUME TypeOK, HardwareInv, TexturesLive, "elsewhere" \notin Misuse,
           NEW c \in Contexts, NEW s \in Surfaces, Discard(c, s), Alive(s), creator[s] = c,
           UNCHANGED <<widget, reader>>, ~Alive(s)',
           \A t \in Surfaces : t # s => place'[t] = place[t]
    PROVE  \A t \in Surfaces : OwnLeft(t) /\ ReadLeft(t)
<1> SUFFICES ASSUME NEW t \in Surfaces
             PROVE  OwnLeft(t) /\ ReadLeft(t)
  OBVIOUS
<1>1. CASE t = s
  BY <1>1 DEF OwnLeft, ReadLeft, Alive
<1>2. CASE t # s /\ s \in widget
  BY <1>2 DEF Discard, OwnLeft, ReadLeft, Alive
<1>3. CASE t # s /\ s \notin widget
  <2>1. current = egl[c] /\ egl[c] \in Contexts /\ current # NoContext /\ name[s] \in Names
    BY <1>3, DistinctAssumption DEF Discard, Here, HardwareInv, SurfaceInv, TypeOK
  <2>2. object' = [object EXCEPT ![egl[c]][name[s]] = NoObject]
    BY <1>3, <2>1 DEF Discard, DeleteTexture
  <2>3. status[egl[c]] = "Live" => object[egl[c]][name[s]] = Image(s)
    BY <1>3 DEF TexturesLive
  <2>4. name'[t] = name[t]
    BY <1>3 DEF Discard, TypeOK
  <2>5. status[egl[c]] = "Live" => object[egl[c]][name[s]] \notin {Image(t), LocalImage(t)}
    BY <1>3, <2>3, ImagesDiffer
  <2>6. OwnCellKept(t) /\ ReadCellKept(t)
    BY <2>1, <2>2, <2>5, OtherCells
  <2>7. QED
    BY <1>3, <2>4, <2>6 DEF OwnLeft, ReadLeft, OwnCellKept, ReadCellKept, Alive
<1>4. QED
  BY <1>1, <1>2, <1>3

LEMMA CreateGenericKeeps ==
    ASSUME TypeOK, HardwareInv, TexturesLive, NEW c \in Contexts, NEW s \in Surfaces,
           place[s] = "absent", UNCHANGED <<contextVars, widget, reader>>,
           NEW n \in FreeNames(egl[c]),
           object' = [object EXCEPT ![egl[c]][n] = Image(s)],
           name' = [name EXCEPT ![s] = n],
           place' = [place EXCEPT ![s] = "free"],
           creator' = [creator EXCEPT ![s] = c]
    PROVE  \A t \in Surfaces : (OwnLeft(t) \/ OwnTexture(t)') /\ ReadLeft(t)
<1>1. egl[c] \in Contexts /\ n \in Names /\ object[egl[c]][n] = NoObject
  BY DEF FreeNames, TypeOK
<1>2. OwnTexture(s)' /\ ReadLeft(s)
  <2>1. creator'[s] = c /\ name'[s] = n /\ place'[s] = "free"
    BY DEF TypeOK
  <2>2. object'[egl[c]][n] = Image(s)
    BY <1>1, ImagesDiffer, ObjectUpdate
  <2>3. QED
    BY <2>1, <2>2 DEF OwnTexture, ReadLeft, Image, contextVars
<1>3. ASSUME NEW t \in Surfaces, t # s
      PROVE  OwnLeft(t) /\ ReadLeft(t)
  <2>1. place'[t] = place[t] /\ name'[t] = name[t]
    BY <1>3 DEF TypeOK
  <2>2. object[egl[c]][n] \notin {Image(t), LocalImage(t)} /\ Image(s) \in Objects
    BY <1>1, ImagesDiffer
  <2>3. OwnCellKept(t) /\ ReadCellKept(t)
    BY <1>1, <2>2, OtherCells
  <2>4. QED
    BY <2>1, <2>3 DEF OwnLeft, ReadLeft, OwnCellKept, ReadCellKept, Alive
<1>4. QED
  BY <1>2, <1>3

LEMMA CreateTextureKeeps ==
    ASSUME TypeOK, HardwareInv, TexturesLive, NEW c \in Contexts, NEW s \in Surfaces,
           place[s] = "free", UNCHANGED <<contextVars, widget, creator, name>>,
           NEW n \in FreeNames(egl[c]),
           object' = [object EXCEPT ![egl[c]][n] = LocalImage(s)],
           reader' = [reader EXCEPT ![s] = [egl |-> egl[c], name |-> n]],
           place' = [place EXCEPT ![s] = "texture"]
    PROVE  \A t \in Surfaces : OwnLeft(t) /\ (ReadLeft(t) \/ ReadTexture(t)')
<1>1. egl[c] \in Contexts /\ n \in Names /\ object[egl[c]][n] = NoObject
  BY DEF FreeNames, TypeOK
<1>2. \A t \in Surfaces :
         object[egl[c]][n] \notin {Image(t), LocalImage(t)} /\ LocalImage(s) \in Objects
  BY <1>1, ImagesDiffer
<1>3. \A t \in Surfaces : Alive(t)' <=> Alive(t)
  BY DEF Alive, TypeOK
<1>4. \A t \in Surfaces : OwnCellKept(t) /\ ReadCellKept(t)
  BY <1>1, <1>2, OtherCells
<1>5. \A t \in Surfaces : OwnLeft(t)
  BY <1>3, <1>4 DEF OwnLeft, OwnCellKept
<1>6. ReadTexture(s)'
  <2>1. reader'[s] = [egl |-> egl[c], name |-> n]
    BY DEF TypeOK
  <2>2. object'[egl[c]][n] = LocalImage(s)
    BY <1>1, <1>2, ObjectUpdate
  <2>3. QED
    BY <2>1, <2>2 DEF ReadTexture, LocalImage
<1>7. ASSUME NEW t \in Surfaces, t # s
      PROVE  ReadLeft(t)
  <2>1. place'[t] = place[t] /\ reader'[t] = reader[t]
    BY <1>7 DEF TypeOK
  <2>2. QED
    BY <1>7, <1>4, <2>1 DEF ReadLeft, ReadCellKept
<1>8. QED
  BY <1>5, <1>6, <1>7

\* The texture is deleted in its own context, as making that current does not fail.
LEMMA DestroyTextureKeeps ==
    ASSUME TypeOK, HardwareInv, BorrowInv, TexturesLive, "elsewhere" \notin Misuse,
           "make_current" \notin Faults, NEW c \in Contexts, NEW s \in Surfaces,
           DestroySurfaceTexture(c, s)
    PROVE  \A t \in Surfaces : OwnLeft(t) /\ ReadLeft(t)
<1>1. /\ reader[s].egl = egl[c] /\ place[s] = "texture" /\ status[c] = "Live"
      /\ reader' = [reader EXCEPT ![s] = NoReader] /\ place' = [place EXCEPT ![s] = "free"]
      /\ UNCHANGED <<contextVars, widget, creator, name>>
  BY DEF DestroySurfaceTexture, MayCall
<1>2. ~MayFailSwitch(c)
  BY <1>1, AlwaysSwitches DEF MayFailSwitch
<1>3. object' = [object EXCEPT ![egl[c]][reader[s].name] = NoObject]
  BY <1>2 DEF DestroySurfaceTexture, DeletedWithGuard
<1>4. egl[c] \in Contexts /\ reader[s].name \in Names /\ status[egl[c]] = "Live"
  BY <1>1 DEF HardwareInv, SurfaceInv, BorrowInv, TypeOK
<1>5. object[egl[c]][reader[s].name] = LocalImage(s)
  BY <1>1, <1>4 DEF TexturesLive, Alive
<1>6. \A t \in Surfaces : Alive(t)' <=> Alive(t)
  BY <1>1 DEF Alive, TypeOK
<1>7. \A t \in Surfaces : OwnLeft(t)
  <2>1. \A t \in Surfaces : object[egl[c]][reader[s].name] # Image(t)
    BY <1>5, ImagesDiffer
  <2>2. \A t \in Surfaces : OwnCellKept(t)
    BY <1>3, <1>4, <2>1, OtherCells
  <2>3. QED
    BY <1>1, <1>6, <2>2 DEF OwnLeft, OwnCellKept
<1>8. ASSUME NEW t \in Surfaces, t # s
      PROVE  ReadLeft(t)
  <2>1. place'[t] = place[t] /\ reader'[t] = reader[t]
    BY <1>1, <1>8 DEF TypeOK
  <2>2. QED
    <3>1. object[egl[c]][reader[s].name] # LocalImage(t)
      BY <1>5, <1>8, ImagesDiffer
    <3>2. ReadCellKept(t)
      BY <1>3, <1>4, <3>1, OtherCells
    <3>3. QED
      BY <2>1, <3>2 DEF ReadLeft, ReadCellKept
<1>9. ReadLeft(s)
  BY <1>1 DEF ReadLeft, TypeOK
<1>10. QED
  BY <1>7, <1>8, <1>9

\* Calls that touch no texture.
LEMMA TexturesUntouched ==
    ASSUME UNCHANGED <<object, name, reader>>, NEW t \in Surfaces,
           \/ place'[t] = place[t] /\ (t \in widget' <=> t \in widget)
           \/ place'[t] \in {"free", "bound"} /\ (Alive(t) \/ t \in widget')
                /\ widget \subseteq widget'
           \/ place'[t] = "destroyed"
    PROVE  OwnLeft(t) /\ ReadLeft(t)
  BY DEF OwnLeft, ReadLeft, Alive

LEMMA TexturesContext ==
    ASSUME TypeOK, HardwareInv, TexturesLive, "elsewhere" \notin Misuse,
           NEW c \in Contexts, OnContext(c)
    PROVE  \A t \in Surfaces : OwnLeft(t) /\ ReadLeft(t)
<1> USE DEF contextVars, surfaceVars, glVars
<1>1. ASSUME UNCHANGED <<object, name, reader, place, widget>>
      PROVE  \A t \in Surfaces : OwnLeft(t) /\ ReadLeft(t)
  BY <1>1, TexturesUntouched
<1>2. CASE DestroyContext(c)
  <2>1. CASE framebuffer[c] \notin Surfaces
    BY <1>1, <1>2, <2>1 DEF DestroyContext
  <2>2. ASSUME NEW s \in Surfaces, framebuffer[c] = s
        PROVE  \A t \in Surfaces : OwnLeft(t) /\ ReadLeft(t)
    <3>1. Alive(s) /\ creator[s] = c
      BY <2>2 DEF HardwareInv, SurfaceInv, Alive
    <3>2. /\ place' = [place EXCEPT ![s] = "destroyed"] /\ UNCHANGED <<widget, reader>>
          /\ Discard(c, s)
      BY <1>2, <2>2 DEF DestroyContext
    <3>3. ~Alive(s)' /\ \A t \in Surfaces : t # s => place'[t] = place[t]
      BY <3>2 DEF Alive, TypeOK
    <3>4. QED
      BY <3>1, <3>2, <3>3, DiscardLeaves
  <2>3. QED
    BY <2>1, <2>2
<1>3. CASE UnbindSurface(c)
  <2>1. CASE UNCHANGED place
    BY <1>1, <1>3, <2>1 DEF UnbindSurface
  <2>2. ASSUME NEW s \in Surfaces, framebuffer[c] = s, place' = [place EXCEPT ![s] = "free"]
        PROVE  \A t \in Surfaces : OwnLeft(t) /\ ReadLeft(t)
    <3>1. Alive(s) /\ place'[s] = "free" /\ \A t \in Surfaces : t # s => place'[t] = place[t]
      BY <2>2 DEF HardwareInv, SurfaceInv, Alive, TypeOK
    <3>2. UNCHANGED <<object, name, reader, widget>>
      BY <1>3 DEF UnbindSurface
    <3>3. QED
      BY <3>1, <3>2, TexturesUntouched
  <2>3. QED
    BY <1>3, <2>1, <2>2 DEF UnbindSurface
<1>4. QED
  BY <1>1, <1>2, <1>3 DEF OnContext, MakeContextCurrent, CreateContext,
     CreateContextFromNative, PresentBoundSurface

LEMMA TexturesSurface ==
    ASSUME TypeOK, HardwareInv, BorrowInv, TexturesLive, "elsewhere" \notin Misuse,
           "make_current" \notin Faults,
           NEW c \in Contexts, NEW s \in Surfaces, OnSurface(c, s)
    PROVE  \A t \in Surfaces : (OwnLeft(t) \/ OwnTexture(t)') /\ (ReadLeft(t) \/ ReadTexture(t)')
<1> USE DEF contextVars, surfaceVars, glVars
<1>1. ASSUME UNCHANGED <<object, name, reader, place, widget>>
      PROVE  \A t \in Surfaces : OwnLeft(t) /\ ReadLeft(t)
  BY <1>1, TexturesUntouched
<1>2. ASSUME NEW r, CreateGenericSurface(c, s, r)
      PROVE  \A t \in Surfaces : (OwnLeft(t) \/ OwnTexture(t)') /\ ReadLeft(t)
  <2>1. CASE UNCHANGED <<object, name, place, creator>>
    BY <1>1, <1>2, <2>1 DEF CreateGenericSurface
  <2>2. CASE /\ \E n \in FreeNames(egl[c]) :
                   /\ object' = [object EXCEPT ![egl[c]][n] = Image(s)]
                   /\ name' = [name EXCEPT ![s] = n]
             /\ place' = [place EXCEPT ![s] = "free"]
             /\ creator' = [creator EXCEPT ![s] = c]
    BY <1>2, <2>2, CreateGenericKeeps DEF CreateGenericSurface
  <2>3. QED
    BY <1>2, <2>1, <2>2 DEF CreateGenericSurface
<1>3. CASE CreateWindowSurface(c, s)
  <2>1. CASE UNCHANGED surfaceVars
    BY <1>1, <1>3, <2>1 DEF CreateWindowSurface
  <2>2. CASE /\ place' = [place EXCEPT ![s] = "free"] /\ widget' = widget \cup {s}
             /\ creator' = [creator EXCEPT ![s] = c]
    <3>1. /\ place'[s] = "free" /\ s \in widget' /\ widget \subseteq widget'
          /\ \A t \in Surfaces : t # s => place'[t] = place[t] /\ (t \in widget' <=> t \in widget)
      BY <2>2 DEF TypeOK
    <3>2. UNCHANGED <<object, name, reader>>
      BY <1>3 DEF CreateWindowSurface
    <3>3. QED
      BY <3>1, <3>2, TexturesUntouched
  <2>3. QED
    BY <1>3, <2>1, <2>2 DEF CreateWindowSurface
<1>4. CASE DestroySurface(c, s)
  <2>1. CASE UNCHANGED <<object, name, place>>
    BY <1>1, <1>4, <2>1 DEF DestroySurface
  <2>2. CASE creator[s] = c /\ Discard(c, s) /\ place' = [place EXCEPT ![s] = "destroyed"]
    <3>1. /\ Alive(s) /\ ~Alive(s)' /\ UNCHANGED <<widget, reader>>
          /\ \A t \in Surfaces : t # s => place'[t] = place[t]
      BY <1>4, <2>2 DEF DestroySurface, Alive, TypeOK
    <3>2. QED
      BY <2>2, <3>1, DiscardLeaves
  <2>3. QED
    BY <1>4, <2>1, <2>2 DEF DestroySurface
<1>5. CASE BindSurface(c, s)
  <2>1. CASE UNCHANGED place
    BY <1>1, <1>5, <2>1 DEF BindSurface
  <2>2. CASE place' = [place EXCEPT ![s] = "bound"]
    <3>1. /\ Alive(s) /\ place'[s] = "bound"
          /\ \A t \in Surfaces : t # s => place'[t] = place[t]
      BY <1>5, <2>2 DEF BindSurface, Alive, TypeOK
    <3>2. UNCHANGED <<object, name, reader, widget>>
      BY <1>5 DEF BindSurface
    <3>3. QED
      BY <3>1, <3>2, TexturesUntouched
  <2>3. QED
    BY <1>5, <2>1, <2>2 DEF BindSurface
<1>6. CASE PresentSurface(c, s)
  BY <1>1, <1>6 DEF PresentSurface
<1>7. CASE CreateSurfaceTexture(c, s)
  <2>1. CASE UNCHANGED <<object, reader, place>>
    BY <1>1, <1>7, <2>1 DEF CreateSurfaceTexture
  <2>2. CASE /\ \E n \in FreeNames(egl[c]) :
                   /\ object' = [object EXCEPT ![egl[c]][n] = LocalImage(s)]
                   /\ reader' = [reader EXCEPT ![s] = [egl |-> egl[c], name |-> n]]
             /\ place' = [place EXCEPT ![s] = "texture"]
    BY <1>7, <2>2, CreateTextureKeeps DEF CreateSurfaceTexture
  <2>3. QED
    BY <1>7, <2>1, <2>2 DEF CreateSurfaceTexture
<1>8. CASE DestroySurfaceTexture(c, s)
  BY <1>8, DestroyTextureKeeps
<1>9. QED
  BY <1>2, <1>3, <1>4, <1>5, <1>6, <1>7, <1>8 DEF OnSurface, AndroidCreates, OhosCreates

LEMMA SteadyNext ==
    ASSUME TypeOK, HardwareInv, [Next]_vars
    PROVE  Steady
<1> USE DEF contextVars, surfaceVars, glVars
<1>1. ASSUME UNCHANGED <<status, egl, place, widget, creator>>
      PROVE  Steady
  BY <1>1 DEF Steady
<1>2. CASE UNCHANGED vars \/ MakeNoContextCurrent
  BY <1>1, <1>2 DEF vars, MakeNoContextCurrent
<1>3. ASSUME NEW c \in Contexts, OnContext(c)
      PROVE  Steady
  <2>1. \A d \in Contexts : status[d] # "Absent" => egl'[d] = egl[d] /\ status'[d] # "Absent"
    BY <1>3 DEF OnContext, MakeContextCurrent, CreateContext, CreateContextFromNative,
       DestroyContext, UnbindSurface, PresentBoundSurface, TypeOK
  <2>2. UNCHANGED <<widget, creator>>
    BY <1>3 DEF OnContext, MakeContextCurrent, CreateContext, CreateContextFromNative,
       DestroyContext, UnbindSurface, PresentBoundSurface
  <2>3. \A s \in Surfaces : place[s] # "absent" => place'[s] # "absent"
    BY <1>3 DEF OnContext, MakeContextCurrent, CreateContext, CreateContextFromNative,
       DestroyContext, UnbindSurface, PresentBoundSurface, TypeOK
  <2>4. QED
    BY <2>1, <2>2, <2>3 DEF Steady
<1>4. ASSUME NEW c \in Contexts, NEW s \in Surfaces, OnSurface(c, s)
      PROVE  Steady
  <2>1. UNCHANGED <<status, egl>> /\ widget \subseteq widget'
    BY <1>4 DEF OnSurface, AndroidCreates, OhosCreates, CreateGenericSurface,
       CreateWindowSurface, DestroySurface, BindSurface, PresentSurface,
       CreateSurfaceTexture, DestroySurfaceTexture
  <2>2. \A t \in Surfaces : place[t] # "absent" => place'[t] # "absent" /\ creator'[t] = creator[t]
    BY <1>4 DEF OnSurface, AndroidCreates, OhosCreates, CreateGenericSurface,
       CreateWindowSurface, DestroySurface, BindSurface, PresentSurface,
       CreateSurfaceTexture, DestroySurfaceTexture, TypeOK
  <2>3. QED
    BY <2>1, <2>2 DEF Steady
<1>5. QED
  BY <1>2, <1>3, <1>4 DEF Next

LEMMA TexturesNext ==
    ASSUME TypeOK, HardwareInv, BorrowInv, TexturesLive, [Next]_vars,
           "elsewhere" \notin Misuse, "make_current" \notin Faults
    PROVE  TexturesLive'
<1>1. TypeOK' /\ Steady /\ NoRevival
  BY TypeNext, SteadyNext, NothingRevives
<1>2. CASE UNCHANGED vars \/ MakeNoContextCurrent
  <2>1. UNCHANGED <<object, name, reader, place, widget>>
    BY <1>2 DEF vars, MakeNoContextCurrent, surfaceVars, glVars
  <2>2. QED
    BY <1>1, <2>1, TexturesUntouched, TexturesKept
<1>3. QED
  BY <1>1, <1>2, TexturesContext, TexturesSurface, TexturesKept DEF Next

-----------------------------------------------------------------------------
(* The theorems. *)

mcVars == <<vars, glutinOnly, backend>>

\* A step of a behaviour is one of its device, or leaves that alone.
LEMMA GlutinStep ==
    [MCNext]_mcVars /\ backend' = "glutin" => backend = "glutin" /\ [Glutin!Next]_(Glutin!vars)
  BY DEF MCNext, mcVars, vars, glutinOnly, contextVars, eglVars, surfaceVars,
     Glutin!vars, Glutin!eglVars, Glutin!surfaceVars

LEMMA HardwareStep ==
    [MCNext]_mcVars /\ backend' = "hardware" => backend = "hardware" /\ [Next]_vars
  BY DEF MCNext, mcVars

LEMMA GlutinInit == MCInit /\ backend = "glutin" => Glutin!Init
  BY DEF MCInit

LEMMA HardwareInit == MCInit /\ backend = "hardware" => Init
  BY DEF MCInit

LEMMA HardwareInvInit == Init => HardwareInv /\ BorrowInv /\ TexturesLive
  BY DistinctAssumption
     DEF Init, HardwareInv, EglInv, SurfaceInv, OwnInv, BorrowInv, TexturesLive, Alive

\* A glutin context that can still be used draws to no window but the one bound to it,
\* or to a context that shares its native context: whichever calls fail, for a context
\* that a failed call took from its cell can be used no more, and that is the only way
\* in which a window can be lost while it is current.
THEOREM WindowsAreBound == MCSpec => []DrawsToBoundWindow
<1> DEFINE Inv == backend = "glutin" => GlutinType /\ GlutinInv
<1>1. MCInit => Inv
  BY GlutinInit, GlutinTypeInit, DistinctAssumption
     DEF Glutin!Init, GlutinInv, GlutinBoundInv, Glutin!DrawsToBoundWindow
<1>2. Inv /\ [MCNext]_mcVars => Inv'
  BY GlutinStep, GlutinTypeNext, GlutinNext
<1>3. Inv => DrawsToBoundWindow
  BY DEF DrawsToBoundWindow, GlutinInv
<1>4. QED
  BY <1>1, <1>2, <1>3, PTL DEF MCSpec, mcVars

\* What EGL draws to on Android and OpenHarmony belongs to the context it has current,
\* whichever calls fail and whatever is destroyed in between, although binding a surface
\* switches nothing and the guard restores only what is still there.
THEOREM DrawablesAreOwn == MCSpec => []OwnDrawables
<1> DEFINE Inv == backend = "hardware" => TypeOK /\ HardwareInv
<1>1. MCInit => Inv
  BY HardwareInit, TypeInit, HardwareInvInit
<1>2. Inv /\ [MCNext]_mcVars => Inv'
  BY HardwareStep, TypeNext, HardwareNext
<1>3. Inv => OwnDrawables
  BY DistinctAssumption
     DEF OwnDrawables, DrawnBelongsToCurrent, HardwareInv, OwnInv, Belongs
<1>4. QED
  BY <1>1, <1>2, <1>3, PTL DEF MCSpec, mcVars

\* The texture of a surface and the one it is read through stay in the context they were
\* made in until they are destroyed, if generic surfaces are destroyed with their context
\* current, wrapped contexts do not outlive what they wrap, and eglMakeCurrent does not
\* fail: its result is ignored when a texture is destroyed.
THEOREM TexturesStayOwned ==
    ASSUME "elsewhere" \notin Misuse, "outlived" \notin Misuse, "make_current" \notin Faults
    PROVE  MCSpec => []OwnTextures
<1> DEFINE Inv == backend = "hardware" => TypeOK /\ HardwareInv /\ BorrowInv /\ TexturesLive
<1>1. MCInit => Inv
  BY HardwareInit, TypeInit, HardwareInvInit
<1>2. Inv /\ [MCNext]_mcVars => Inv'
  BY HardwareStep, TypeNext, HardwareNext, BorrowNext, TexturesNext
<1>3. Inv => OwnTextures
  BY DEF OwnTextures
<1>4. QED
  BY <1>1, <1>2, <1>3, PTL DEF MCSpec, mcVars

=============================================================================
