-------------------------- MODULE EglDeviceProofs --------------------------
(***************************************************************************)
(* What holds of EglDevice for all sets of contexts, surfaces and names,   *)
(* and of UnixDevice, which extends it, for all of them and all platforms. *)
(*                                                                         *)
(* Whatever fails and whoever calls, unflushed drawing is drawing of the   *)
(* current context to surfaces bound to it (UnflushedInv). If contexts can *)
(* be made current and the callers have one current where the methods      *)
(* rely on one (Careful), EGL's surface is that of the current context     *)
(* (ShowsInv), and framebuffer objects belong to surfaces one to one.      *)
(*                                                                         *)
(* A call of UnixDevice is a step of EglDevice, a refusal, or the creation *)
(* of a window with X11, so that the invariants hold there too; and what a *)
(* step makes current is of the platform of the device that was asked      *)
(* (DisplayInv), whatever fails and whoever calls.                         *)
(*                                                                         *)
(* A descriptor covers the attributes it was made for, whatever platform   *)
(* made it, and what a context is granted keeps that over the round trip   *)
(* through context_descriptor (DescriptorInv).                             *)
(***************************************************************************)
EXTENDS UnixDevice, MCEglDevice, TLAPS

Assumptions ==
    ContextAssumption /\ SurfaceAssumption /\ NamesAssumption

Careful == Misuse = {} /\ "make_current" \notin Faults

LEMMA AssumptionsHold == Assumptions
BY ContextAssumption, SurfaceAssumption, NamesAssumption DEF Assumptions

-----------------------------------------------------------------------------
(* Types. *)

EglSurfaces == Surfaces \cup {NoSurface, Pbuffer, External}

LEMMA EglSurfaceType ==
    ASSUME NEW f \in Surfaces \cup {NoSurface, External}
    PROVE  EglSurface(f) \in EglSurfaces
BY DEF EglSurface, EglSurfaces

\* The types of what EGL calls change.
EglTypes(live) ==
    /\ current' \in live \cup {NoContext}
    /\ drawSurface' \in EglSurfaces
    /\ unflushed' \subseteq Surfaces

LEMMA MakeCurrentType ==
    ASSUME TypeOK, NEW live, NEW c \in live \cup {NoContext}, NEW d \in EglSurfaces,
           MakeCurrent(c, d)
    PROVE  EglTypes(live)
BY DEF TypeOK, MakeCurrent, FlushedFor, EglTypes

LEMMA TemporarilyType ==
    ASSUME TypeOK, NEW c \in contexts, NEW d \in EglSurfaces, Temporarily(c, d)
    PROVE  EglTypes(contexts)
BY DEF TypeOK, Temporarily, FlushedFor, EglTypes, eglVars, EglSurfaces

LEMMA SameEglType ==
    ASSUME TypeOK, UNCHANGED <<eglVars, unflushed>>, NEW live, contexts \subseteq live
    PROVE  EglTypes(live)
BY DEF TypeOK, eglVars, EglTypes, EglSurfaces

LEMMA DestroyObjectsType ==
    ASSUME TypeOK, NEW s \in Surfaces, DestroyObjects(s)
    PROVE  /\ fboBound' \in [Contexts -> Names \cup {0}]
           /\ fbos' \in [Contexts -> [Names -> Surfaces \cup {NoSurface}]]
<1>1. CASE Generic(s) /\ current # NoContext
  <2>1. current \in Contexts /\ fbo[s] \in Names
    BY <1>1 DEF TypeOK
  <2>2. fbos[current] \in [Names -> Surfaces \cup {NoSurface}]
    BY <2>1 DEF TypeOK
  <2>3. /\ fboBound' = [fboBound EXCEPT ![current] = 0]
        /\ fbos' = [fbos EXCEPT ![current] = [@ EXCEPT ![fbo[s]] = NoSurface]]
    BY <1>1 DEF DestroyObjects, Generic
  <2> QED BY <2>1, <2>2, <2>3 DEF TypeOK
<1>2. CASE ~(Generic(s) /\ current # NoContext)
  BY <1>2 DEF TypeOK, DestroyObjects, glVars, Generic
<1> QED BY <1>1, <1>2

LEMMA PresentType ==
    ASSUME TypeOK, NEW c \in contexts, NEW s \in Surfaces, Present(c, s)
    PROVE  EglTypes(contexts) /\ result' \in {"ok", "err", "panic"}
<1>1. s \in EglSurfaces
  BY DEF EglSurfaces
<1>2. CASE s \in window /\ Temporarily(c, s) /\ result' \in {"ok", "err"}
  BY <1>1, <1>2, TemporarilyType
<1>3. CASE UNCHANGED <<eglVars, unflushed>> /\ result' = "err"
  BY <1>3, SameEglType
<1> QED BY <1>2, <1>3 DEF Present, MayFailMakeCurrent

LEMMA TypeInit == Init => TypeOK
BY AssumptionsHold DEF Init, TypeOK, Assumptions

LEMMA TypeOnContext ==
    ASSUME TypeOK, NEW c \in Contexts, OnContext(c)
    PROVE  TypeOK'
<1> USE AssumptionsHold DEF Assumptions, surfaceVars, glVars
<1>1. CASE CreateContext(c)
  <2>1. CASE "create" \in Faults /\ UNCHANGED <<eglVars, contexts, framebuffer,
                                      glVars, unflushed>> /\ result' = "err"
    BY <1>1, <2>1 DEF CreateContext, TypeOK, eglVars
  <2>2. CASE /\ contexts' = contexts \cup {c}
             /\ framebuffer' = [framebuffer EXCEPT ![c] = NoSurface]
             /\ fboBound' = [fboBound EXCEPT ![c] = 0]
             /\ fbos' = [fbos EXCEPT ![c] = [n \in Names |-> NoSurface]]
             /\ \/ MakeCurrent(c, Pbuffer) /\ result' = "ok"
                \/ MayFailMakeCurrent /\ result' = "panic"
    <3>1. EglTypes(contexts \cup {c})
      BY <2>2, MakeCurrentType, SameEglType DEF MayFailMakeCurrent, EglSurfaces
    <3> QED BY <1>1, <2>2, <3>1 DEF CreateContext, TypeOK, EglTypes, EglSurfaces
  <2> QED BY <1>1, <2>1, <2>2 DEF CreateContext, MayFailMakeCurrent
<1>2. CASE CreateContextFromNative(c)
  <2>1. EglTypes(contexts \cup {c})
    BY <1>2, MakeCurrentType, SameEglType DEF CreateContextFromNative, EglSurfaces
  <2> QED BY <1>2, <2>1 DEF CreateContextFromNative, TypeOK, EglTypes, EglSurfaces
<1>3. CASE MakeContextCurrent(c)
  <2>1. EglSurface(framebuffer[c]) \in EglSurfaces
    BY EglSurfaceType DEF TypeOK
  <2>2. EglTypes(contexts)
    BY <1>3, <2>1, MakeCurrentType, SameEglType DEF MakeContextCurrent, MayFailMakeCurrent
  <2> QED BY <1>3, <2>2 DEF MakeContextCurrent, TypeOK, EglTypes, EglSurfaces
<1>4. CASE DestroyContext(c)
  <2>1. EglTypes(contexts \ {c})
    BY <1>4, MakeCurrentType DEF DestroyContext, Release, EglSurfaces
  <2>2. CASE framebuffer[c] \in Surfaces
    <3>1. DestroyObjects(framebuffer[c])
          /\ place' = [place EXCEPT ![framebuffer[c]] = "absent"]
      BY <1>4, <2>2 DEF DestroyContext
    <3> QED BY <1>4, <2>1, <2>2, <3>1, DestroyObjectsType
            DEF DestroyContext, TypeOK, EglTypes, EglSurfaces
  <2>3. CASE framebuffer[c] \notin Surfaces
    BY <1>4, <2>1, <2>3 DEF DestroyContext, TypeOK, EglTypes, EglSurfaces
  <2> QED BY <2>2, <2>3
<1>5. CASE UnbindSurface(c)
  <2>1. unflushed' \subseteq Surfaces /\ drawSurface' \in EglSurfaces
        /\ result' \in {"ok", "err", "panic"}
    BY <1>5 DEF UnbindSurface, Flushed, TypeOK, EglSurfaces
  <2>2. /\ framebuffer' \in [Contexts -> Surfaces \cup {NoSurface, External}]
        /\ place' \in [Surfaces -> {"absent", "free", "bound", "texture"}]
    BY <1>5 DEF UnbindSurface, TypeOK
  <2>3. fboBound' \in [Contexts -> Names \cup {0}]
    <3>1. CASE UNCHANGED fboBound
      BY <3>1 DEF TypeOK
    <3>2. CASE \E s \in Surfaces : fboBound' = [fboBound EXCEPT ![c] =
                   IF current = c /\ Generic(s) /\ @ = fbo[s] THEN 0 ELSE @]
      BY <3>2 DEF TypeOK
    <3> QED BY <1>5, <3>1, <3>2 DEF UnbindSurface
  <2> QED BY <1>5, <2>1, <2>2, <2>3 DEF UnbindSurface, TypeOK, EglSurfaces
<1>6. CASE Draw(c)
  <2>1. PICK s \in Surfaces :
           /\ fboBound' = [fboBound EXCEPT ![c] = IF Generic(s) THEN fbo[s] ELSE 0]
           /\ unflushed' = unflushed \cup {s}
    BY <1>6 DEF Draw
  <2>2. (IF Generic(s) THEN fbo[s] ELSE 0) \in Names \cup {0}
    BY DEF TypeOK
  <2> QED BY <1>6, <2>1, <2>2 DEF Draw, TypeOK, eglVars
<1>7. CASE PresentBoundSurface(c)
  <2>1. EglTypes(contexts) /\ result' \in {"ok", "err", "panic"}
    BY <1>7, PresentType, SameEglType DEF PresentBoundSurface
  <2> QED BY <1>7, <2>1 DEF PresentBoundSurface, TypeOK, EglTypes, EglSurfaces
<1> QED BY <1>1, <1>2, <1>3, <1>4, <1>5, <1>6, <1>7 DEF OnContext

LEMMA TypeOnSurface ==
    ASSUME TypeOK, NEW c \in Contexts, NEW s \in Surfaces, OnSurface(c, s)
    PROVE  TypeOK'
<1> USE AssumptionsHold DEF Assumptions, surfaceVars, glVars
<1>0. EglSurface(framebuffer[c]) \in EglSurfaces /\ EglSurface(s) \in EglSurfaces
  BY EglSurfaceType DEF TypeOK
<1>1. CASE CreateGenericSurface(c, s)
  <2>1. EglTypes(contexts)
    BY <1>0, <1>1, TemporarilyType, SameEglType DEF CreateGenericSurface, MayFailMakeCurrent
  <2>2. CASE UNCHANGED <<glVars, fbo, place, window, contextOf>> /\ result' = "err"
    BY <1>1, <2>1, <2>2 DEF CreateGenericSurface, TypeOK, EglTypes, EglSurfaces
  <2>3. ASSUME NEW n \in Names,
               /\ fbos' = [fbos EXCEPT ![c] = [@ EXCEPT ![n] = s]]
               /\ fboBound' = [fboBound EXCEPT ![c] = n]
               /\ fbo' = [fbo EXCEPT ![s] = n]
               /\ place' = [place EXCEPT ![s] = "free"]
               /\ window' = window \ {s}
               /\ contextOf' = [contextOf EXCEPT ![s] = c]
               /\ result' = "ok"
        PROVE  TypeOK'
    <3>1. fbos' \in [Contexts -> [Names -> Surfaces \cup {NoSurface}]]
      BY <2>3 DEF TypeOK
    <3> QED BY <1>1, <2>1, <2>3, <3>1 DEF CreateGenericSurface, TypeOK, EglTypes, EglSurfaces
  <2> QED BY <1>1, <2>2, <2>3 DEF CreateGenericSurface
<1>2. CASE CreateWindowSurface(c, s)
  BY <1>2 DEF CreateWindowSurface, TypeOK, eglVars
<1>3. CASE BindSurface(c, s)
  <2>1. EglTypes(contexts)
    BY <1>0, <1>3, MakeCurrentType, SameEglType DEF BindSurface, Rebind, MayFailMakeCurrent
  <2>2. /\ framebuffer' \in [Contexts -> Surfaces \cup {NoSurface, External}]
        /\ place' \in [Surfaces -> {"absent", "free", "bound", "texture"}]
        /\ result' \in {"ok", "err", "panic"}
    <3>1. CASE /\ framebuffer' = [framebuffer EXCEPT ![c] = s]
               /\ place' = [place EXCEPT ![s] = "bound"]
               /\ result' = "ok"
      BY <3>1 DEF TypeOK
    <3>2. CASE UNCHANGED <<framebuffer, place>> /\ result' = "err"
      BY <3>2 DEF TypeOK
    <3> QED BY <1>3, <3>1, <3>2 DEF BindSurface
  <2> QED BY <1>3, <2>1, <2>2 DEF BindSurface, TypeOK, EglTypes, EglSurfaces
<1>4. CASE PresentSurface(c, s)
  <2>1. EglTypes(contexts) /\ result' \in {"ok", "err", "panic"}
    BY <1>4, PresentType DEF PresentSurface
  <2> QED BY <1>4, <2>1 DEF PresentSurface, TypeOK, EglTypes, EglSurfaces
<1>5. CASE CreateSurfaceTexture(c, s)
  <2>1. EglTypes(contexts)
    BY <1>0, <1>5, TemporarilyType, SameEglType DEF CreateSurfaceTexture, MayFailMakeCurrent
  <2> QED BY <1>5, <2>1 DEF CreateSurfaceTexture, TypeOK, EglTypes, EglSurfaces
<1>6. CASE DestroySurfaceTexture(c, s)
  <2>1. EglTypes(contexts)
    BY <1>0, <1>6, TemporarilyType, SameEglType DEF DestroySurfaceTexture, MayFailMakeCurrent
  <2> QED BY <1>6, <2>1 DEF DestroySurfaceTexture, TypeOK, EglTypes, EglSurfaces
<1>7. CASE DestroySurface(c, s)
  BY <1>7, DestroyObjectsType DEF DestroySurface, TypeOK, eglVars
<1> QED BY <1>1, <1>2, <1>3, <1>4, <1>5, <1>6, <1>7 DEF OnSurface

LEMMA TypeNoContext ==
    ASSUME TypeOK, MakeNoContextCurrent
    PROVE  TypeOK'
BY DEF TypeOK, MakeNoContextCurrent, MakeCurrent, FlushedFor, glVars, surfaceVars

LEMMA TypeStutter ==
    ASSUME TypeOK, UNCHANGED vars
    PROVE  TypeOK'
BY DEF TypeOK, vars, eglVars, glVars, surfaceVars

\* Every variable keeps its type: in particular the current context is never one
\* that has been destroyed, and no surface gets the name 0 of the default framebuffer.
THEOREM TypeCorrect == Spec => []TypeOK
<1>1. TypeOK /\ [Next]_vars => TypeOK'
  BY TypeOnContext, TypeOnSurface, TypeNoContext, TypeStutter DEF Next
<1> QED BY <1>1, TypeInit, PTL DEF Spec
-----------------------------------------------------------------------------
(* Flushing. *)

\* A context's surface is bound and its own: so no surface is in two contexts.
BoundInv ==
    \A c \in Contexts, s \in Surfaces :
        framebuffer[c] = s => place[s] = "bound" /\ contextOf[s] = c

\* Unflushed drawing is the current context's.
UnflushedInv ==
    \A s \in unflushed : place[s] = "bound" /\ contextOf[s] = current

LEMMA BoundInit == Init => BoundInv /\ UnflushedInv
BY AssumptionsHold DEF Init, BoundInv, UnflushedInv, Assumptions

LEMMA BoundOnContext ==
    ASSUME TypeOK, BoundInv, UnflushedInv, NEW c \in Contexts, OnContext(c)
    PROVE  BoundInv' /\ UnflushedInv'
<1> USE AssumptionsHold DEF Assumptions, surfaceVars, glVars, eglVars, Commands, FlushedFor
<1>1. CASE CreateContext(c)
  BY <1>1 DEF CreateContext, MakeCurrent, MayFailMakeCurrent, TypeOK, BoundInv, UnflushedInv
<1>2. CASE CreateContextFromNative(c)
  BY <1>2 DEF CreateContextFromNative, MakeCurrent, TypeOK, BoundInv, UnflushedInv
<1>3. CASE MakeContextCurrent(c)
  BY <1>3 DEF MakeContextCurrent, MakeCurrent, MayFailMakeCurrent, TypeOK, BoundInv,
              UnflushedInv
<1>4. CASE DestroyContext(c)
  <2>1. unflushed' = {}
    BY <1>4 DEF DestroyContext, Release, MakeCurrent, TypeOK, UnflushedInv
  <2>2. CASE framebuffer[c] \in Surfaces
    <3>1. place' = [place EXCEPT ![framebuffer[c]] = "absent"]
      BY <1>4, <2>2 DEF DestroyContext
    <3> QED BY <1>4, <2>1, <2>2, <3>1 DEF DestroyContext, TypeOK, BoundInv, UnflushedInv
  <2>3. CASE framebuffer[c] \notin Surfaces
    BY <1>4, <2>1, <2>3 DEF DestroyContext, TypeOK, BoundInv, UnflushedInv
  <2> QED BY <2>2, <2>3
<1>5. CASE UnbindSurface(c)
  <2>1. unflushed' = {}
    BY <1>5 DEF UnbindSurface, Flushed, TypeOK, UnflushedInv
  <2>2. CASE \E s \in Surfaces :
                /\ framebuffer[c] = s
                /\ framebuffer' = [framebuffer EXCEPT ![c] = NoSurface]
                /\ place' = [place EXCEPT ![s] = "free"]
    BY <1>5, <2>1, <2>2 DEF UnbindSurface, TypeOK, BoundInv, UnflushedInv
  <2>3. CASE UNCHANGED <<framebuffer, place>>
    BY <1>5, <2>1, <2>3 DEF UnbindSurface, TypeOK, BoundInv, UnflushedInv
  <2> QED BY <1>5, <2>2, <2>3 DEF UnbindSurface
<1>6. CASE Draw(c)
  BY <1>6 DEF Draw, TypeOK, BoundInv, UnflushedInv
<1>7. CASE PresentBoundSurface(c)
  BY <1>7 DEF PresentBoundSurface, Present, Temporarily, MayFailMakeCurrent, TypeOK,
              BoundInv, UnflushedInv
<1> QED BY <1>1, <1>2, <1>3, <1>4, <1>5, <1>6, <1>7 DEF OnContext

LEMMA BoundOnSurface ==
    ASSUME TypeOK, BoundInv, UnflushedInv, NEW c \in Contexts, NEW s \in Surfaces,
           OnSurface(c, s)
    PROVE  BoundInv' /\ UnflushedInv'
<1> USE AssumptionsHold DEF Assumptions, surfaceVars, glVars, eglVars, Commands, FlushedFor
<1>1. CASE CreateGenericSurface(c, s)
  BY <1>1 DEF CreateGenericSurface, Temporarily, MayFailMakeCurrent, TypeOK, BoundInv,
              UnflushedInv
<1>2. CASE CreateWindowSurface(c, s)
  BY <1>2 DEF CreateWindowSurface, TypeOK, BoundInv, UnflushedInv
<1>3. CASE BindSurface(c, s)
  BY <1>3 DEF BindSurface, Rebind, MakeCurrent, MayFailMakeCurrent, TypeOK, BoundInv,
              UnflushedInv
<1>4. CASE PresentSurface(c, s)
  BY <1>4 DEF PresentSurface, Present, Temporarily, MayFailMakeCurrent, TypeOK, BoundInv,
              UnflushedInv
<1>5. CASE CreateSurfaceTexture(c, s)
  BY <1>5 DEF CreateSurfaceTexture, Temporarily, MayFailMakeCurrent, TypeOK, BoundInv,
              UnflushedInv
<1>6. CASE DestroySurfaceTexture(c, s)
  BY <1>6 DEF DestroySurfaceTexture, Temporarily, MayFailMakeCurrent, TypeOK, BoundInv,
              UnflushedInv
<1>7. CASE DestroySurface(c, s)
  BY <1>7 DEF DestroySurface, TypeOK, BoundInv, UnflushedInv
<1> QED BY <1>1, <1>2, <1>3, <1>4, <1>5, <1>6, <1>7 DEF OnSurface

LEMMA BoundNoContext ==
    ASSUME TypeOK, BoundInv, UnflushedInv, MakeNoContextCurrent
    PROVE  BoundInv' /\ UnflushedInv'
BY DEF TypeOK, MakeNoContextCurrent, MakeCurrent, Commands, FlushedFor, glVars, surfaceVars, BoundInv,
       UnflushedInv

LEMMA BoundSafe == Spec => [](TypeOK /\ BoundInv /\ UnflushedInv)
<1>1. BoundInv /\ UnflushedInv /\ UNCHANGED vars => (BoundInv /\ UnflushedInv)'
  BY DEF BoundInv, UnflushedInv, vars, eglVars, surfaceVars
<1>2. TypeOK /\ BoundInv /\ UnflushedInv /\ [Next]_vars => (BoundInv /\ UnflushedInv)'
  BY <1>1, BoundOnContext, BoundOnSurface, BoundNoContext DEF Next
<1> QED BY <1>2, BoundInit, TypeCorrect, PTL DEF Spec

\* Whatever calls fail and whichever context is current when a surface is unbound,
\* destroyed with its context or presented, no drawing to it is left unflushed.
THEOREM UnbindFlushes == Spec => []FlushedWhenUnbound
<1>1. UnflushedInv => FlushedWhenUnbound
  BY DEF UnflushedInv, FlushedWhenUnbound
<1> QED BY <1>1, BoundSafe, PTL
-----------------------------------------------------------------------------
(* Careful callers, and contexts that can be made current. *)

\* EGL's surface is the current context's, and there is none without a context.
ShowsInv ==
    /\ CurrentShowsFramebuffer
    /\ current = NoContext => drawSurface = NoSurface

LEMMA CarefulTemporarily ==
    ASSUME Careful, MayGuard, NEW c, NEW d, Temporarily(c, d)
    PROVE  UNCHANGED eglVars
BY DEF Careful, MayGuard, Temporarily, eglVars

LEMMA CarefulPresent ==
    ASSUME Careful, MayGuard, NEW c, NEW s, Present(c, s)
    PROVE  UNCHANGED eglVars
BY CarefulTemporarily DEF Careful, Present, MayFailMakeCurrent, eglVars

\* What EGL is told for a framebuffer stays the same while the surface is bound.
LEMMA SameEglSurface ==
    ASSUME NEW f, f \in window' <=> f \in window
    PROVE  EglSurface(f)' = EglSurface(f)
BY DEF EglSurface

LEMMA ShowsSame ==
    ASSUME TypeOK, ShowsInv, UNCHANGED eglVars,
           current # NoContext => /\ framebuffer'[current] = framebuffer[current]
                                  /\ framebuffer[current] \in window'
                                     <=> framebuffer[current] \in window
    PROVE  ShowsInv'
BY SameEglSurface DEF ShowsInv, CurrentShowsFramebuffer, eglVars

LEMMA ShowsOnContext ==
    ASSUME Careful, TypeOK, ShowsInv, NEW c \in Contexts, OnContext(c)
    PROVE  ShowsInv'
<1> USE AssumptionsHold DEF Assumptions, surfaceVars, Careful
<1>1. CASE CreateContext(c)
  <2>1. CASE framebuffer' = [framebuffer EXCEPT ![c] = NoSurface] /\ MakeCurrent(c, Pbuffer)
    BY <1>1, <2>1 DEF CreateContext, MakeCurrent, TypeOK, ShowsInv, CurrentShowsFramebuffer,
                      EglSurface
  <2>2. CASE UNCHANGED <<eglVars, framebuffer>>
    BY <1>1, <2>2, ShowsSame DEF CreateContext
  <2> QED BY <1>1, <2>1, <2>2 DEF CreateContext, MayFailMakeCurrent
<1>2. CASE CreateContextFromNative(c)
  <2>1. CASE MakeCurrent(c, External)
    BY <1>2, <2>1 DEF CreateContextFromNative, MakeCurrent, TypeOK, ShowsInv,
                      CurrentShowsFramebuffer, EglSurface
  <2>2. CASE UNCHANGED <<eglVars, unflushed>>
    BY <1>2, <2>2, ShowsSame DEF CreateContextFromNative, TypeOK
  <2> QED BY <1>2, <2>1, <2>2 DEF CreateContextFromNative
<1>3. CASE MakeContextCurrent(c)
  BY <1>3 DEF MakeContextCurrent, MakeCurrent, MayFailMakeCurrent, TypeOK, ShowsInv,
              CurrentShowsFramebuffer, EglSurface
<1>4. CASE DestroyContext(c)
  BY <1>4 DEF DestroyContext, Release, MakeCurrent, ShowsInv, CurrentShowsFramebuffer
<1>5. CASE UnbindSurface(c)
  <2>1. CASE framebuffer' = [framebuffer EXCEPT ![c] = NoSurface]
    <3>1. CASE current = c /\ drawSurface' = NoSurface
      BY <1>5, <2>1, <3>1 DEF UnbindSurface, TypeOK, ShowsInv, CurrentShowsFramebuffer
    <3>2. CASE current # c /\ UNCHANGED drawSurface
      BY <1>5, <2>1, <3>2, ShowsSame DEF UnbindSurface, TypeOK, eglVars
    <3>3. CASE framebuffer[c] \notin Surfaces /\ UNCHANGED <<framebuffer, drawSurface>>
      BY <1>5, <3>3, ShowsSame DEF UnbindSurface, eglVars
    <3> QED BY <1>5, <2>1, <3>1, <3>2, <3>3 DEF UnbindSurface
  <2>2. CASE UNCHANGED <<framebuffer, drawSurface>>
    BY <1>5, <2>2, ShowsSame DEF UnbindSurface, eglVars
  <2> QED BY <1>5, <2>1, <2>2 DEF UnbindSurface
<1>6. CASE Draw(c)
  BY <1>6, ShowsSame DEF Draw
<1>7. CASE PresentBoundSurface(c)
  <2>1. UNCHANGED eglVars
    BY <1>7, CarefulPresent DEF PresentBoundSurface
  <2> QED BY <1>7, <2>1, ShowsSame DEF PresentBoundSurface
<1> QED BY <1>1, <1>2, <1>3, <1>4, <1>5, <1>6, <1>7 DEF OnContext

LEMMA ShowsOnSurface ==
    ASSUME Careful, TypeOK, BoundInv, ShowsInv, NEW c \in Contexts, NEW s \in Surfaces,
           OnSurface(c, s)
    PROVE  ShowsInv'
<1> USE AssumptionsHold DEF Assumptions, surfaceVars, Careful
<1>1. CASE CreateGenericSurface(c, s)
  <2>1. UNCHANGED eglVars /\ (window' = window \ {s} \/ window' = window)
    BY <1>1, CarefulTemporarily DEF CreateGenericSurface, MayFailMakeCurrent
  <2>2. current # NoContext => framebuffer[current] # s
    BY <1>1 DEF CreateGenericSurface, BoundInv, TypeOK
  <2> QED BY <1>1, <2>1, <2>2, ShowsSame DEF CreateGenericSurface
<1>2. CASE CreateWindowSurface(c, s)
  <2>1. current # NoContext => framebuffer[current] # s
    BY <1>2 DEF CreateWindowSurface, BoundInv, TypeOK
  <2> QED BY <1>2, <2>1, ShowsSame DEF CreateWindowSurface
<1>3. CASE BindSurface(c, s)
  <2>1. CASE /\ framebuffer' = [framebuffer EXCEPT ![c] = s]
             /\ Rebind(c, s)
    <3>1. CASE current = c /\ MakeCurrent(c, EglSurface(s))
      BY <1>3, <2>1, <3>1 DEF BindSurface, MakeCurrent, TypeOK, ShowsInv,
                              CurrentShowsFramebuffer, EglSurface
    <3>2. CASE current # c /\ UNCHANGED eglVars
      BY <1>3, <2>1, <3>2, ShowsSame DEF BindSurface, TypeOK
    <3> QED BY <2>1, <3>1, <3>2 DEF Rebind, MayFailMakeCurrent
  <2>2. CASE UNCHANGED <<eglVars, framebuffer>>
    BY <1>3, <2>2, ShowsSame DEF BindSurface
  <2> QED BY <1>3, <2>1, <2>2 DEF BindSurface
<1>4. CASE PresentSurface(c, s)
  <2>1. UNCHANGED eglVars
    BY <1>4, CarefulPresent DEF PresentSurface
  <2> QED BY <1>4, <2>1, ShowsSame DEF PresentSurface
<1>5. CASE CreateSurfaceTexture(c, s)
  <2>1. UNCHANGED eglVars
    BY <1>5, CarefulTemporarily DEF CreateSurfaceTexture, MayFailMakeCurrent
  <2> QED BY <1>5, <2>1, ShowsSame DEF CreateSurfaceTexture
<1>6. CASE DestroySurfaceTexture(c, s)
  <2>1. UNCHANGED eglVars
    BY <1>6, CarefulTemporarily DEF DestroySurfaceTexture, MayFailMakeCurrent
  <2> QED BY <1>6, <2>1, ShowsSame DEF DestroySurfaceTexture
<1>7. CASE DestroySurface(c, s)
  BY <1>7, ShowsSame DEF DestroySurface
<1> QED BY <1>1, <1>2, <1>3, <1>4, <1>5, <1>6, <1>7 DEF OnSurface

LEMMA ShowsSafe == Careful => (Spec => [](TypeOK /\ BoundInv /\ ShowsInv))
<1> SUFFICES ASSUME Careful PROVE Spec => [](TypeOK /\ BoundInv /\ ShowsInv)
  OBVIOUS
<1>1. Init => ShowsInv
  BY AssumptionsHold DEF Init, ShowsInv, CurrentShowsFramebuffer
<1>2. TypeOK /\ ShowsInv /\ MakeNoContextCurrent => ShowsInv'
  BY DEF MakeNoContextCurrent, MakeCurrent, ShowsInv, CurrentShowsFramebuffer
<1>3. TypeOK /\ ShowsInv /\ UNCHANGED vars => ShowsInv'
  BY ShowsSame DEF vars, surfaceVars
<1>4. TypeOK /\ BoundInv /\ ShowsInv /\ [Next]_vars => ShowsInv'
  BY <1>2, <1>3, ShowsOnContext, ShowsOnSurface DEF Next
<1> QED BY <1>1, <1>4, BoundSafe, PTL DEF Spec

\* With careful callers and contexts that can be made current, the surface EGL draws
\* to is that of the current context, whatever was bound, unbound and destroyed.
THEOREM CurrentIsShown == Careful => (Spec => []CurrentShowsFramebuffer)
<1>1. ShowsInv => CurrentShowsFramebuffer
  BY DEF ShowsInv
<1> QED BY <1>1, ShowsSafe, PTL

\* Under the same assumptions no window surface is destroyed while EGL draws to it.
THEOREM WindowsSafe == Careful => (Spec => []WindowOutlivesUse)
<1>1. TypeOK /\ BoundInv /\ ShowsInv => WindowOutlivesUse
  <2> SUFFICES ASSUME TypeOK, BoundInv, ShowsInv, drawSurface \in Surfaces
               PROVE  Alive(drawSurface)
    BY DEF WindowOutlivesUse
  <2>1. current \in Contexts /\ drawSurface = EglSurface(framebuffer[current])
    BY AssumptionsHold DEF ShowsInv, CurrentShowsFramebuffer, TypeOK, Assumptions
  <2>2. drawSurface = framebuffer[current]
    BY <2>1, AssumptionsHold DEF EglSurface, TypeOK, Assumptions
  <2> QED BY <2>1, <2>2 DEF BoundInv, Alive
<1> QED BY <1>1, ShowsSafe, PTL

\* Under the same assumptions a method that takes a context only temporarily leaves
\* the context current that was.
THEOREM ContextComesBack == Careful => (Spec => CurrentComesBack)
<1> SUFFICES ASSUME Careful PROVE Spec => CurrentComesBack
  OBVIOUS
<1>1. ASSUME NEW c \in Contexts, NEW s \in Surfaces, OnSurface(c, s)
      PROVE  current' = current
  BY <1>1, CarefulTemporarily, CarefulPresent
     DEF OnSurface, CreateGenericSurface, CreateWindowSurface, BindSurface, Rebind,
         MakeCurrent, PresentSurface, CreateSurfaceTexture, DestroySurfaceTexture,
         DestroySurface, MayFailMakeCurrent, eglVars
<1>2. ASSUME NEW c \in Contexts, PresentBoundSurface(c)
      PROVE  current' = current
  BY <1>2, CarefulPresent DEF PresentBoundSurface, eglVars
<1>3. [Next]_vars => [\A c \in Contexts, s \in Surfaces :
          OnSurface(c, s) \/ PresentBoundSurface(c) => current' = current]_vars
  BY <1>1, <1>2
<1> QED BY <1>3, PTL DEF Spec, CurrentComesBack

-----------------------------------------------------------------------------
(* Framebuffer objects. *)

\* Moving a surface that exists from place to place leaves it its object.
LEMMA OwnMoved ==
    ASSUME TypeOK, OwnFramebuffers, UNCHANGED <<fbos, window, contextOf, fbo>>,
           contexts' \subseteq contexts,
           \A s \in Surfaces : Alive(s)' <=> Alive(s)
    PROVE  OwnFramebuffers'
BY DEF OwnFramebuffers, Generic

\* Destroying a surface while its own context is current deletes its own object.
LEMMA OwnDestroyed ==
    ASSUME TypeOK, OwnFramebuffers, NEW s \in Surfaces, Alive(s), DestroyObjects(s),
           Generic(s) => current = contextOf[s] /\ current \in contexts,
           place' = [place EXCEPT ![s] = "absent"],
           UNCHANGED <<window, contextOf, fbo>>, contexts' \subseteq contexts
    PROVE  OwnFramebuffers'
<1> USE AssumptionsHold DEF Assumptions
<1>1. CASE Generic(s)
  <2>1. current \in Contexts /\ current # NoContext /\ fbo[s] \in Names
    BY <1>1 DEF TypeOK
  <2>2. fbos' = [fbos EXCEPT ![current] = [@ EXCEPT ![fbo[s]] = NoSurface]]
    BY <1>1, <2>1 DEF DestroyObjects, Generic
  <2> QED BY <1>1, <2>1, <2>2 DEF OwnFramebuffers, TypeOK, Alive, Generic
<1>2. CASE ~Generic(s)
  BY <1>2 DEF OwnFramebuffers, TypeOK, Alive, Generic, DestroyObjects, glVars
<1> QED BY <1>1, <1>2

\* A context that is new has no objects, and there is no surface of it yet.
LEMMA OwnNewContext ==
    ASSUME TypeOK, OwnFramebuffers, NEW c \in Contexts, contexts' = contexts \cup {c},
           \A s \in Commands(c) : ~Alive(s),
           fbos' = [fbos EXCEPT ![c] = [n \in Names |-> NoSurface]], UNCHANGED surfaceVars
    PROVE  OwnFramebuffers'
BY AssumptionsHold
   DEF OwnFramebuffers, TypeOK, Alive, Generic, Commands, surfaceVars, Assumptions

LEMMA OwnOnContext ==
    ASSUME Careful, TypeOK, BoundInv, OwnFramebuffers, NEW c \in Contexts, OnContext(c)
    PROVE  OwnFramebuffers'
<1> USE AssumptionsHold DEF Assumptions, Careful, surfaceVars, glVars, Alive
<1>1. CASE CreateContext(c)
  BY <1>1, OwnNewContext, OwnMoved DEF CreateContext
<1>2. CASE CreateContextFromNative(c)
  BY <1>2, OwnNewContext DEF CreateContextFromNative
<1>3. CASE MakeContextCurrent(c)
  BY <1>3, OwnMoved DEF MakeContextCurrent
<1>4. CASE DestroyContext(c)
  <2>1. CASE framebuffer[c] \in Surfaces
    <3>1. /\ place' = [place EXCEPT ![framebuffer[c]] = "absent"]
          /\ DestroyObjects(framebuffer[c])
          /\ current = c /\ c \in contexts
      BY <1>4, <2>1 DEF DestroyContext
    <3>2. place[framebuffer[c]] = "bound" /\ contextOf[framebuffer[c]] = c
      BY <2>1 DEF BoundInv
    <3> QED BY <1>4, <2>1, <3>1, <3>2, OwnDestroyed DEF DestroyContext
  <2>2. CASE framebuffer[c] \notin Surfaces
    BY <1>4, <2>2, OwnMoved DEF DestroyContext
  <2> QED BY <2>1, <2>2
<1>5. CASE UnbindSurface(c)
  <2>1. \A s \in Surfaces : Alive(s)' <=> Alive(s)
    BY <1>5 DEF UnbindSurface, BoundInv, TypeOK
  <2> QED BY <1>5, <2>1, OwnMoved DEF UnbindSurface
<1>6. CASE Draw(c)
  BY <1>6, OwnMoved DEF Draw
<1>7. CASE PresentBoundSurface(c)
  BY <1>7, OwnMoved DEF PresentBoundSurface
<1> QED BY <1>1, <1>2, <1>3, <1>4, <1>5, <1>6, <1>7 DEF OnContext

LEMMA OwnOnSurface ==
    ASSUME Careful, TypeOK, OwnFramebuffers, NEW c \in Contexts, NEW s \in Surfaces,
           OnSurface(c, s)
    PROVE  OwnFramebuffers'
<1> USE AssumptionsHold DEF Assumptions, Careful, surfaceVars, glVars
<1>1. CASE CreateGenericSurface(c, s)
  <2>1. CASE UNCHANGED <<glVars, fbo, place, window, contextOf>>
    BY <1>1, <2>1, OwnMoved DEF CreateGenericSurface, Alive
  <2>2. ASSUME NEW n \in Names, fbos[c][n] = NoSurface,
               /\ fbos' = [fbos EXCEPT ![c] = [@ EXCEPT ![n] = s]]
               /\ fbo' = [fbo EXCEPT ![s] = n]
               /\ place' = [place EXCEPT ![s] = "free"]
               /\ window' = window \ {s}
               /\ contextOf' = [contextOf EXCEPT ![s] = c]
        PROVE  OwnFramebuffers'
    <3>1. place[s] = "absent" /\ c \in contexts /\ contexts' = contexts
      BY <1>1 DEF CreateGenericSurface
    <3>2. ~Alive(s)
      BY <3>1 DEF Alive
    <3>3. \A d \in contexts, m \in Names : fbos[d][m] # s
      BY <3>2 DEF OwnFramebuffers
    <3> QED BY <2>2, <3>1, <3>3 DEF OwnFramebuffers, TypeOK, Alive, Generic
  <2> QED BY <1>1, <2>1, <2>2 DEF CreateGenericSurface
<1>2. CASE CreateWindowSurface(c, s)
  <2>1. \A d \in contexts, m \in Names : fbos[d][m] # s
    BY <1>2 DEF CreateWindowSurface, OwnFramebuffers, Alive
  <2> QED BY <1>2, <2>1 DEF CreateWindowSurface, OwnFramebuffers, TypeOK, Alive, Generic
<1>3. CASE BindSurface(c, s)
  <2>1. \A t \in Surfaces : Alive(t)' <=> Alive(t)
    BY <1>3 DEF BindSurface, TypeOK, Alive
  <2> QED BY <1>3, <2>1, OwnMoved DEF BindSurface
<1>4. CASE PresentSurface(c, s)
  BY <1>4, OwnMoved DEF PresentSurface, Alive
<1>5. CASE CreateSurfaceTexture(c, s)
  <2>1. \A t \in Surfaces : Alive(t)' <=> Alive(t)
    BY <1>5 DEF CreateSurfaceTexture, TypeOK, Alive
  <2> QED BY <1>5, <2>1, OwnMoved DEF CreateSurfaceTexture
<1>6. CASE DestroySurfaceTexture(c, s)
  <2>1. \A t \in Surfaces : Alive(t)' <=> Alive(t)
    BY <1>6 DEF DestroySurfaceTexture, TypeOK, Alive
  <2> QED BY <1>6, <2>1, OwnMoved DEF DestroySurfaceTexture
<1>7. CASE DestroySurface(c, s)
  <2>1. CASE UNCHANGED <<glVars, place>>
    BY <1>7, <2>1, OwnMoved DEF DestroySurface, Alive
  <2>2. CASE /\ contextOf[s] = c
             /\ DestroyObjects(s)
             /\ place' = [place EXCEPT ![s] = "absent"]
    <3>1. Alive(s) /\ (Generic(s) => current = contextOf[s] /\ current \in contexts)
      BY <1>7, <2>2 DEF DestroySurface, Alive
    <3> QED BY <1>7, <2>2, <3>1, OwnDestroyed DEF DestroySurface
  <2> QED BY <1>7, <2>1, <2>2 DEF DestroySurface
<1> QED BY <1>1, <1>2, <1>3, <1>4, <1>5, <1>6, <1>7 DEF OnSurface

\* With callers that destroy surfaces while their context is current, the framebuffer
\* objects of a context are those of its generic surfaces, one to one.
THEOREM FramebuffersAreOwn == Careful => (Spec => []OwnFramebuffers)
<1> SUFFICES ASSUME Careful PROVE Spec => []OwnFramebuffers
  OBVIOUS
<1>1. Init => OwnFramebuffers
  BY DEF Init, OwnFramebuffers
<1>2. TypeOK /\ OwnFramebuffers /\ (MakeNoContextCurrent \/ UNCHANGED vars)
      => OwnFramebuffers'
  BY OwnMoved DEF MakeNoContextCurrent, vars, surfaceVars, glVars, Alive
<1>3. TypeOK /\ BoundInv /\ OwnFramebuffers /\ [Next]_vars => OwnFramebuffers'
  BY <1>2, OwnOnContext, OwnOnSurface DEF Next
<1> QED BY <1>1, <1>3, BoundSafe, PTL DEF Spec

-----------------------------------------------------------------------------
(* Devices of several platforms in one thread. *)


\* A surface that EGL draws to is not forgotten: while it exists, or its context does,
\* no other context takes the place of its context.
DisplayInv ==
    current # NoContext =>
       /\ display = platform[current]
       /\ drawSurface \in Surfaces =>
             /\ PlatformOf(drawSurface) = display
             /\ contextOf[drawSurface] \in contexts \/ Alive(drawSurface)

Inv == UnixTypeOK /\ BoundInv /\ UnflushedInv /\ DisplayInv

\* A call that leaves EGL, GL, contexts and surfaces as they are.
Nothing == Stays /\ result' \in {"ok", "err", "panic"}

-----------------------------------------------------------------------------
(* Calls of EglDevice. *)

LEMMA EglStep ==
    ASSUME TypeOK, BoundInv, UnflushedInv,
           Next \/ UNCHANGED vars \/ Nothing
    PROVE  TypeOK' /\ BoundInv' /\ UnflushedInv'
<1>1. CASE Next
  BY <1>1, TypeOnContext, TypeOnSurface, TypeNoContext, BoundOnContext, BoundOnSurface,
     BoundNoContext DEF Next
<1>2. CASE UNCHANGED vars
  BY <1>2, TypeStutter DEF BoundInv, UnflushedInv, vars, eglVars, surfaceVars
<1>3. CASE Nothing
  <2>1. TypeOK'
    BY <1>3 DEF Nothing, Stays, TypeOK, eglVars, glVars, surfaceVars
  <2> QED BY <1>3, <2>1 DEF Nothing, Stays, BoundInv, UnflushedInv, eglVars, surfaceVars
<1> QED BY <1>1, <1>2, <1>3

LEMMA X11Step ==
    ASSUME TypeOK, BoundInv, UnflushedInv, NEW c \in Contexts, NEW s \in Surfaces,
           X11CreateWindowSurface(c, s)
    PROVE  TypeOK' /\ BoundInv' /\ UnflushedInv'
<1>1. TypeOK'
  BY DEF X11CreateWindowSurface, TypeOK, eglVars, glVars
<1> QED BY <1>1 DEF X11CreateWindowSurface, TypeOK, BoundInv, UnflushedInv, eglVars

WillLive(s) == place'[s] \in {"free", "bound", "texture"}

\* What a call of device k for context c does to what EGL has current: nothing; no
\* context or no surface is current any more; or c is, on the display of k.
Moves(k, c) ==
    \/ UNCHANGED eglVars
    \/ current' = NoContext
    \/ current' = current /\ drawSurface' = NoSurface
    \/ /\ current' = c /\ platform'[c] = k
       /\ drawSurface' \in Surfaces =>
             /\ platform'[contextOf'[drawSurface']] = k
             /\ contextOf'[drawSurface'] \in contexts' \/ WillLive(drawSurface')

\* What it leaves alone: the context and the surface that EGL has current.
Leaves ==
    /\ current \in Contexts => platform'[current] = platform[current]
    /\ current' # NoContext /\ drawSurface \in Surfaces =>
          /\ contextOf'[drawSurface] = contextOf[drawSurface]
          /\ contextOf[drawSurface] \in contexts \/ Alive(drawSurface) =>
                /\ platform'[contextOf[drawSurface]] = platform[contextOf[drawSurface]]
                /\ contextOf[drawSurface] \in contexts' \/ WillLive(drawSurface)

LEMMA DisplayMoves ==
    ASSUME UnixTypeOK, DisplayInv, NEW k \in Platforms, NEW c \in Contexts,
           display' = (IF current' = current THEN Restored(k) ELSE k),
           Moves(k, c), Leaves
    PROVE  DisplayInv'
<1>1. SUFFICES ASSUME current' # NoContext
               PROVE  /\ display' = platform'[current']
                      /\ drawSurface' \in Surfaces =>
                            /\ platform'[contextOf'[drawSurface']] = display'
                            /\ contextOf'[drawSurface'] \in contexts' \/ WillLive(drawSurface')
  BY DEF DisplayInv, PlatformOf, Alive, WillLive
<1>2. display' = IF current' = current THEN display ELSE k
  BY DEF Restored
<1>3. NoSurface \notin Surfaces
  BY SurfaceAssumption
<1>4. CASE UNCHANGED eglVars
  BY <1>1, <1>2, <1>4 DEF DisplayInv, PlatformOf, Leaves, UnixTypeOK, TypeOK, eglVars, Alive
<1>5. CASE current' = current /\ drawSurface' = NoSurface
  BY <1>1, <1>2, <1>3, <1>5 DEF DisplayInv, Leaves, UnixTypeOK, TypeOK
<1>6. CASE /\ current' = c /\ platform'[c] = k
           /\ drawSurface' \in Surfaces =>
                 /\ platform'[contextOf'[drawSurface']] = k
                 /\ contextOf'[drawSurface'] \in contexts' \/ WillLive(drawSurface')
  <2>1. display' = k
    BY <1>1, <1>2, <1>6 DEF DisplayInv, Leaves
  <2> QED BY <1>6, <2>1
<1> QED BY <1>1, <1>4, <1>5, <1>6 DEF Moves

-----------------------------------------------------------------------------
(* The methods. *)

\* The surface of a context is its own.
LEMMA OwnSurface ==
    ASSUME TypeOK, BoundInv, NEW c \in contexts
    PROVE  /\ framebuffer[c] \in Surfaces => contextOf[framebuffer[c]] = c
           /\ EglSurface(framebuffer[c]) \in Surfaces =>
                 contextOf[EglSurface(framebuffer[c])] = c
<1>1. framebuffer[c] \in Surfaces => contextOf[framebuffer[c]] = c
  BY DEF TypeOK, BoundInv
<1>2. EglSurface(framebuffer[c]) \in Surfaces => EglSurface(framebuffer[c]) = framebuffer[c]
  BY SurfaceAssumption DEF EglSurface
<1> QED BY <1>1, <1>2

\* A method that makes c current with surface d under a guard, or not at all.
LEMMA GuardMoves ==
    ASSUME TypeOK, NEW k \in Platforms, NEW c \in contexts, platform[c] = k,
           platform' = platform, NEW d,
           Temporarily(c, d) \/ UNCHANGED eglVars,
           d \in Surfaces =>
              /\ platform[contextOf'[d]] = k
              /\ contextOf'[d] \in contexts' \/ WillLive(d)
    PROVE  Moves(k, c)
<1>1. UNCHANGED eglVars \/ (current' = c /\ drawSurface' = d)
  BY DEF Temporarily
<1> QED BY <1>1 DEF Moves

LEMMA ContextMoves ==
    ASSUME TypeOK, BoundInv, NEW k \in Platforms, NEW c \in Contexts, platform[c] = k,
           platform' = platform,
           \/ MakeContextCurrent(c) \/ DestroyContext(c) \/ UnbindSurface(c)
           \/ PresentBoundSurface(c)
    PROVE  Moves(k, c) /\ Leaves
<1>1. CASE MakeContextCurrent(c)
  <2>1. c \in contexts /\ contexts' = contexts /\ contextOf' = contextOf /\ place' = place
    BY <1>1 DEF MakeContextCurrent, surfaceVars
  <2>2. UNCHANGED eglVars \/ (current' = c /\ drawSurface' = EglSurface(framebuffer[c]))
    BY <1>1 DEF MakeContextCurrent, MakeCurrent, MayFailMakeCurrent
  <2>3. Moves(k, c)
    BY <2>1, <2>2, OwnSurface DEF Moves
  <2>4. Leaves
    BY <2>1 DEF Leaves, WillLive, Alive
  <2> QED BY <2>3, <2>4
<1>2. CASE DestroyContext(c)
  <2>1. current' = NoContext
    BY <1>2 DEF DestroyContext, Release, MakeCurrent
  <2> QED BY <2>1 DEF Moves, Leaves
<1>3. CASE UnbindSurface(c)
  <2>1. /\ current' = current /\ contexts' = contexts /\ contextOf' = contextOf
        /\ drawSurface' = drawSurface \/ drawSurface' = NoSurface
        /\ \A s \in Surfaces : Alive(s) => WillLive(s)
    BY <1>3 DEF UnbindSurface, TypeOK, Alive, WillLive
  <2> QED BY <2>1 DEF Moves, Leaves, eglVars
<1>4. CASE PresentBoundSurface(c)
  <2>1. /\ c \in contexts /\ contexts' = contexts /\ contextOf' = contextOf /\ place' = place
        /\ Temporarily(c, framebuffer[c]) \/ UNCHANGED eglVars
    BY <1>4 DEF PresentBoundSurface, Present, MayFailMakeCurrent, surfaceVars, eglVars
  <2>2. Moves(k, c)
    BY <2>1, OwnSurface, GuardMoves
  <2>3. Leaves
    BY <2>1 DEF Leaves, WillLive, Alive
  <2> QED BY <2>2, <2>3
<1> QED BY <1>1, <1>2, <1>3, <1>4

\* A new context takes the place of one that nothing is left of.
LEMMA NewContextMoves ==
    ASSUME UnixTypeOK, NEW k \in Platforms, NEW c \in Contexts,
           platform' = [platform EXCEPT ![c] = k],
           CreateContext(c) \/ CreateContextFromNative(c)
    PROVE  Moves(k, c) /\ Leaves
<1>1. /\ c \notin contexts /\ (\A s \in Commands(c) : ~Alive(s))
      /\ contexts \subseteq contexts' /\ contextOf' = contextOf /\ place' = place
      /\ \/ UNCHANGED eglVars
         \/ current' = c /\ drawSurface' \in {Pbuffer, External}
  BY DEF CreateContext, CreateContextFromNative, MakeCurrent, MayFailMakeCurrent,
         surfaceVars, eglVars
<1>2. platform'[c] = k /\ (\A d \in Contexts \ {c} : platform'[d] = platform[d])
  BY DEF UnixTypeOK
<1>3. Moves(k, c)
  BY <1>1, <1>2, SurfaceAssumption DEF Moves
<1>4. current \in Contexts => current # c
  BY <1>1, ContextAssumption DEF UnixTypeOK, TypeOK
<1>5. ASSUME drawSurface \in Surfaces, contextOf[drawSurface] \in contexts \/ Alive(drawSurface)
      PROVE  contextOf[drawSurface] \in Contexts \ {c}
  BY <1>1, <1>5 DEF UnixTypeOK, TypeOK, Commands
<1> QED BY <1>1, <1>2, <1>3, <1>4, <1>5 DEF Leaves, WillLive, Alive

LEMMA SurfaceMoves ==
    ASSUME UnixTypeOK, BoundInv, NEW k \in Platforms, NEW c \in Contexts, platform[c] = k,
           platform' = platform, NEW s \in Surfaces,
           \/ Reusable(s) /\ CreateGenericSurface(c, s)
           \/ Reusable(s) /\ CreateWindowSurface(c, s)
           \/ Reusable(s) /\ X11CreateWindowSurface(c, s)
           \/ BindSurface(c, s) \/ DestroySurface(c, s)
           \/ CreateSurfaceTexture(c, s) \/ DestroySurfaceTexture(c, s)
           \/ PlatformOf(s) = k /\ PresentSurface(c, s)
    PROVE  Moves(k, c) /\ Leaves
<1>0. TypeOK
  BY DEF UnixTypeOK
<1>1. CASE Reusable(s) /\ CreateGenericSurface(c, s)
  <2> DEFINE d == EglSurface(framebuffer[c])
  <2>1. /\ c \in contexts /\ contexts' = contexts /\ place[s] = "absent"
        /\ Temporarily(c, d) \/ UNCHANGED eglVars
        /\ \A r \in Surfaces \ {s} : contextOf'[r] = contextOf[r] /\ place'[r] = place[r]
    BY <1>0, <1>1 DEF CreateGenericSurface, MayFailMakeCurrent, TypeOK
  <2>2. d \in Surfaces => d # s /\ contextOf[d] = c
    BY <1>0, <2>1, OwnSurface, SurfaceAssumption DEF EglSurface, BoundInv
  <2>3. Moves(k, c)
    BY <1>0, <2>1, <2>2, GuardMoves
  <2>4. Leaves
    BY <1>1, <2>1 DEF Leaves, Reusable, WillLive, Alive
  <2> QED BY <2>3, <2>4
<1>2. CASE Reusable(s) /\ (CreateWindowSurface(c, s) \/ X11CreateWindowSurface(c, s))
  <2>1. /\ UNCHANGED eglVars /\ contexts' = contexts /\ drawSurface # s
        /\ \A r \in Surfaces \ {s} : contextOf'[r] = contextOf[r] /\ place'[r] = place[r]
    BY <1>0, <1>2 DEF CreateWindowSurface, X11CreateWindowSurface, Reusable, TypeOK
  <2> QED BY <2>1 DEF Moves, Leaves, WillLive, Alive
<1>3. CASE BindSurface(c, s)
  <2>1. /\ c \in contexts /\ contexts' = contexts /\ contextOf' = contextOf
        /\ \/ UNCHANGED eglVars
           \/ contextOf[s] = c /\ current' = c /\ drawSurface' = EglSurface(s)
        /\ \A r \in Surfaces : Alive(r) => WillLive(r)
    BY <1>0, <1>3 DEF BindSurface, Rebind, MakeCurrent, MayFailMakeCurrent, TypeOK,
                      Alive, WillLive, eglVars
  <2>2. EglSurface(s) \in Surfaces => EglSurface(s) = s
    BY SurfaceAssumption DEF EglSurface
  <2> QED BY <2>1, <2>2 DEF Moves, Leaves
<1>4. CASE DestroySurface(c, s)
  <2>1. /\ UNCHANGED eglVars /\ c \in contexts /\ contexts' = contexts
        /\ contextOf' = contextOf
        /\ \A r \in Surfaces \ {s} : place'[r] = place[r]
        /\ contextOf[s] = c \/ place' = place
    BY <1>0, <1>4 DEF DestroySurface, TypeOK
  <2> QED BY <2>1 DEF Moves, Leaves, WillLive, Alive
<1>5. CASE CreateSurfaceTexture(c, s) \/ DestroySurfaceTexture(c, s)
  <2>1. /\ c \in contexts /\ contexts' = contexts /\ contextOf' = contextOf
        /\ Temporarily(c, EglSurface(framebuffer[c])) \/ UNCHANGED eglVars
        /\ \A r \in Surfaces : Alive(r) => WillLive(r)
    BY <1>0, <1>5 DEF CreateSurfaceTexture, DestroySurfaceTexture, MayFailMakeCurrent, TypeOK,
                      Alive, WillLive
  <2>2. Moves(k, c)
    BY <1>0, <2>1, OwnSurface, GuardMoves
  <2> QED BY <2>1, <2>2 DEF Leaves
<1>6. CASE PlatformOf(s) = k /\ PresentSurface(c, s)
  <2>1. /\ c \in contexts /\ contexts' = contexts /\ contextOf' = contextOf /\ place' = place
        /\ place[s] = "free" /\ (Temporarily(c, s) \/ UNCHANGED eglVars)
    BY <1>6 DEF PresentSurface, Present, MayFailMakeCurrent, surfaceVars, eglVars
  <2>2. place'[s] = "free"
    BY <1>6 DEF PresentSurface, surfaceVars
  <2>3. Moves(k, c)
    BY <1>0, <1>6, <2>1, <2>2, GuardMoves DEF PlatformOf, WillLive
  <2>4. Leaves
    BY <2>1 DEF Leaves, WillLive, Alive
  <2> QED BY <2>3, <2>4
<1> QED BY <1>1, <1>2, <1>3, <1>4, <1>5, <1>6

-----------------------------------------------------------------------------
(* The invariant. *)

LEMMA Called ==
    ASSUME Inv, NEW k \in Platforms, NEW c \in Contexts,
           display' = (IF current' = current THEN Restored(k) ELSE k),
           platform' \in [Contexts -> Platforms],
           Moves(k, c), Leaves, TypeOK', BoundInv', UnflushedInv'
    PROVE  Inv'
<1>1. DisplayInv'
  BY DisplayMoves DEF Inv
<1>2. display' \in Platforms
  BY DEF Inv, UnixTypeOK, Restored
<1> QED BY <1>1, <1>2 DEF Inv, UnixTypeOK

LEMMA NothingInv ==
    ASSUME Inv, Nothing PROVE Inv'
<1>1. TypeOK' /\ BoundInv' /\ UnflushedInv'
  BY EglStep DEF Inv, UnixTypeOK
<1>2. /\ UNCHANGED <<eglVars, contexts, platform, display>>
      /\ contextOf' = contextOf /\ place' = place
  BY DEF Nothing, Stays, surfaceVars
<1>3. DisplayInv'
  BY <1>2 DEF Inv, DisplayInv, PlatformOf, Alive, eglVars
<1> QED BY <1>1, <1>2, <1>3 DEF Inv, UnixTypeOK

LEMMA RefusedInv ==
    ASSUME Inv, Refused \/ \E b \in BOOLEAN : Asked(b) PROVE Inv'
BY NothingInv DEF Refused, Asked, Nothing

LEMMA UnixContextInv ==
    ASSUME Inv, NEW k \in Platforms, NEW c \in Contexts, OnUnixContext(k, c) PROVE Inv'
<1>0. TypeOK /\ BoundInv /\ UnflushedInv /\ UnixTypeOK
  BY DEF Inv, UnixTypeOK
<1>1. ASSUME On(k, CreateContext(c)) \/ On(k, CreateContextFromNative(c)),
             platform' = [platform EXCEPT ![c] = k]
      PROVE  Inv'
  <2>1. /\ CreateContext(c) \/ CreateContextFromNative(c)
        /\ display' = IF current' = current THEN Restored(k) ELSE k
    BY <1>1 DEF On
  <2>2. TypeOK' /\ BoundInv' /\ UnflushedInv'
    BY <1>0, <2>1, TypeOnContext, BoundOnContext DEF OnContext
  <2>3. platform' \in [Contexts -> Platforms]
    BY <1>0, <1>1 DEF UnixTypeOK
  <2> QED BY <1>0, <1>1, <2>1, <2>2, <2>3, NewContextMoves, Called
<1>2. ASSUME platform[c] = k, UNCHANGED platform,
             \/ On(k, DestroyContext(c)) \/ On(k, MakeContextCurrent(c))
             \/ On(k, UnbindSurface(c)) \/ On(k, PresentBoundSurface(c))
      PROVE  Inv'
  <2>1. /\ \/ MakeContextCurrent(c) \/ DestroyContext(c) \/ UnbindSurface(c)
           \/ PresentBoundSurface(c)
        /\ display' = IF current' = current THEN Restored(k) ELSE k
    BY <1>2 DEF On
  <2>2. TypeOK' /\ BoundInv' /\ UnflushedInv'
    BY <1>0, <2>1, TypeOnContext, BoundOnContext DEF OnContext
  <2>3. platform' \in [Contexts -> Platforms]
    BY <1>0, <1>2 DEF UnixTypeOK
  <2> QED BY <1>0, <1>2, <2>1, <2>2, <2>3, ContextMoves, Called
<1>3. CASE UnixResizeBoundSurface(k, c) \/ ContextSurfaceInfo(k, c)
  BY <1>3, NothingInv DEF UnixResizeBoundSurface, ContextSurfaceInfo, Nothing
<1>4. CASE \/ UnixContextDescriptor(k, c) \/ NativeContext(k, c)
           \/ GetProcAddress(k, c) \/ ContextId(k, c)
  <2>1. (platform[c] = k) \in BOOLEAN
    OBVIOUS
  <2> QED BY <1>4, <2>1, RefusedInv DEF UnixContextDescriptor, NativeContext, GetProcAddress,
             ContextId
<1> QED BY <1>1, <1>2, <1>3, <1>4, RefusedInv
     DEF OnUnixContext, UnixCreateContext, UnixCreateContextFromNative, UnixDestroyContext,
         UnixMakeContextCurrent, UnixUnbindSurface, UnixPresentBoundSurface, Dispatch

LEMMA UnixSurfaceInv ==
    ASSUME Inv, NEW k \in Platforms, NEW c \in Contexts, NEW s \in Surfaces,
           OnUnixSurface(k, c, s)
    PROVE  Inv'
<1>0. TypeOK /\ BoundInv /\ UnflushedInv /\ UnixTypeOK
  BY DEF Inv, UnixTypeOK
<1>1. ASSUME platform[c] = k, UNCHANGED platform,
             \/ Reusable(s) /\ On(k, CreateGenericSurface(c, s))
             \/ Reusable(s) /\ On(k, CreateWidget(k, c, s))
             \/ On(k, BindSurface(c, s)) \/ On(k, DestroySurface(c, s))
             \/ On(k, CreateSurfaceTexture(c, s)) \/ On(k, DestroySurfaceTexture(c, s))
             \/ PlatformOf(s) = k /\ On(k, PresentSurface(c, s))
      PROVE  Inv'
  <2>1. display' = IF current' = current THEN Restored(k) ELSE k
    BY <1>1 DEF On
  <2>2. platform' \in [Contexts -> Platforms]
    BY <1>0, <1>1 DEF UnixTypeOK
  <2>3. CASE SurfacelessCreateWindowSurface(c, s)
    <3>1. display' = display
      BY <2>1, <2>3 DEF SurfacelessCreateWindowSurface, Restored, eglVars
    <3> QED BY <1>1, <2>3, <3>1, NothingInv DEF SurfacelessCreateWindowSurface, Nothing, Stays
  <2>4. CASE Reusable(s) /\ X11CreateWindowSurface(c, s)
    <3>1. TypeOK' /\ BoundInv' /\ UnflushedInv'
      BY <1>0, <2>4, X11Step
    <3> QED BY <1>0, <1>1, <2>1, <2>2, <2>4, <3>1, SurfaceMoves, Called
  <2>5. CASE \/ Reusable(s) /\ CreateGenericSurface(c, s)
             \/ Reusable(s) /\ CreateWindowSurface(c, s)
             \/ BindSurface(c, s) \/ DestroySurface(c, s)
             \/ CreateSurfaceTexture(c, s) \/ DestroySurfaceTexture(c, s)
             \/ PlatformOf(s) = k /\ PresentSurface(c, s)
    <3>1. TypeOK' /\ BoundInv' /\ UnflushedInv'
      BY <1>0, <2>5, TypeOnSurface, BoundOnSurface DEF OnSurface
    <3> QED BY <1>0, <1>1, <2>1, <2>2, <2>5, <3>1, SurfaceMoves, Called
  <2> QED BY <1>1, <2>3, <2>4, <2>5 DEF On, CreateWidget
<1>2. CASE UnixResizeSurface(k, c, s)
  BY <1>2, NothingInv DEF UnixResizeSurface, Nothing
<1>3. CASE SurfaceInfo(k, s) \/ SurfaceTextureObject(k, s)
  <2>1. (PlatformOf(s) = k) \in BOOLEAN
    OBVIOUS
  <2> QED BY <1>3, <2>1, RefusedInv DEF SurfaceInfo, SurfaceTextureObject
<1> QED BY <1>1, <1>2, <1>3, RefusedInv
     DEF OnUnixSurface, UnixCreateGenericSurface, UnixCreateWidgetSurface, UnixBindSurface,
         UnixCreateSurfaceTexture, UnixDestroySurfaceTexture, UnixDestroySurface,
         UnixPresentSurface, Dispatch, DispatchSurface, Same

LEMMA NoContextInv ==
    ASSUME Inv, NEW k \in Platforms, UnixMakeNoContextCurrent(k) PROVE Inv'
<1>1. /\ MakeNoContextCurrent /\ platform' = platform
      /\ display' = IF current' = current THEN Restored(k) ELSE k
  BY DEF UnixMakeNoContextCurrent, On
<1>2. current' = NoContext
  BY <1>1 DEF MakeNoContextCurrent, MakeCurrent
<1>3. TypeOK' /\ BoundInv' /\ UnflushedInv'
  BY <1>1, TypeNoContext, BoundNoContext DEF Inv, UnixTypeOK
<1> QED BY <1>1, <1>2, <1>3 DEF Inv, UnixTypeOK, DisplayInv, Restored

LEMMA DrawInv ==
    ASSUME Inv, NEW c \in Contexts, UnixDraw(c) PROVE Inv'
<1>1. Draw(c) /\ UNCHANGED <<platform, display>>
  BY DEF UnixDraw
<1>2. TypeOK' /\ BoundInv' /\ UnflushedInv'
  BY <1>1, TypeOnContext, BoundOnContext DEF Inv, UnixTypeOK, OnContext
<1>3. UNCHANGED <<eglVars, contexts>> /\ contextOf' = contextOf /\ place' = place
  BY <1>1 DEF Draw, surfaceVars
<1> QED BY <1>1, <1>2, <1>3 DEF Inv, UnixTypeOK, DisplayInv, PlatformOf, Alive, eglVars

LEMMA UnixInitInv ==
    ASSUME UnixInit PROVE Inv
<1>1. TypeOK /\ BoundInv /\ UnflushedInv
  BY TypeInit, BoundInit DEF UnixInit
<1>2. (CHOOSE k \in Platforms : TRUE) \in Platforms
  BY PlatformsAssumption
<1>3. UnixTypeOK
  BY <1>1, <1>2 DEF UnixInit, UnixTypeOK
<1> QED BY <1>1, <1>3 DEF UnixInit, Init, Inv, DisplayInv

LEMMA UnixAlways == UnixSpec => []Inv
<1>1. UnixInit => Inv
  BY UnixInitInv
<1>2. Inv /\ [UnixNext]_unixVars => Inv'
  <2>1. ASSUME Inv, UNCHANGED unixVars PROVE Inv'
    <3>1. TypeOK' /\ BoundInv' /\ UnflushedInv'
      BY <2>1, EglStep DEF unixVars, Inv, UnixTypeOK
    <3>2. UNCHANGED <<current, drawSurface, contexts, contextOf, place, platform, display>>
      BY <2>1 DEF unixVars, vars, eglVars, surfaceVars
    <3> QED BY <2>1, <3>1, <3>2 DEF Inv, UnixTypeOK, DisplayInv, PlatformOf, Alive
  <2> QED BY <2>1, UnixContextInv, UnixSurfaceInv, NoContextInv, DrawInv DEF UnixNext
<1> QED BY <1>1, <1>2, PTL DEF UnixSpec

-----------------------------------------------------------------------------
(* Theorems. *)

\* With devices of several platforms in the thread, everything stays of its type.
THEOREM UnixTypeCorrect == UnixSpec => []UnixTypeOK
<1>1. Inv => UnixTypeOK
  BY DEF Inv
<1> QED BY <1>1, UnixAlways, PTL

\* Whatever devices the thread has, whatever fails and whoever is current: EGL's
\* display, context and surface are always of one platform, so that the guard of one
\* platform's device restores the context of another on that context's own display.
THEOREM OneDisplayAtATime == UnixSpec => []OneDisplay
<1>1. Inv => OneDisplay
  BY DEF Inv, DisplayInv, OneDisplay
<1> QED BY <1>1, UnixAlways, PTL

\* The flush of unbind_surface is enough even if a context of another platform is current.
THEOREM UnixUnbindFlushes == UnixSpec => []FlushedWhenUnbound
<1>1. Inv => FlushedWhenUnbound
  BY DEF Inv, UnflushedInv, FlushedWhenUnbound
<1> QED BY <1>1, UnixAlways, PTL

-----------------------------------------------------------------------------
(* Descriptors: what was asked of them and what they give. *)

\* A descriptor d that covers the attributes a.  A descriptor of version 3.1 has no
\* compatibility flag: that version has no profiles, so that a driver need not look at it.
Covers(d, a) ==
    /\ d.version \in Nat
    /\ a.flags \cap Descriptors!Buffers \subseteq d.config
    /\ devicePlatform \in {"wayland", "x11", "wgl"} => "window" \in d.config
    /\ a.version <= Descriptors!AttributesOf(d).version
    /\ "compatibility" \in a.flags =>
          \/ devicePlatform = "wgl"
          \/ "compatibility" \in Descriptors!AttributesOf(d).flags
    /\ devicePlatform = "glutin" => a.flags \subseteq d.flags
    /\ devicePlatform \in Descriptors!FreeUnix /\ "compatibility" \in d.flags => d.version # 31

\* A context m whose descriptor, given back, covers what was asked of it.
Gives(m) ==
    /\ m.wanted \in Descriptors!Attributes /\ Covers(m.descriptor, m.wanted)
    /\ devicePlatform \notin {"cgl", "glutin"} =>
          m.version \in DriverVersions /\ m.wanted.version <= m.version
    /\ "compatibility" \in m.wanted.flags =>
          /\ devicePlatform \in Descriptors!FreeUnix => m.compatible
          /\ devicePlatform \notin Descriptors!Gles

DescriptorInv ==
    /\ devicePlatform \in DescriptorPlatforms
    /\ made = [c \in DescriptorContexts |-> made[c]]
    /\ has = [s \in DescriptorSurfaces |-> has[s]]
    /\ descriptor # None => wanted \in Descriptors!Attributes /\ Covers(descriptor, wanted)
    /\ \A c \in DescriptorContexts : made[c] # None => Gives(made[c])
    /\ \A s \in DescriptorSurfaces : has[s] # None =>
          has[s].wanted.flags \cap {"depth", "stencil"} \subseteq has[s].has
    /\ stopped => devicePlatform \in Descriptors!Gles

\* There are versions without a profile, and CGL knows few: 2.1, 3.2 and 4.1.
VersionsAreKept ==
    /\ 31 \notin DriverVersions
    /\ "cgl" \in DescriptorPlatforms =>
          \A v \in Versions : v <= 21 \/ v \in 30 .. 32 \/ v \in 40 .. 41

LEMMA PlatformCases ==
    ASSUME DescriptorInv
    PROVE  devicePlatform \in Descriptors!FreeUnix \cup Descriptors!Gles
                                 \cup {"wgl", "cgl", "glutin"}
BY DescriptorsAssumption
   DEF DescriptorInv, Descriptors!DescriptorsAssumption, Descriptors!Egl

LEMMA EglOnly ==
    /\ devicePlatform \in Descriptors!Egl => devicePlatform \notin {"wgl", "cgl", "glutin"}
    /\ devicePlatform \in Descriptors!FreeUnix =>
          devicePlatform \in Descriptors!Egl /\ devicePlatform \notin Descriptors!Gles
    /\ devicePlatform \in Descriptors!Gles => devicePlatform \in Descriptors!Egl
BY DEF Descriptors!Egl, Descriptors!FreeUnix, Descriptors!Gles

LEMMA AttributesType ==
    ASSUME NEW a \in Descriptors!Attributes
    PROVE  /\ a.version \in Nat /\ a.version \in Versions
           /\ a.flags \subseteq Descriptors!Buffers \cup {"compatibility"}
BY DescriptorsAssumption DEF Descriptors!DescriptorsAssumption, Descriptors!Attributes

\* create_context_descriptor gives a descriptor that covers what it was asked.
LEMMA DescribedCovers ==
    ASSUME VersionsAreKept, DescriptorInv, NEW a \in Descriptors!Attributes,
           NEW d \in Descriptors!Described(a)
    PROVE  Covers(d, a)
<1>1. /\ a.version \in Nat /\ a.version \in Versions
      /\ a.flags \subseteq Descriptors!Buffers \cup {"compatibility"}
  BY AttributesType
<1>2. CASE devicePlatform \in Descriptors!Egl
  <2>1. PICK f \in Descriptors!Offers(Descriptors!EglNeeds[devicePlatform], a) :
           /\ d = [config |-> f, version |-> a.version, flags |-> Descriptors!Kept(a)]
           /\ ~(Descriptors!Compatibility(a) /\ a.version > 30)
    BY <1>2, EglOnly DEF Descriptors!Described, Descriptors!EglDescribed
  <2>2. /\ a.flags \cap Descriptors!Buffers \subseteq f
        /\ Descriptors!EglNeeds[devicePlatform] \subseteq f
    BY <2>1 DEF Descriptors!Offers
  <2>3. devicePlatform \in {"wayland", "x11"} => "window" \in f
    BY <2>2 DEF Descriptors!EglNeeds, Descriptors!WaylandNeeds, Descriptors!X11Needs
  <2>4. devicePlatform \notin {"wgl", "cgl", "glutin"}
    BY <1>2 DEF Descriptors!Egl, Descriptors!FreeUnix, Descriptors!Gles
  <2>5. Descriptors!AttributesOf(d) =
           [version |-> a.version, flags |-> (f \cap Descriptors!Buffers)
                                                \cup Descriptors!Kept(a)]
    BY <2>1, <2>4, <1>2 DEF Descriptors!AttributesOf, Descriptors!EglAttributes
  <2>6. "compatibility" \in Descriptors!Kept(a) <=> "compatibility" \in a.flags
    BY DEF Descriptors!Kept
  <2>7. "compatibility" \in a.flags => a.version # 31
    BY <1>1, <2>1 DEF Descriptors!Compatibility
  <2> QED BY <1>1, <2>1, <2>2, <2>3, <2>4, <2>5, <2>6, <2>7 DEF Covers
<1>3. CASE devicePlatform = "wgl"
  <2>1. PICK f \in Descriptors!Offers({"window"}, a) :
           d = [config |-> f, version |-> a.version, flags |-> Descriptors!Kept(a)]
    BY <1>3 DEF Descriptors!Described, Descriptors!WglDescribed, Descriptors!Egl,
       Descriptors!FreeUnix, Descriptors!Gles
  <2>2. a.flags \cap Descriptors!Buffers \subseteq f /\ "window" \in f
    BY <2>1 DEF Descriptors!Offers
  <2>3. Descriptors!AttributesOf(d).version = a.version
    BY <1>3, <2>1 DEF Descriptors!AttributesOf, Descriptors!WglAttributes, Descriptors!Egl,
       Descriptors!FreeUnix, Descriptors!Gles
  <2> QED BY <1>1, <1>3, <2>1, <2>2, <2>3 DEF Covers, Descriptors!FreeUnix
<1>4. CASE devicePlatform = "cgl"
  <2>1. PICK f \in Descriptors!Offers({}, a) :
           /\ d = [config |-> f, version |-> Descriptors!CglProfile(a.version), flags |-> {}]
           /\ ~(Descriptors!Compatibility(a) /\ a.version >= 30)
    BY <1>4 DEF Descriptors!Described, Descriptors!CglDescribed, Descriptors!Egl,
       Descriptors!FreeUnix, Descriptors!Gles
  <2>2. a.flags \cap Descriptors!Buffers \subseteq f
    BY <2>1 DEF Descriptors!Offers
  <2>3. Descriptors!AttributesOf(d) = Descriptors!CglAttributes(d)
    BY <1>4 DEF Descriptors!AttributesOf, Descriptors!Egl,
       Descriptors!FreeUnix, Descriptors!Gles
  <2>4. a.version <= 21 \/ a.version \in 30 .. 32 \/ a.version \in 40 .. 41
    BY <1>1, <1>4 DEF VersionsAreKept, DescriptorInv
  <2>5. /\ d.version \in Nat /\ a.version <= Descriptors!CglAttributes(d).version
        /\ "compatibility" \in a.flags =>
              "compatibility" \in Descriptors!CglAttributes(d).flags
    BY <1>1, <2>1, <2>4
       DEF Descriptors!CglAttributes, Descriptors!CglProfile, Descriptors!Compatibility
  <2> QED BY <1>4, <2>1, <2>2, <2>3, <2>5 DEF Covers, Descriptors!FreeUnix
<1>5. CASE devicePlatform = "glutin"
  <2>1. PICK f \in Descriptors!Offers({"window"}, a) :
           d = [config |-> f, version |-> a.version, flags |-> a.flags]
    BY <1>5 DEF Descriptors!Described, Descriptors!GlutinDescribed, Descriptors!Egl,
       Descriptors!FreeUnix, Descriptors!Gles
  <2>2. a.flags \cap Descriptors!Buffers \subseteq f
    BY <2>1 DEF Descriptors!Offers
  <2>3. Descriptors!AttributesOf(d) = [version |-> a.version, flags |-> a.flags]
    BY <1>5, <2>1 DEF Descriptors!AttributesOf, Descriptors!GlutinAttributes, Descriptors!Egl,
       Descriptors!FreeUnix, Descriptors!Gles
  <2> QED BY <1>1, <1>5, <2>1, <2>2, <2>3 DEF Covers, Descriptors!FreeUnix
<1> QED BY <1>2, <1>3, <1>4, <1>5, PlatformCases DEF Descriptors!Egl

LEMMA VersionsUp ==
    ASSUME NEW x \in Nat, NEW y \in Nat, NEW v \in DriverVersions, x <= y, y <= v
    PROVE  x <= v
<1>1. v \in Nat
  BY DescriptorsAssumption DEF Descriptors!DescriptorsAssumption
<1> QED BY <1>1

\* What the driver grants on the platforms whose contexts may have profiles.
LEMMA GrantedProfile ==
    ASSUME NEW d, d.version \in Nat, NEW g \in Descriptors!Granted(d),
           devicePlatform \notin Descriptors!Gles, devicePlatform # "cgl"
    PROVE  /\ g.version \in DriverVersions /\ d.version <= g.version
           /\ d.version <= 30 => g.compatible
           /\ d.version >= 32 => (g.compatible <=> Descriptors!Compatibility(d))
BY DEF Descriptors!Granted, Descriptors!ProfileGrants, Descriptors!Reaching

LEMMA GrantedPlain ==
    ASSUME NEW d, NEW g \in Descriptors!Granted(d), devicePlatform \in Descriptors!Gles
    PROVE  d.flags = {} /\ g.version \in DriverVersions /\ d.version <= g.version
<1>1. PICK v \in Descriptors!Reaching(d) :
         d.flags = {} /\ g = [version |-> v, compatible |-> FALSE]
  BY DEF Descriptors!Granted, Descriptors!GlesGrants
<1> QED BY <1>1 DEF Descriptors!Reaching

\* create_context: what the driver grants gives what was asked.
LEMMA GrantedGives ==
    ASSUME DescriptorInv, NEW d, NEW a \in Descriptors!Attributes, Covers(d, a),
           NEW g \in Descriptors!Granted(d)
    PROVE  Gives([descriptor |-> d, wanted |-> a,
                  version |-> g.version, compatible |-> g.compatible])
<1> DEFINE m == [descriptor |-> d, wanted |-> a,
                 version |-> g.version, compatible |-> g.compatible]
<1>1. /\ a.version \in Nat /\ d.version \in Nat /\ DriverVersions \subseteq Nat
      /\ "compatibility" \notin Descriptors!Buffers
  BY AttributesType, DescriptorsAssumption
     DEF Descriptors!DescriptorsAssumption, Covers, Descriptors!Buffers
<1>2. CASE devicePlatform \in Descriptors!FreeUnix
  <2>1. /\ devicePlatform \in Descriptors!Egl \ Descriptors!Gles
        /\ devicePlatform \notin {"wgl", "cgl", "glutin"}
    BY <1>2 DEF Descriptors!Egl, Descriptors!FreeUnix, Descriptors!Gles
  <2>2. /\ g.version \in DriverVersions /\ d.version <= g.version
        /\ d.version <= 30 => g.compatible
        /\ d.version >= 32 => (g.compatible <=> Descriptors!Compatibility(d))
    BY <1>1, <2>1, GrantedProfile
  <2>3. Descriptors!AttributesOf(d) = Descriptors!EglAttributes(d)
    BY <2>1 DEF Descriptors!AttributesOf
  <2>4. a.version <= d.version
    BY <2>3 DEF Covers, Descriptors!EglAttributes
  <2>5. "compatibility" \in a.flags => "compatibility" \in d.flags
    BY <1>1, <2>1, <2>3 DEF Covers, Descriptors!EglAttributes
  <2>6. "compatibility" \in d.flags => g.compatible
    <3>1. "compatibility" \in d.flags => d.version # 31
      BY <1>2 DEF Covers
    <3>2. d.version <= 30 \/ d.version = 31 \/ d.version >= 32
      BY <1>1
    <3>3. "compatibility" \in d.flags => Descriptors!Compatibility(d)
      BY DEF Descriptors!Compatibility
    <3> QED BY <2>2, <3>1, <3>2, <3>3
  <2>7. a.version <= g.version
    BY <1>1, <2>2, <2>4, VersionsUp
  <2> QED BY <2>1, <2>2, <2>5, <2>6, <2>7 DEF Gives
<1>3. CASE devicePlatform \in Descriptors!Gles
  <2>1. devicePlatform \in Descriptors!Egl /\ devicePlatform \notin {"wgl", "cgl", "glutin"}
    BY <1>3 DEF Descriptors!Egl, Descriptors!Gles
  <2>2. d.flags = {} /\ g.version \in DriverVersions /\ d.version <= g.version
    BY <1>3, GrantedPlain
  <2>3. Descriptors!AttributesOf(d) = Descriptors!EglAttributes(d)
    BY <2>1 DEF Descriptors!AttributesOf
  <2>4. a.version <= d.version /\ "compatibility" \notin a.flags
    BY <1>1, <2>1, <2>2, <2>3 DEF Covers, Descriptors!EglAttributes
  <2>5. a.version <= g.version
    BY <1>1, <2>2, <2>4, VersionsUp
  <2> QED BY <2>2, <2>4, <2>5 DEF Gives
<1>4. CASE devicePlatform = "wgl"
  <2>1. devicePlatform \notin Descriptors!Egl \cup Descriptors!Gles \cup Descriptors!FreeUnix
    BY <1>4 DEF Descriptors!Egl, Descriptors!Gles, Descriptors!FreeUnix
  <2>2. g.version \in DriverVersions /\ d.version <= g.version
    BY <1>1, <1>4, <2>1, GrantedProfile
  <2>3. a.version <= d.version
    BY <1>4, <2>1 DEF Covers, Descriptors!AttributesOf, Descriptors!WglAttributes
  <2>4. a.version <= g.version
    BY <1>1, <2>2, <2>3, VersionsUp
  <2> QED BY <2>1, <2>2, <2>4 DEF Gives
<1>5. CASE devicePlatform \in {"cgl", "glutin"}
  BY <1>5 DEF Gives, Descriptors!Gles, Descriptors!FreeUnix
<1> QED BY <1>2, <1>3, <1>4, <1>5, PlatformCases

\* context_descriptor, whatever is current: the descriptor covers what was asked.
LEMMA DescriptorCovers ==
    ASSUME VersionsAreKept, DescriptorInv, NEW c \in DescriptorContexts, made[c] # None,
           NEW at
    PROVE  /\ Covers(Descriptors!DescriptorOf(c, at), made[c].wanted)
           /\ Descriptors!DescriptorOf(c, at).config = made[c].descriptor.config
<1> DEFINE d == Descriptors!DescriptorOf(c, at)
<1> DEFINE a == made[c].wanted
<1>1. /\ Gives(made[c]) /\ a \in Descriptors!Attributes
      /\ Covers(made[c].descriptor, a)
  BY DEF DescriptorInv, Gives
<1>2. /\ a.version \in Nat /\ DriverVersions \subseteq Nat
      /\ 31 \notin DriverVersions
  BY <1>1, AttributesType, DescriptorsAssumption
     DEF Descriptors!DescriptorsAssumption, VersionsAreKept
<1>3. CASE devicePlatform \in Descriptors!Egl
  <2>1. devicePlatform \notin {"wgl", "cgl", "glutin"}
    BY <1>3 DEF Descriptors!Egl, Descriptors!FreeUnix, Descriptors!Gles
  <2>2. d = Descriptors!EglDescriptor(c, at)
    BY <1>3, <2>1 DEF Descriptors!DescriptorOf
  <2>3. d.config = made[c].descriptor.config /\ d.version = made[c].version
    BY <2>2 DEF Descriptors!EglDescriptor
  <2>4. d.version \in DriverVersions /\ a.version <= d.version
    BY <1>1, <2>1, <2>3 DEF Gives
  <2>5. Descriptors!AttributesOf(d) =
           [version |-> d.version, flags |-> (d.config \cap Descriptors!Buffers) \cup d.flags]
    BY <1>3, <2>1 DEF Descriptors!AttributesOf, Descriptors!EglAttributes
  <2>6. "compatibility" \in a.flags => "compatibility" \in d.flags
    <3>1. SUFFICES ASSUME "compatibility" \in a.flags PROVE "compatibility" \in d.flags
      OBVIOUS
    <3>2. devicePlatform \in Descriptors!FreeUnix /\ made[c].compatible
      BY <1>1, <1>3, <3>1 DEF Gives, Descriptors!Egl
    <3>3. devicePlatform # "hardware"
      BY <3>2 DEF Descriptors!FreeUnix
    <3> QED BY <2>2, <3>2, <3>3
            DEF Descriptors!EglDescriptor, Descriptors!UsesCompatibilityProfile
  <2>7. /\ d.version \in Nat /\ d.version # 31
        /\ a.flags \cap Descriptors!Buffers \subseteq d.config
        /\ devicePlatform \in {"wayland", "x11", "wgl"} => "window" \in d.config
    BY <1>1, <1>2, <2>3, <2>4 DEF Covers
  <2> HIDE DEF d
  <2>8. Covers(d, a)
    BY <2>1, <2>4, <2>5, <2>6, <2>7 DEF Covers
  <2> QED BY <2>3, <2>8 DEF d
<1>4. CASE devicePlatform = "wgl"
  <2>1. devicePlatform \notin Descriptors!Egl \cup Descriptors!FreeUnix
    BY <1>4 DEF Descriptors!Egl, Descriptors!FreeUnix, Descriptors!Gles
  <2>2. d.config = made[c].descriptor.config /\ d.version = made[c].version
    BY <1>4, <2>1 DEF Descriptors!DescriptorOf, Descriptors!WglDescriptor
  <2>3. d.version \in DriverVersions /\ a.version <= d.version
    BY <1>1, <1>4, <2>2 DEF Gives
  <2>4. Descriptors!AttributesOf(d).version = d.version
    BY <1>4, <2>1 DEF Descriptors!AttributesOf, Descriptors!WglAttributes
  <2> QED BY <1>1, <1>2, <1>4, <2>1, <2>2, <2>3, <2>4 DEF Covers
<1>5. CASE devicePlatform \in {"cgl", "glutin"}
  <2>1. d = made[c].descriptor
    BY <1>5 DEF Descriptors!DescriptorOf, Descriptors!CglDescriptor,
       Descriptors!GlutinDescriptor, Descriptors!Egl, Descriptors!FreeUnix, Descriptors!Gles
  <2> QED BY <1>1, <2>1
<1> QED BY <1>3, <1>4, <1>5, PlatformCases DEF Descriptors!Egl

\* The renderbuffers of a surface are those of its context's attributes.
LEMMA RenderbuffersBound ==
    ASSUME NEW a, NEW s, s = a.flags \cap {"depth", "stencil"}
    PROVE  s \subseteq Descriptors!BoundToFramebuffer(Descriptors!NewRenderbuffers(a))
<1>1. CASE {"depth", "stencil"} \subseteq a.flags
  BY <1>1 DEF Descriptors!BoundToFramebuffer, Descriptors!NewRenderbuffers
<1>2. CASE ~({"depth", "stencil"} \subseteq a.flags)
  BY <1>2 DEF Descriptors!BoundToFramebuffer, Descriptors!NewRenderbuffers
<1> QED BY <1>1, <1>2

LEMMA SurfaceGets ==
    ASSUME VersionsAreKept, DescriptorInv, NEW c \in DescriptorContexts, made[c] # None
    PROVE  /\ made[c].wanted.flags \cap {"depth", "stencil"}
                 \subseteq Descriptors!DescriptorOf(c, c).config
           /\ devicePlatform # "glutin" =>
                 made[c].wanted.flags \cap {"depth", "stencil"} \subseteq
                    Descriptors!BoundToFramebuffer(Descriptors!NewRenderbuffers(
                       Descriptors!AttributesOf(Descriptors!DescriptorOf(c, c))))
<1> DEFINE d == Descriptors!DescriptorOf(c, c)
<1>1. made[c].wanted.flags \cap Descriptors!Buffers \subseteq d.config
  BY DescriptorCovers DEF Covers
<1>2. made[c].wanted.flags \cap {"depth", "stencil"} \subseteq d.config \cap Descriptors!Buffers
  BY <1>1 DEF Descriptors!Buffers
<1>3. ASSUME devicePlatform # "glutin"
      PROVE  d.config \cap Descriptors!Buffers \subseteq Descriptors!AttributesOf(d).flags
  <2>1. CASE devicePlatform \in Descriptors!Egl
    BY <2>1, EglOnly DEF Descriptors!AttributesOf, Descriptors!EglAttributes
  <2>2. CASE devicePlatform = "wgl"
    BY <2>2 DEF Descriptors!AttributesOf, Descriptors!WglAttributes, Descriptors!Egl,
       Descriptors!FreeUnix, Descriptors!Gles
  <2>3. CASE devicePlatform = "cgl"
    BY <2>3 DEF Descriptors!AttributesOf, Descriptors!CglAttributes, Descriptors!Egl,
       Descriptors!FreeUnix, Descriptors!Gles
  <2> QED BY <1>3, <2>1, <2>2, <2>3, PlatformCases DEF Descriptors!Egl
<1> HIDE DEF d
<1>4. Descriptors!AttributesOf(d).flags \cap {"depth", "stencil"} \subseteq
         Descriptors!BoundToFramebuffer(Descriptors!NewRenderbuffers(
            Descriptors!AttributesOf(d)))
  BY RenderbuffersBound
<1> QED BY <1>2, <1>3, <1>4 DEF d

-----------------------------------------------------------------------------
(* Descriptors: the steps. *)

\* Covers and Gives look at the platform only, which no call changes.
LEMMA CoversSame ==
    ASSUME devicePlatform' = devicePlatform
    PROVE  /\ \A d, a : Covers(d, a)' = Covers(d, a)
           /\ \A m : Gives(m)' = Gives(m)
BY DEF Covers, Gives, Descriptors!AttributesOf, Descriptors!EglAttributes,
   Descriptors!WglAttributes, Descriptors!CglAttributes, Descriptors!GlutinAttributes

LEMMA DescriptorInit == Descriptors!Init => DescriptorInv
BY DEF Descriptors!Init, DescriptorInv

LEMMA DescriptorStep ==
    ASSUME VersionsAreKept, DescriptorInv, Descriptors!Next
    PROVE  DescriptorInv'
<1>0. devicePlatform' = devicePlatform
  BY DEF Descriptors!Next, Descriptors!CreateContextDescriptor, Descriptors!CreateContext,
     Descriptors!ContextDescriptor, Descriptors!DestroyContext,
     Descriptors!MakeContextCurrent, Descriptors!CreateGenericSurface,
     Descriptors!CreateWindowSurface, Descriptors!MakeNoContextCurrent,
     Descriptors!DestroySurface
<1>1. /\ \A d, a : Covers(d, a)' = Covers(d, a)
      /\ \A m : Gives(m)' = Gives(m)
  BY <1>0, CoversSame
<1>2. ASSUME NEW a \in Descriptors!Attributes, Descriptors!CreateContextDescriptor(a)
      PROVE  DescriptorInv'
  <2>1. CASE UNCHANGED <<descriptor, wanted>>
    BY <1>0, <1>1, <1>2, <2>1 DEF DescriptorInv, Descriptors!CreateContextDescriptor
  <2>2. ASSUME NEW d \in Descriptors!Described(a), descriptor' = d, wanted' = a
        PROVE  DescriptorInv'
    <3>1. Covers(d, a)
      BY DescribedCovers
    <3> QED BY <1>0, <1>1, <1>2, <2>2, <3>1
            DEF DescriptorInv, Descriptors!CreateContextDescriptor
  <2> QED BY <1>2, <2>1, <2>2 DEF Descriptors!CreateContextDescriptor
<1>3. ASSUME NEW c \in DescriptorContexts, Descriptors!CreateContext(c) PROVE DescriptorInv'
  <2>1. CASE UNCHANGED made
    BY <1>0, <1>1, <1>3, <2>1 DEF DescriptorInv, Descriptors!CreateContext
  <2>2. ASSUME NEW g \in Descriptors!Granted(descriptor), NEW m,
               m = [descriptor |-> descriptor, wanted |-> wanted,
                    version |-> g.version, compatible |-> g.compatible],
               made' = [made EXCEPT ![c] = m]
        PROVE  DescriptorInv'
    <3>1. wanted \in Descriptors!Attributes /\ Covers(descriptor, wanted)
      BY <1>3 DEF DescriptorInv, Descriptors!CreateContext
    <3>2. Gives(m)
      BY <2>2, <3>1, GrantedGives
    <3>3. /\ made' = [b \in DescriptorContexts |-> made'[b]] /\ made'[c] = m
          /\ \A b \in DescriptorContexts \ {c} : made'[b] = made[b]
      BY <2>2 DEF DescriptorInv
    <3>4. \A b \in DescriptorContexts : made'[b] # None => Gives(made'[b])
      BY <3>2, <3>3 DEF DescriptorInv
    <3>5. UNCHANGED <<descriptor, wanted, has, stopped>>
      BY <1>3 DEF Descriptors!CreateContext
    <3> QED BY <1>0, <1>1, <3>3, <3>4, <3>5 DEF DescriptorInv
  <2> QED BY <1>3, <2>1, <2>2 DEF Descriptors!CreateContext
<1>4. ASSUME NEW c \in DescriptorContexts, Descriptors!ContextDescriptor(c)
      PROVE  DescriptorInv'
  <2>1. /\ made[c] # None /\ descriptor' = Descriptors!DescriptorOf(c, currentOne)
        /\ wanted' = made[c].wanted /\ UNCHANGED <<made, has, stopped>>
    BY <1>4 DEF Descriptors!ContextDescriptor, Descriptors!Exists
  <2>2. Covers(descriptor', wanted') /\ wanted' \in Descriptors!Attributes
    BY <2>1, DescriptorCovers DEF DescriptorInv, Gives
  <2>3. Covers(descriptor, wanted)'
    BY <1>1, <2>2
  <2> QED BY <1>0, <1>1, <2>1, <2>2, <2>3 DEF DescriptorInv
<1>5. ASSUME NEW c \in DescriptorContexts, Descriptors!DestroyContext(c) PROVE DescriptorInv'
  <2>1. /\ made' = [made EXCEPT ![c] = None]
        /\ UNCHANGED <<descriptor, wanted, has, stopped>>
    BY <1>5 DEF Descriptors!DestroyContext
  <2>2. /\ made' = [b \in DescriptorContexts |-> made'[b]]
        /\ \A b \in DescriptorContexts : made'[b] = made[b] \/ made'[b] = None
    BY <2>1 DEF DescriptorInv
  <2>3. \A b \in DescriptorContexts : made'[b] # None => Gives(made'[b])
    BY <2>2 DEF DescriptorInv
  <2> QED BY <1>0, <1>1, <2>1, <2>2, <2>3 DEF DescriptorInv
<1>6. ASSUME NEW c \in DescriptorContexts, NEW s \in DescriptorSurfaces,
             Descriptors!CreateGenericSurface(s, c) \/ Descriptors!CreateWindowSurface(s, c)
      PROVE  DescriptorInv'
  <2>1. made[c] # None /\ UNCHANGED <<descriptor, wanted, made>>
    BY <1>6 DEF Descriptors!CreateGenericSurface, Descriptors!CreateWindowSurface,
       Descriptors!Exists
  <2>2. \/ UNCHANGED has
        \/ \E widget \in BOOLEAN :
              \/ Descriptors!Placed(s, c, widget, Descriptors!DescriptorOf(c, c).config)
              \/ /\ devicePlatform # "glutin"
                 /\ Descriptors!Placed(s, c, widget,
                       Descriptors!BoundToFramebuffer(Descriptors!NewRenderbuffers(
                          Descriptors!AttributesOf(Descriptors!DescriptorOf(c, c)))))
    BY <1>6 DEF Descriptors!CreateGenericSurface, Descriptors!CreateWindowSurface
  <2>3. /\ has' = [r \in DescriptorSurfaces |-> has'[r]]
        /\ \A r \in DescriptorSurfaces : has'[r] # None =>
              has'[r].wanted.flags \cap {"depth", "stencil"} \subseteq has'[r].has
    <3>1. CASE UNCHANGED has
      BY <3>1 DEF DescriptorInv
    <3>2. ASSUME NEW widget, NEW gets, Descriptors!Placed(s, c, widget, gets),
                 made[c].wanted.flags \cap {"depth", "stencil"} \subseteq gets
          PROVE  <2>3
      <4>1. /\ has' = [r \in DescriptorSurfaces |-> has'[r]]
            /\ has'[s] = [owner |-> c, widget |-> widget, has |-> gets,
                          wanted |-> made[c].wanted]
            /\ \A r \in DescriptorSurfaces \ {s} : has'[r] = has[r]
        BY <3>2 DEF DescriptorInv, Descriptors!Placed
      <4>2. /\ has'[s].wanted = made[c].wanted /\ has'[s].has = gets
        BY <4>1
      <4> QED BY <3>2, <4>1, <4>2 DEF DescriptorInv
    <3> QED BY <2>1, <2>2, <3>1, <3>2, SurfaceGets
  <2>4. stopped' => devicePlatform \in Descriptors!Gles
    <3>1. CASE stopped' = stopped
      BY <3>1 DEF DescriptorInv
    <3>2. CASE ~(stopped' = stopped)
      <4>1. /\ devicePlatform \in {"wayland", "x11", "wgl"} \cup Descriptors!Gles
            /\ "window" \notin Descriptors!DescriptorOf(c, c).config
        BY <1>6, <3>2 DEF Descriptors!CreateGenericSurface, Descriptors!CreateWindowSurface
      <4> QED BY <2>1, <4>1, DescriptorCovers DEF Covers
    <3> QED BY <3>1, <3>2
  <2> QED BY <1>0, <1>1, <2>1, <2>3, <2>4 DEF DescriptorInv
<1>7. ASSUME NEW s \in DescriptorSurfaces, Descriptors!DestroySurface(s) PROVE DescriptorInv'
  <2>1. has' = [has EXCEPT ![s] = None] /\ UNCHANGED <<descriptor, wanted, made, stopped>>
    BY <1>7 DEF Descriptors!DestroySurface
  <2>2. /\ has' = [r \in DescriptorSurfaces |-> has'[r]]
        /\ \A r \in DescriptorSurfaces : has'[r] = has[r] \/ has'[r] = None
    BY <2>1 DEF DescriptorInv
  <2> QED BY <1>0, <1>1, <2>1, <2>2 DEF DescriptorInv
<1>8. ASSUME UNCHANGED <<descriptor, wanted, made, has, stopped>> PROVE DescriptorInv'
  BY <1>0, <1>1, <1>8 DEF DescriptorInv
<1> QED BY <1>2, <1>3, <1>4, <1>5, <1>6, <1>7, <1>8
        DEF Descriptors!Next, Descriptors!MakeContextCurrent,
            Descriptors!MakeNoContextCurrent

LEMMA DescriptorsAsked ==
    ASSUME DescriptorInv PROVE Descriptors!AskedIsGiven
<1>1. ASSUME descriptor # None
      PROVE  /\ wanted.flags \subseteq Descriptors!AttributesOf(descriptor).flags
                         \cup (IF devicePlatform = "wgl" THEN {"compatibility"} ELSE {})
             /\ wanted.version <= Descriptors!AttributesOf(descriptor).version
  <2>1. wanted \in Descriptors!Attributes /\ Covers(descriptor, wanted)
    BY <1>1 DEF DescriptorInv
  <2>2. wanted.flags \subseteq Descriptors!Buffers \cup {"compatibility"}
    BY <2>1, AttributesType
  <2>3. CASE devicePlatform \in Descriptors!Egl
    BY <2>1, <2>2, <2>3 DEF Covers, Descriptors!AttributesOf, Descriptors!EglAttributes,
       Descriptors!Egl, Descriptors!FreeUnix, Descriptors!Gles
  <2>4. CASE devicePlatform = "wgl"
    BY <2>1, <2>2, <2>4 DEF Covers, Descriptors!AttributesOf, Descriptors!WglAttributes,
       Descriptors!Egl, Descriptors!FreeUnix, Descriptors!Gles
  <2>5. CASE devicePlatform = "cgl"
    BY <2>1, <2>2, <2>5 DEF Covers, Descriptors!AttributesOf, Descriptors!CglAttributes,
       Descriptors!Egl, Descriptors!FreeUnix, Descriptors!Gles
  <2>6. CASE devicePlatform = "glutin"
    BY <2>1, <2>2, <2>6 DEF Covers, Descriptors!AttributesOf, Descriptors!GlutinAttributes,
       Descriptors!Egl, Descriptors!FreeUnix, Descriptors!Gles
  <2> QED BY <2>3, <2>4, <2>5, <2>6, PlatformCases DEF Descriptors!Egl
<1> QED BY <1>1 DEF DescriptorInv, Descriptors!AskedIsGiven

\* ContextAttributes, from create_context_descriptor to create_context, context_descriptor
\* and context_descriptor_attributes and round again, on every back end and whichever
\* context is current meanwhile: contexts and surfaces have what was asked of them, but
\* for the compatibility profile on WGL, which its context_descriptor_attributes forgets.
\* Not so if drivers make contexts of version 3.1, which has no profile to ask for, nor
\* with CGL if a version is asked for between its profiles: VersionsAreKept.
THEOREM AttributesComeBack ==
    ASSUME VersionsAreKept
    PROVE  MCSpec => []AskedIsGiven
<1> DEFINE DInv == part = "descriptors" => DescriptorInv
<1>1. MCInit => DInv
  BY DescriptorInit DEF MCInit
<1>2. DInv /\ [MCNext]_<<part, vars, descriptorVars>> => DInv'
  <2> SUFFICES ASSUME DInv, [MCNext]_<<part, vars, descriptorVars>>, part' = "descriptors"
               PROVE  DescriptorInv'
    OBVIOUS
  <2>1. part = "descriptors" /\ DescriptorInv
    BY DEF MCNext
  <2>2. CASE Descriptors!Next
    BY <2>1, <2>2, DescriptorStep
  <2>3. CASE UNCHANGED descriptorVars
    BY <2>1, <2>3, CoversSame DEF descriptorVars, DescriptorInv
  <2> QED BY <2>1, <2>2, <2>3 DEF MCNext
<1>3. DInv => AskedIsGiven
  BY DescriptorsAsked DEF AskedIsGiven
<1> QED BY <1>1, <1>2, <1>3, PTL DEF MCSpec
=============================================================================
