-------------------------- MODULE CglDeviceProofs --------------------------
(***************************************************************************)
(* What holds of CglDevice for all contexts, surfaces and names, if the    *)
(* contexts are finitely many.  Types and references hold whatever fails   *)
(* and however the API is misused.                                         *)
(*                                                                         *)
(* A texture's picture tells its surface, so that NamesInv, which is       *)
(* TextureShowsBack for a surface that waits too, keeps the names that     *)
(* different surfaces use apart: OthersStay carries all surfaces but the   *)
(* one a call is about over the step.  This needs callers that are careful *)
(* and contexts that can be made current.                                  *)
(***************************************************************************)
EXTENDS CglDevice, TLAPS, FiniteSetTheorems

Holders(g) == {c \in Contexts : status[c] \in {"Live", "Leaked"} /\ cgl[c] = g}

\* A context that was never created still has its own CGL context.
AbsentInv == \A c \in Contexts : status[c] = "Absent" => cgl[c] = c

\* What a context has bound knows that it is, and by whom.
BindInv ==
    \A c \in Contexts : framebuffer[c] # NoSurface =>
        /\ status[c] = "Live"
        /\ place[framebuffer[c]] = "bound" /\ creator[framebuffer[c]] = c

-----------------------------------------------------------------------------
(* References and types. *)

\* One holder more, or one less.
LEMMA HoldersCount ==
    ASSUME IsFiniteSet(Contexts), NEW g \in Contexts
    PROVE  /\ Cardinality(Holders(g)) \in Nat
           /\ Cardinality(Holders(g)) <= Cardinality(Contexts)
           /\ \A c \in Contexts \ Holders(g) :
                 Cardinality(Holders(g) \cup {c}) = Cardinality(Holders(g)) + 1
           /\ \A c \in Holders(g) :
                 /\ Cardinality(Holders(g)) >= 1
                 /\ Cardinality(Holders(g) \ {c}) = Cardinality(Holders(g)) - 1
<1>1. Holders(g) \subseteq Contexts
  BY DEF Holders
<1>2. IsFiniteSet(Holders(g)) /\ Cardinality(Holders(g)) <= Cardinality(Contexts)
  BY <1>1, FS_Subset
<1>3. Cardinality(Holders(g)) \in Nat
  BY <1>2, FS_CardinalityType
<1>4. \A c \in Contexts \ Holders(g) :
         Cardinality(Holders(g) \cup {c}) = Cardinality(Holders(g)) + 1
  BY <1>2, FS_AddElement
<1>5. ASSUME NEW c \in Holders(g)
      PROVE  /\ Cardinality(Holders(g)) >= 1
             /\ Cardinality(Holders(g) \ {c}) = Cardinality(Holders(g)) - 1
  <2>1. /\ Cardinality(Holders(g) \ {c}) = Cardinality(Holders(g)) - 1
        /\ IsFiniteSet(Holders(g) \ {c})
    BY <1>2, <1>5, FS_RemoveElement
  <2>2. Cardinality(Holders(g) \ {c}) \in Nat
    BY <2>1, FS_CardinalityType
  <2> QED BY <1>3, <2>1, <2>2
<1> QED BY <1>2, <1>3, <1>4, <1>5

LEMMA RefsAre ==
    RefsMatchHandles <=>
        \A g \in Contexts : refs[g] + borrowed[g] = natives[g] + Cardinality(Holders(g))
BY DEF RefsMatchHandles, Holders

LEMMA CountTypes ==
    ASSUME TypeOK
    PROVE  \A g \in Contexts : refs[g] \in Int /\ natives[g] \in Int /\ borrowed[g] \in Int
BY DEF TypeOK

\* The actions that change a reference count, or who holds a CGL context.
Counts ==
    \/ \E c \in Contexts :
          \/ CreateContext(c) \/ NativeContextOf(c) \/ NativeContextClone(c)
          \/ NativeContextDrop(c) \/ NativeContextCurrent(c) \/ DestroyContext(c)
    \/ \E c, g \in Contexts : CreateContextFromNative(c, g)

LEMMA OthersKeepCounts ==
    ASSUME [Next]_vars, ~Counts
    PROVE  UNCHANGED <<status, cgl, refs, natives, borrowed>>
<1> USE DEF vars, contextVars, Keep
<1>1. CASE \E c \in Contexts : OnContext(c)
  BY <1>1 DEF OnContext, Counts, MakeContextCurrent, UnbindSurface, Draw,
     PresentBoundSurface,
     PresentBegins, ResizeBoundSurface, Resize
<1>2. CASE \E c \in Contexts, s \in Surfaces : OnSurface(c, s)
  BY <1>2 DEF OnSurface, CreateSurface, DestroySurface, BindSurface, PresentSurface,
     PresentBegins, ResizeSurface, Resize, CreateSurfaceTexture, DestroySurfaceTexture
<1>3. CASE \E s \in Surfaces : CallbackBegins(s) \/ CallbackEnds(s) \/ DropSurface(s)
  BY <1>3 DEF CallbackBegins, CallbackEnds, DropSurface
<1>4. CASE MakeNoContextCurrent \/ PresentWakes \/ PresentWakesEarly \/ UNCHANGED vars
  BY <1>4 DEF MakeNoContextCurrent, PresentWakes, PresentWakesEarly, PresentEnds
<1> QED BY <1>1, <1>2, <1>3, <1>4 DEF Next

LEMMA RefsStep ==
    ASSUME IsFiniteSet(Contexts), TypeOK, AbsentInv, RefsMatchHandles, [Next]_vars
    PROVE  AbsentInv' /\ RefsMatchHandles'
<1> USE DEF AbsentInv, TypeOK
<1>1. CASE ~Counts
  <2>1. UNCHANGED <<status, cgl, refs, natives, borrowed>>
    BY <1>1, OthersKeepCounts
  <2> QED BY <2>1 DEF RefsMatchHandles
<1>2. ASSUME NEW c \in Contexts, CreateContext(c) PROVE AbsentInv' /\ RefsMatchHandles'
  <2>1. CASE (\E st \in {"Live", "Leaked"} : status' = [status EXCEPT ![c] = st]) /\ Retain(c)
    <3>1. cgl[c] = c /\ UNCHANGED <<cgl, natives, borrowed>> /\ c \notin Holders(c)
      BY <1>2 DEF CreateContext, Holders
    <3>2. Holders(c)' = Holders(c) \cup {c}
      BY <2>1, <3>1 DEF Holders
    <3>3. \A g \in Contexts \ {c} : Holders(g)' = Holders(g)
      BY <2>1, <3>1 DEF Holders
    <3>4. refs'[c] = refs[c] + 1 /\ \A g \in Contexts \ {c} : refs'[g] = refs[g]
      BY <2>1 DEF Retain
    <3>5. refs'[c] + borrowed'[c] = natives'[c] + Cardinality(Holders(c)')
      <4>1. Cardinality(Holders(c)') = Cardinality(Holders(c)) + 1
        BY <3>1, <3>2, HoldersCount
      <4>2. Cardinality(Holders(c)) \in Nat
        BY HoldersCount
      <4>3. refs[c] + borrowed[c] = natives[c] + Cardinality(Holders(c))
        BY RefsAre
      <4> HIDE DEF TypeOK, AbsentInv
      <4> QED BY <3>1, <3>4, <4>1, <4>2, <4>3, CountTypes
    <3>6. \A g \in Contexts \ {c} : refs'[g] + borrowed'[g] = natives'[g] + Cardinality(Holders(g)')
      BY <3>1, <3>3, <3>4, RefsAre
    <3>7. AbsentInv'
      BY <2>1, <3>1
    <3> QED BY <3>5, <3>6, <3>7 DEF RefsMatchHandles, Holders
  <2>2. CASE UNCHANGED <<status, refs>>
    BY <1>2, <2>2 DEF CreateContext, RefsMatchHandles
  <2> QED BY <1>2, <2>1, <2>2 DEF CreateContext
<1>3. ASSUME NEW c \in Contexts, NativeContextOf(c) \/ NativeContextClone(c)
      PROVE  AbsentInv' /\ RefsMatchHandles'
  <2>1. /\ \E g \in Contexts : /\ refs' = [refs EXCEPT ![g] = @ + 1]
                               /\ natives' = [natives EXCEPT ![g] = @ + 1]
        /\ UNCHANGED <<status, cgl, borrowed>>
    BY <1>3 DEF NativeContextOf, NativeContextClone, Retain, NativeVars
  <2>2. \A g \in Contexts : refs'[g] - natives'[g] = refs[g] - natives[g]
    BY <2>1
  <2>3. \A g \in Contexts : Holders(g)' = Holders(g) /\ Cardinality(Holders(g)) \in Nat
    BY <2>1, HoldersCount DEF Holders
  <2>5. \A g \in Contexts : refs[g] + borrowed[g] = natives[g] + Cardinality(Holders(g))
    BY RefsAre
  <2>6. \A g \in Contexts :
           /\ refs'[g] \in Int /\ natives'[g] \in Int /\ borrowed'[g] \in Int
           /\ refs[g] \in Int /\ natives[g] \in Int /\ borrowed[g] \in Int
    BY <2>1, CountTypes
  <2>4. \A g \in Contexts : refs'[g] + borrowed'[g] = natives'[g] + Cardinality(Holders(g)')
    <3> HIDE DEF TypeOK, AbsentInv
    <3>1. TAKE g \in Contexts
    <3>2. refs'[g] = refs[g] + (natives'[g] - natives[g]) /\ borrowed'[g] = borrowed[g]
      BY <2>1, <2>2, <2>6
    <3> QED BY <2>3, <2>5, <2>6, <3>2
  <2> QED BY <2>1, <2>4 DEF RefsMatchHandles, Holders
<1>4. ASSUME NEW c \in Contexts, NativeContextDrop(c) PROVE AbsentInv' /\ RefsMatchHandles'
  <2>1. /\ natives[c] > 0 /\ natives' = [natives EXCEPT ![c] = @ - 1]
        /\ refs' = [refs EXCEPT ![c] = @ - 1]
        /\ UNCHANGED <<status, cgl, borrowed>>
    BY <1>4 DEF NativeContextDrop, Release, NativeVars
  <2>2. \A g \in Contexts : Holders(g)' = Holders(g) /\ Cardinality(Holders(g)) \in Nat
    BY <2>1, HoldersCount DEF Holders
  <2>3. \A g \in Contexts : refs[g] + borrowed[g] = natives[g] + Cardinality(Holders(g))
    BY RefsAre
  <2>4. \A g \in Contexts : refs'[g] + borrowed'[g] = natives'[g] + Cardinality(Holders(g)')
    <3> HIDE DEF TypeOK, AbsentInv
    <3>1. refs \in [Contexts -> Int] /\ natives \in [Contexts -> Int]
      BY DEF TypeOK
    <3>2. TAKE g \in Contexts
    <3>3. refs'[g] - natives'[g] = refs[g] - natives[g] /\ borrowed'[g] = borrowed[g]
      BY <2>1, <3>1
    <3>4. refs'[g] \in Int /\ natives'[g] \in Int
      BY <2>1, <3>1
    <3>5. refs[g] \in Int /\ natives[g] \in Int /\ borrowed[g] \in Int
      BY CountTypes
    <3> QED BY <2>2, <2>3, <3>3, <3>4, <3>5
  <2> QED BY <2>1, <2>4 DEF RefsMatchHandles, Holders
<1>5. ASSUME NEW c \in Contexts, NEW g \in Contexts, CreateContextFromNative(c, g)
      PROVE  AbsentInv' /\ RefsMatchHandles'
  <2>1. /\ status[c] = "Absent" /\ natives[g] > 0
        /\ status' = [status EXCEPT ![c] = "Live"] /\ cgl' = [cgl EXCEPT ![c] = g]
        /\ natives' = [natives EXCEPT ![g] = @ - 1] /\ UNCHANGED <<refs, borrowed>>
    BY <1>5 DEF CreateContextFromNative
  <2>2. c \notin Holders(g) /\ Holders(g)' = Holders(g) \cup {c}
    BY <2>1 DEF Holders
  <2>3. \A h \in Contexts \ {g} : Holders(h)' = Holders(h)
    BY <2>1 DEF Holders
  <2>4. refs'[g] + borrowed'[g] = natives'[g] + Cardinality(Holders(g)')
    <3>1. Cardinality(Holders(g)') = Cardinality(Holders(g)) + 1
      BY <2>2, HoldersCount
    <3>2. Cardinality(Holders(g)) \in Nat
      BY HoldersCount
    <3>3. refs[g] + borrowed[g] = natives[g] + Cardinality(Holders(g)) /\ natives[g] \in Nat
      BY RefsAre
    <3>4. natives'[g] = natives[g] - 1
      BY <2>1
    <3> HIDE DEF TypeOK, AbsentInv
    <3> QED BY <2>1, <3>1, <3>2, <3>3, <3>4, CountTypes
  <2>5. \A h \in Contexts \ {g} : refs'[h] + borrowed'[h] = natives'[h] + Cardinality(Holders(h)')
    BY <2>1, <2>3, RefsAre
  <2>6. AbsentInv'
    BY <2>1
  <2> QED BY <2>4, <2>5, <2>6 DEF RefsMatchHandles, Holders
<1>6. ASSUME NEW c \in Contexts, DestroyContext(c) PROVE AbsentInv' /\ RefsMatchHandles'
  <2>0. PICK g \in Contexts : g = cgl[c]
    OBVIOUS
  <2>1. /\ c \in Holders(g) /\ g \in Contexts
        /\ status' = [status EXCEPT ![c] = "Destroyed"]
        /\ refs' = [refs EXCEPT ![g] = @ - 1]
        /\ UNCHANGED <<cgl, natives, borrowed>>
    BY <1>6, <2>0 DEF DestroyContext, MayCall, Release, Holders
  <2>2. Holders(g)' = Holders(g) \ {c}
    BY <2>1 DEF Holders
  <2>3. \A h \in Contexts \ {g} : Holders(h)' = Holders(h)
    BY <2>1 DEF Holders
  <2>4. refs[g] + borrowed[g] = natives[g] + Cardinality(Holders(g)) /\ natives[g] \in Nat
    BY <2>1, RefsAre
  <2>5. /\ Cardinality(Holders(g)) \in Nat /\ Cardinality(Holders(g)) >= 1
        /\ Cardinality(Holders(g)') = Cardinality(Holders(g)) - 1
    BY <2>1, <2>2, HoldersCount
  <2>6. refs'[g] = refs[g] - 1
    BY <2>1, <2>4, <2>5
  <2>7. refs'[g] + borrowed'[g] = natives'[g] + Cardinality(Holders(g)')
    <3> HIDE DEF TypeOK, AbsentInv
    <3> QED BY <2>1, <2>4, <2>5, <2>6, CountTypes
  <2>8. \A h \in Contexts \ {g} : refs'[h] + borrowed'[h] = natives'[h] + Cardinality(Holders(h)')
    BY <2>1, <2>3, RefsAre
  <2>9. AbsentInv'
    BY <2>1
  <2> QED BY <2>7, <2>8, <2>9 DEF RefsMatchHandles, Holders
<1>7. ASSUME NEW c \in Contexts, NativeContextCurrent(c)
      PROVE  AbsentInv' /\ RefsMatchHandles'
  <2>1. /\ natives' = [natives EXCEPT ![c] = @ + 1]
        /\ borrowed' = [borrowed EXCEPT ![c] = @ + 1]
        /\ UNCHANGED <<status, cgl, refs>>
    BY <1>7 DEF NativeContextCurrent, NativeVars
  <2>2. \A g \in Contexts : natives'[g] - borrowed'[g] = natives[g] - borrowed[g]
    BY <2>1
  <2>7. \A g \in Contexts :
           \/ natives'[g] = natives[g] + 1 /\ borrowed'[g] = borrowed[g] + 1
           \/ natives'[g] = natives[g] /\ borrowed'[g] = borrowed[g]
    BY <2>1
  <2>3. \A g \in Contexts : Holders(g)' = Holders(g) /\ Cardinality(Holders(g)) \in Nat
    BY <2>1, HoldersCount DEF Holders
  <2>5. \A g \in Contexts : refs[g] + borrowed[g] = natives[g] + Cardinality(Holders(g))
    BY RefsAre
  <2>6. \A g \in Contexts :
           /\ refs'[g] \in Int /\ natives'[g] \in Int /\ borrowed'[g] \in Int
           /\ refs[g] \in Int /\ natives[g] \in Int /\ borrowed[g] \in Int
    BY <2>1, CountTypes
  <2>4. \A g \in Contexts : refs'[g] + borrowed'[g] = natives'[g] + Cardinality(Holders(g)')
    <3> HIDE DEF TypeOK, AbsentInv
    <3>1. TAKE g \in Contexts
    <3>2. refs'[g] = refs[g] /\ natives'[g] - borrowed'[g] = natives[g] - borrowed[g]
      BY <2>1, <2>2, <2>6
    <3>3. Cardinality(Holders(g)') = Cardinality(Holders(g))
      BY <2>3
    <3>4. refs[g] + borrowed[g] = natives[g] + Cardinality(Holders(g))
      BY <2>5
    <3>5. \/ natives'[g] = natives[g] + 1 /\ borrowed'[g] = borrowed[g] + 1
          \/ natives'[g] = natives[g] /\ borrowed'[g] = borrowed[g]
      BY <2>7
    <3>6. CASE natives'[g] = natives[g] /\ borrowed'[g] = borrowed[g]
      BY <3>2, <3>3, <3>4, <3>6
    <3>7. CASE natives'[g] = natives[g] + 1 /\ borrowed'[g] = borrowed[g] + 1
      <4> DEFINE k == Cardinality(Holders(g))
      <4>1. k \in Int /\ refs[g] \in Int /\ natives[g] \in Int /\ borrowed[g] \in Int
        BY <2>3, <2>6
      <4>2. refs[g] + borrowed[g] = natives[g] + k
        BY <3>4
      <4> HIDE DEF k
      <4>3. refs[g] + (borrowed[g] + 1) = (natives[g] + 1) + k
        BY <4>1, <4>2
      <4>4. Cardinality(Holders(g)') = k
        BY <3>3 DEF k
      <4> QED BY <3>2, <3>7, <4>3, <4>4
    <3> QED BY <3>5, <3>6, <3>7
  <2> QED BY <2>1, <2>4 DEF RefsMatchHandles, Holders
<1> QED BY <1>1, <1>2, <1>3, <1>4, <1>5, <1>6, <1>7 DEF Counts

Least(S) == CHOOSE i \in S : \A j \in S : i <= j
Greatest(S) == CHOOSE i \in S : \A j \in S : i >= j

\* Two IOSurfaces are left next to three in use: the new ones of resize_inner.
LEMMA NewImages ==
    ASSUME NEW x \in IOSurfaces, NEW y \in IOSurfaces, NEW z \in IOSurfaces
    PROVE  /\ Least(IOSurfaces \ {x, y, z}) \in IOSurfaces \ {x, y, z}
           /\ Greatest(IOSurfaces \ {x, y, z}) \in IOSurfaces \ {x, y, z}
           /\ Least(IOSurfaces \ {x, y, z}) # Greatest(IOSurfaces \ {x, y, z})
<1> DEFINE new == IOSurfaces \ {x, y, z}
<1>1. \E i \in new : \A j \in new : i <= j
  BY DEF IOSurfaces
<1>2. \E i \in new : \A j \in new : i >= j
  BY DEF IOSurfaces
<1>3. new \subseteq Nat /\ \E i, j \in new : i # j
  BY DEF IOSurfaces
<1> HIDE DEF new
<1>4. Least(new) \in new /\ \A j \in new : Least(new) <= j
  BY <1>1 DEF Least
<1>5. Greatest(new) \in new /\ \A j \in new : Greatest(new) >= j
  BY <1>2 DEF Greatest
<1>6. Least(new) # Greatest(new)
  <2>1. PICK i \in new, j \in new : i # j
    BY <1>3
  <2>2. i \in Nat /\ j \in Nat /\ Least(new) \in Nat /\ Greatest(new) \in Nat
    BY <1>3, <1>4, <1>5
  <2>3. /\ Least(new) <= i /\ Least(new) <= j
        /\ Greatest(new) >= i /\ Greatest(new) >= j
    BY <1>4, <1>5
  <2> QED BY <2>1, <2>2, <2>3
<1> QED BY <1>4, <1>5, <1>6 DEF new

\* All of TypeOK but the references, whose bound RefsMatchHandles gives.
ContextTypes ==
    /\ status \in [Contexts -> {"Absent", "Live", "Destroyed", "Leaked"}]
    /\ cgl \in [Contexts -> Contexts]
    /\ natives \in [Contexts -> 0..MaxNatives]
    /\ borrowed \in [Contexts -> 0..MaxBorrowed]
    /\ framebuffer \in [Contexts -> Surfaces \cup {NoSurface}]
    /\ current \in Contexts \cup {NoContext}

GlTypes ==
    /\ glTexture \in [Contexts -> [Names -> Images \cup {NoImage}]]
    /\ fbo \in [Contexts -> Surfaces \cup {NoSurface}]

SurfaceTypes ==
    /\ place \in [Surfaces -> {"absent", "free", "bound", "texture", "destroyed"}]
    /\ widget \subseteq Surfaces
    /\ creator \in [Surfaces -> Contexts \cup {NoContext}]
    /\ name \in [Surfaces -> Names \cup {NoName}]
    /\ reader \in [Surfaces -> [cgl : Contexts, name : Names] \cup {NoReader}]

ImageTypes ==
    /\ back \in [Surfaces -> IOSurfaces] /\ front \in [Surfaces -> IOSurfaces]
    /\ shown \in [Surfaces -> IOSurfaces] /\ open \in BOOLEAN

WaitTypes == waiting \in [surface : Surfaces, over : BOOLEAN] \cup {Nobody}

ViewTypes ==
    /\ link \in [Surfaces -> BOOLEAN]
    /\ callbacks \subseteq Surfaces
    /\ arcs \in [Surfaces -> 0..2]
    /\ result \in {"ok", "err", "panic"}

Types == ContextTypes /\ GlTypes /\ SurfaceTypes /\ ImageTypes /\ ViewTypes /\ WaitTypes

LEMMA TextureTypes ==
    ASSUME GlTypes, NEW g, NEW n, NEW i \in Images \cup {NoImage}
    PROVE  [glTexture EXCEPT ![g][n] = i] \in [Contexts -> [Names -> Images \cup {NoImage}]]
<1>1. CASE g \in Contexts
  <2>1. glTexture[g] \in [Names -> Images \cup {NoImage}]
    BY <1>1 DEF GlTypes
  <2>2. [glTexture[g] EXCEPT ![n] = i] \in [Names -> Images \cup {NoImage}]
    BY <2>1
  <2> QED BY <2>2 DEF GlTypes
<1>2. CASE g \notin Contexts
  BY <1>2 DEF GlTypes
<1> QED BY <1>1, <1>2

LEMMA DeleteTypes ==
    ASSUME Types, NEW s, DeleteObjects(s)
    PROVE  GlTypes'
<1>1. CASE current = NoContext
  BY <1>1 DEF DeleteObjects, glVars, Types, GlTypes
<1>2. CASE current # NoContext
  <2>1. glTexture' \in [Contexts -> [Names -> Images \cup {NoImage}]]
    <3>1. [glTexture EXCEPT ![current][name[s]] = NoImage] \in
             [Contexts -> [Names -> Images \cup {NoImage}]]
      BY TextureTypes, Zenon DEF Types
    <3>2. glTexture' = [glTexture EXCEPT ![current][name[s]] = NoImage]
      BY <1>2 DEF DeleteObjects
    <3> QED BY <3>1, <3>2, Zenon
  <2>2. fbo' \in [Contexts -> Surfaces \cup {NoSurface}]
    BY <1>2 DEF DeleteObjects, Types, GlTypes
  <2> QED BY <2>1, <2>2 DEF GlTypes
<1> QED BY <1>1, <1>2

LEMMA DropTypes ==
    ASSUME Types, NEW s \in Surfaces, DropView(s), result' \in {"ok", "err", "panic"}
    PROVE  ViewTypes'
<1>1. link' \in [Surfaces -> BOOLEAN]
  BY DEF DropView, Types, ViewTypes
<1>2. arcs' \in [Surfaces -> 0..2]
  <2>1. arcs' = [arcs EXCEPT ![s] = 0] /\ arcs \in [Surfaces -> 0..2]
    BY DEF DropView, Types, ViewTypes
  <2> QED BY <2>1
<1> QED BY <1>1, <1>2 DEF DropView, Types, ViewTypes

\* Presenting and resizing, of a bound surface or of another.
LEMMA PresentTypes ==
    ASSUME Types, NEW s \in Surfaces, PresentBegins(s)
    PROVE  Types'
<1> USE DEF contextVars, glVars, surfaceVars, viewVars, Types
<1>1. ContextTypes'
  BY DEF PresentBegins, Swapped, ContextTypes
<1>2. GlTypes'
  BY DEF PresentBegins, Swapped, GlTypes
<1>3. SurfaceTypes'
  BY DEF PresentBegins, Swapped, SurfaceTypes
<1>4. ImageTypes'
  BY DEF PresentBegins, Swapped, ImageTypes
<1>5. ViewTypes'
  BY DEF PresentBegins, Swapped, ViewTypes
<1>6. WaitTypes'
  <2>1. waiting' = [surface |-> s, over |-> FALSE] \/ UNCHANGED waiting
    BY DEF PresentBegins
  <2>2. [surface |-> s, over |-> FALSE] \in [surface : Surfaces, over : BOOLEAN]
    OBVIOUS
  <2> QED BY <2>1, <2>2, Zenon DEF WaitTypes
<1> QED BY <1>1, <1>2, <1>3, <1>4, <1>5, <1>6

LEMMA ResizeTypes ==
    ASSUME Types, NEW c \in Contexts, NEW s \in Surfaces, Resize(c, s), MayCall(c)
    PROVE  Types'
<1> USE DEF contextVars, glVars, surfaceVars, imageVars, viewVars, Keep
<1>1. CASE s \notin widget
  BY <1>1, DistinctAssumption DEF Resize, Types, ContextTypes, GlTypes, SurfaceTypes,
     ImageTypes, ViewTypes,
     WaitTypes
<1>2. CASE s \in widget
  <2>1. PICK g \in ActsOn(c), n \in Names, b \in IOSurfaces, f \in IOSurfaces :
           /\ glTexture' = [glTexture EXCEPT ![g][n] = <<s, b>>, ![g][name[s]] = NoImage]
           /\ back' = [back EXCEPT ![s] = b] /\ front' = [front EXCEPT ![s] = f]
           /\ name' = [name EXCEPT ![s] = n]
    <3> DEFINE new == IOSurfaces \ {back[s], front[s], shown[s]}
               lo == Least(new)
               hi == Greatest(new)
    <3>1. /\ back[s] \in IOSurfaces /\ front[s] \in IOSurfaces /\ shown[s] \in IOSurfaces
      BY DEF Types, ImageTypes
    <3>2. lo \in new /\ hi \in new
      BY <3>1, NewImages
    <3>3. PICK g \in ActsOn(c), n \in Names :
             /\ glTexture' = [glTexture EXCEPT ![g][n] = <<s, lo>>, ![g][name[s]] = NoImage]
             /\ back' = [back EXCEPT ![s] = lo] /\ front' = [front EXCEPT ![s] = hi]
             /\ name' = [name EXCEPT ![s] = n]
      BY <1>2 DEF Resize, Least, Greatest
    <3>4. lo \in IOSurfaces /\ hi \in IOSurfaces
      BY <3>2
    <3> HIDE DEF new, lo, hi
    <3> QED BY <3>3, <3>4
  <2>2. /\ result' = "ok" /\ UNCHANGED fbo
        /\ UNCHANGED <<contextVars, current, place, widget, creator, reader, shown, open,
                       waiting, viewVars>>
    BY <1>2 DEF Resize, BindingRestored
  <2>3. g \in Contexts
    BY DEF ActsOn, Types, ContextTypes
  <2>4. GlTypes'
    BY <2>1, <2>2, <2>3 DEF Types, GlTypes, Images
  <2>5. ImageTypes' /\ ContextTypes' /\ SurfaceTypes' /\ ViewTypes' /\ WaitTypes'
    BY <2>1, <2>2 DEF Types, ContextTypes, SurfaceTypes, ImageTypes, ViewTypes,
     WaitTypes
  <2> QED BY <2>4, <2>5 DEF Types
<1> QED BY <1>1, <1>2

LEMMA ContextCallTypes ==
    ASSUME Types, NEW c \in Contexts, OnContext(c)
    PROVE  Types'
<1> USE MaxNativesAssumption, DistinctAssumption
<1> USE DEF contextVars, glVars, surfaceVars, imageVars, viewVars, Keep, Types
<1>1. CASE CreateContext(c) \/ MakeContextCurrent(c)
  <2>1. ContextTypes'
    BY <1>1 DEF CreateContext, MakeContextCurrent, ContextTypes
  <2>2. GlTypes'
    BY <1>1 DEF CreateContext, MakeContextCurrent, GlTypes
  <2>3. SurfaceTypes'
    BY <1>1 DEF CreateContext, MakeContextCurrent, SurfaceTypes
  <2>4. ImageTypes'
    BY <1>1 DEF CreateContext, MakeContextCurrent, ImageTypes
  <2>5. ViewTypes'
    BY <1>1 DEF CreateContext, MakeContextCurrent, ViewTypes
  <2>6. WaitTypes'
    BY <1>1 DEF CreateContext, MakeContextCurrent, WaitTypes
  <2> QED BY <2>1, <2>2, <2>3, <2>4, <2>5, <2>6
<1>2. CASE \/ NativeContextOf(c) \/ NativeContextClone(c)
           \/ NativeContextDrop(c) \/ NativeContextCurrent(c)
  <2> USE DEF NativeVars
  <2>1. ContextTypes'
    <3>1. ASSUME NativeContextOf(c)
          PROVE  /\ natives' \in [Contexts -> 0..MaxNatives]
                 /\ borrowed' \in [Contexts -> 0..MaxBorrowed]
      <4>1. PICK g \in Contexts : g = cgl[c]
        BY DEF ContextTypes
      <4>2. /\ natives[g] < MaxNatives /\ natives' = [natives EXCEPT ![g] = @ + 1]
            /\ UNCHANGED borrowed
        BY <3>1, <4>1 DEF NativeContextOf
      <4> QED BY <4>2 DEF ContextTypes
    <3>2. ASSUME NativeContextClone(c) \/ NativeContextDrop(c)
          PROVE  /\ natives' \in [Contexts -> 0..MaxNatives]
                 /\ borrowed' \in [Contexts -> 0..MaxBorrowed]
      <4>1. /\ \/ natives[c] < MaxNatives /\ natives' = [natives EXCEPT ![c] = @ + 1]
               \/ natives[c] > 0 /\ natives' = [natives EXCEPT ![c] = @ - 1]
            /\ UNCHANGED borrowed
        BY <3>2 DEF NativeContextClone, NativeContextDrop, ContextTypes
      <4> QED BY <4>1 DEF ContextTypes
    <3>3. ASSUME NativeContextCurrent(c)
          PROVE  /\ natives' \in [Contexts -> 0..MaxNatives]
                 /\ borrowed' \in [Contexts -> 0..MaxBorrowed]
      <4>1. /\ natives[c] < MaxNatives /\ natives' = [natives EXCEPT ![c] = @ + 1]
            /\ borrowed[c] < MaxBorrowed /\ borrowed' = [borrowed EXCEPT ![c] = @ + 1]
        BY <3>3 DEF NativeContextCurrent
      <4> QED BY <4>1, MaxBorrowedAssumption DEF ContextTypes
    <3>4. natives' \in [Contexts -> 0..MaxNatives] /\ borrowed' \in [Contexts -> 0..MaxBorrowed]
      BY <1>2, <3>1, <3>2, <3>3
    <3> QED
      BY <1>2, <3>4 DEF NativeContextOf, NativeContextClone, NativeContextDrop,
         NativeContextCurrent, ContextTypes
  <2>2. GlTypes'
    BY <1>2 DEF NativeContextOf, NativeContextClone, NativeContextDrop,
       NativeContextCurrent, GlTypes
  <2>3. SurfaceTypes'
    BY <1>2 DEF NativeContextOf, NativeContextClone, NativeContextDrop,
       NativeContextCurrent, SurfaceTypes
  <2>4. ImageTypes'
    BY <1>2 DEF NativeContextOf, NativeContextClone, NativeContextDrop,
       NativeContextCurrent, ImageTypes
  <2>5. ViewTypes'
    BY <1>2 DEF NativeContextOf, NativeContextClone, NativeContextDrop,
       NativeContextCurrent, ViewTypes
  <2>6. WaitTypes'
    BY <1>2 DEF NativeContextOf, NativeContextClone, NativeContextDrop,
       NativeContextCurrent, WaitTypes
  <2> QED BY <2>1, <2>2, <2>3, <2>4, <2>5, <2>6
<1>3. CASE \E g \in Contexts : CreateContextFromNative(c, g)
  <2>1. ContextTypes'
    BY <1>3 DEF CreateContextFromNative, ContextTypes
  <2>2. GlTypes'
    BY <1>3 DEF CreateContextFromNative, GlTypes
  <2>3. SurfaceTypes'
    BY <1>3 DEF CreateContextFromNative, SurfaceTypes
  <2>4. ImageTypes'
    BY <1>3 DEF CreateContextFromNative, ImageTypes
  <2>5. ViewTypes'
    BY <1>3 DEF CreateContextFromNative, ViewTypes
  <2>6. WaitTypes'
    BY <1>3 DEF CreateContextFromNative, WaitTypes
  <2> QED BY <2>1, <2>2, <2>3, <2>4, <2>5, <2>6
<1>4. CASE DestroyContext(c)
  <2>1. ContextTypes'
    BY <1>4 DEF DestroyContext, DeleteObjects, DropView, ContextTypes
  <2>2. GlTypes'
    <3>1. DeleteObjects(framebuffer[c]) \/ UNCHANGED glVars
      BY <1>4 DEF DestroyContext
    <3> QED BY <3>1, DeleteTypes, Zenon DEF GlTypes
  <2>3. SurfaceTypes'
    BY <1>4 DEF DestroyContext, DeleteObjects, DropView, SurfaceTypes
  <2>4. ImageTypes'
    BY <1>4 DEF DestroyContext, DeleteObjects, DropView, ImageTypes
  <2>5. ViewTypes'
    <3>1. \/ framebuffer[c] \in Surfaces /\ DropView(framebuffer[c])
          \/ UNCHANGED viewVars
      BY <1>4 DEF DestroyContext, ContextTypes
    <3> QED BY <1>4, <3>1, DropTypes DEF DestroyContext, ViewTypes
  <2>6. WaitTypes'
    BY <1>4 DEF DestroyContext, DeleteObjects, DropView, WaitTypes
  <2> QED BY <2>1, <2>2, <2>3, <2>4, <2>5, <2>6
<1>5. CASE UnbindSurface(c)
  <2>1. ContextTypes'
    BY <1>5 DEF UnbindSurface, Unbound, ContextTypes
  <2>2. GlTypes'
    BY <1>5 DEF UnbindSurface, Unbound, GlTypes
  <2>3. SurfaceTypes'
    BY <1>5 DEF UnbindSurface, Unbound, SurfaceTypes
  <2>4. ImageTypes'
    BY <1>5 DEF UnbindSurface, Unbound, ImageTypes
  <2>5. ViewTypes'
    BY <1>5 DEF UnbindSurface, Unbound, ViewTypes
  <2>6. WaitTypes'
    BY <1>5 DEF UnbindSurface, Unbound, WaitTypes
  <2> QED BY <2>1, <2>2, <2>3, <2>4, <2>5, <2>6
<1>6. CASE Draw(c)
  <2>1. ContextTypes'
    BY <1>6 DEF Draw, ContextTypes
  <2>2. GlTypes'
    BY <1>6 DEF Draw, GlTypes, ContextTypes
  <2>3. SurfaceTypes'
    BY <1>6 DEF Draw, SurfaceTypes
  <2>4. ImageTypes'
    BY <1>6 DEF Draw, ImageTypes
  <2>5. ViewTypes'
    BY <1>6 DEF Draw, ViewTypes
  <2>6. WaitTypes'
    BY <1>6 DEF Draw, WaitTypes
  <2> QED BY <2>1, <2>2, <2>3, <2>4, <2>5, <2>6
<1>7. CASE PresentBoundSurface(c) \/ ResizeBoundSurface(c)
  <2>1. CASE framebuffer[c] \in Surfaces
    BY <1>7, <2>1, PresentTypes, ResizeTypes DEF PresentBoundSurface, ResizeBoundSurface
  <2>2. CASE framebuffer[c] \notin Surfaces
    BY <1>7, <2>2 DEF PresentBoundSurface, ResizeBoundSurface, ContextTypes, GlTypes,
       SurfaceTypes, ImageTypes, ViewTypes,
     WaitTypes
  <2> QED BY <2>1, <2>2
<1> QED BY <1>1, <1>2, <1>3, <1>4, <1>5, <1>6, <1>7 DEF OnContext

LEMMA SurfaceCallTypes ==
    ASSUME Types, NEW c \in Contexts, NEW s \in Surfaces, OnSurface(c, s)
    PROVE  Types'
<1> USE DistinctAssumption
<1> USE DEF contextVars, glVars, surfaceVars, imageVars, viewVars, Keep, Types
<1>1. CASE CreateSurface(c, s)
  <2>1. ContextTypes'
    BY <1>1 DEF CreateSurface, ContextTypes
  <2>2. GlTypes'
    <3>1. CASE UNCHANGED glTexture
      BY <1>1, <3>1 DEF CreateSurface, BindingRestored, GlTypes
    <3>2. CASE \E g \in Contexts, n \in Names :
                  glTexture' = [glTexture EXCEPT ![g][n] = <<s, 0>>]
      <4>1. <<s, 0>> \in Images
        BY DEF Images, IOSurfaces
      <4> QED BY <1>1, <3>2, <4>1, TextureTypes DEF CreateSurface, BindingRestored, GlTypes
    <3> QED BY <1>1, <3>1, <3>2 DEF CreateSurface, ActsOn, FreeNames, ContextTypes
  <2>3. SurfaceTypes'
    <3>1. name' \in [Surfaces -> Names \cup {NoName}]
      BY <1>1 DEF CreateSurface, FreeNames, SurfaceTypes
    <3>2. widget' \subseteq Surfaces
      BY <1>1 DEF CreateSurface, SurfaceTypes
    <3> QED BY <1>1, <3>1, <3>2 DEF CreateSurface, SurfaceTypes
  <2>4. ImageTypes'
    <3>1. 0 \in IOSurfaces /\ 1 \in IOSurfaces
      BY DEF IOSurfaces
    <3> QED BY <1>1, <3>1 DEF CreateSurface, ImageTypes
  <2>5. ViewTypes'
    <3>1. NewView(s) \/ UNCHANGED viewVars
      BY <1>1 DEF CreateSurface
    <3>2. link' \in [Surfaces -> BOOLEAN]
      BY <3>1 DEF NewView, Started, ViewTypes
    <3>3. arcs' \in [Surfaces -> 0..2]
      BY <3>1 DEF NewView, ViewTypes
    <3> QED BY <1>1, <3>1, <3>2, <3>3 DEF CreateSurface, NewView, ViewTypes
  <2>6. WaitTypes'
    BY <1>1 DEF CreateSurface, WaitTypes
  <2> QED BY <2>1, <2>2, <2>3, <2>4, <2>5, <2>6
<1>2. CASE DestroySurface(c, s)
  <2>1. ContextTypes'
    BY <1>2 DEF DestroySurface, ContextTypes
  <2>2. GlTypes'
    BY <1>2, DeleteTypes DEF DestroySurface, GlTypes
  <2>3. SurfaceTypes'
    BY <1>2 DEF DestroySurface, SurfaceTypes
  <2>4. ImageTypes'
    BY <1>2 DEF DestroySurface, ImageTypes
  <2>5. ViewTypes'
    BY <1>2 DEF DestroySurface, ViewTypes
  <2>6. WaitTypes'
    BY <1>2 DEF DestroySurface, WaitTypes
  <2> QED BY <2>1, <2>2, <2>3, <2>4, <2>5, <2>6
<1>3. CASE BindSurface(c, s)
  <2>1. ContextTypes'
    BY <1>3 DEF BindSurface, ContextTypes
  <2>2. GlTypes'
    BY <1>3 DEF BindSurface, GlTypes
  <2>3. SurfaceTypes'
    BY <1>3 DEF BindSurface, SurfaceTypes
  <2>4. ImageTypes'
    BY <1>3 DEF BindSurface, ImageTypes
  <2>5. ViewTypes'
    BY <1>3 DEF BindSurface, ViewTypes
  <2>6. WaitTypes'
    BY <1>3 DEF BindSurface, WaitTypes
  <2> QED BY <2>1, <2>2, <2>3, <2>4, <2>5, <2>6
<1>4. CASE PresentSurface(c, s) \/ ResizeSurface(c, s)
  <2>1. CASE PresentBegins(s) \/ (MayCall(c) /\ Resize(c, s))
    BY <2>1, PresentTypes, ResizeTypes, Zenon
  <2>2. CASE result' = "err" /\ UNCHANGED <<current, Keep>>
    BY <2>2 DEF ContextTypes, GlTypes, SurfaceTypes, ImageTypes, ViewTypes, WaitTypes
  <2>3. \/ PresentBegins(s) \/ (MayCall(c) /\ Resize(c, s))
        \/ result' = "err" /\ UNCHANGED <<current, Keep>>
    <3> HIDE DEF Keep
    <3>1. CASE PresentSurface(c, s)
      <4>1. PresentBegins(s)
        BY <3>1 DEF PresentSurface
      <4> QED BY <4>1
    <3>2. CASE ResizeSurface(c, s)
      BY <3>2, Zenon DEF ResizeSurface
    <3> QED BY <1>4, <3>1, <3>2
  <2> QED BY <2>1, <2>2, <2>3
<1>5. CASE CreateSurfaceTexture(c, s)
  <2>1. ContextTypes'
    BY <1>5 DEF CreateSurfaceTexture, ContextTypes
  <2>2. GlTypes'
    <3>1. CASE UNCHANGED glTexture
      BY <1>5, <3>1 DEF CreateSurfaceTexture, GlTypes
    <3>2. CASE \E g \in Contexts, n \in Names :
                  glTexture' = [glTexture EXCEPT ![g][n] = <<s, back[s]>>]
      <4>1. <<s, back[s]>> \in Images
        BY DEF Images, ImageTypes
      <4> QED BY <1>5, <3>2, <4>1, TextureTypes DEF CreateSurfaceTexture, GlTypes
    <3> QED BY <1>5, <3>1, <3>2 DEF CreateSurfaceTexture, FreeNames, ContextTypes
  <2>3. SurfaceTypes'
    <3>1. \/ \E n \in Names : reader' = [reader EXCEPT ![s] = [cgl |-> cgl[c], name |-> n]]
          \/ UNCHANGED reader
      BY <1>5 DEF CreateSurfaceTexture, FreeNames
    <3>2. reader' \in [Surfaces -> [cgl : Contexts, name : Names] \cup {NoReader}]
      BY <3>1 DEF SurfaceTypes, ContextTypes
    <3> QED BY <1>5, <3>2 DEF CreateSurfaceTexture, SurfaceTypes
  <2>4. ImageTypes'
    BY <1>5 DEF CreateSurfaceTexture, ImageTypes
  <2>5. ViewTypes'
    BY <1>5 DEF CreateSurfaceTexture, ViewTypes
  <2>6. WaitTypes'
    BY <1>5 DEF CreateSurfaceTexture, WaitTypes
  <2> QED BY <2>1, <2>2, <2>3, <2>4, <2>5, <2>6
<1>6. CASE DestroySurfaceTexture(c, s)
  <2>1. ContextTypes'
    BY <1>6 DEF DestroySurfaceTexture, ContextTypes
  <2>2. GlTypes'
    <3>1. [glTexture EXCEPT ![current][reader[s].name] = NoImage] \in
             [Contexts -> [Names -> Images \cup {NoImage}]]
      BY TextureTypes, Zenon
    <3> QED BY <1>6, <3>1 DEF DestroySurfaceTexture, GlTypes
  <2>3. SurfaceTypes'
    BY <1>6 DEF DestroySurfaceTexture, SurfaceTypes
  <2>4. ImageTypes'
    BY <1>6 DEF DestroySurfaceTexture, ImageTypes
  <2>5. ViewTypes'
    BY <1>6 DEF DestroySurfaceTexture, ViewTypes
  <2>6. WaitTypes'
    BY <1>6 DEF DestroySurfaceTexture, WaitTypes
  <2> QED BY <2>1, <2>2, <2>3, <2>4, <2>5, <2>6
<1> QED BY <1>1, <1>2, <1>3, <1>4, <1>5, <1>6 DEF OnSurface

LEMMA TypesStep ==
    ASSUME Types, [Next]_vars
    PROVE  Types'
<1> USE DistinctAssumption
<1> USE DEF contextVars, glVars, surfaceVars, imageVars, viewVars, Keep, Types
<1>1. CASE MakeNoContextCurrent \/ UNCHANGED vars
  <2>1. ContextTypes'
    BY <1>1 DEF MakeNoContextCurrent, vars, ContextTypes
  <2>2. GlTypes'
    BY <1>1 DEF MakeNoContextCurrent, vars, GlTypes
  <2>3. SurfaceTypes'
    BY <1>1 DEF MakeNoContextCurrent, vars, SurfaceTypes
  <2>4. ImageTypes'
    BY <1>1 DEF MakeNoContextCurrent, vars, ImageTypes
  <2>5. ViewTypes'
    BY <1>1 DEF MakeNoContextCurrent, vars, ViewTypes
  <2>6. WaitTypes'
    BY <1>1 DEF MakeNoContextCurrent, vars, WaitTypes
  <2> QED BY <2>1, <2>2, <2>3, <2>4, <2>5, <2>6
<1>2. CASE PresentEnds
  <2>1. ContextTypes'
    BY <1>2 DEF PresentEnds, ContextTypes
  <2>2. GlTypes'
    <3>1. CASE Rebound(waiting.surface)
      <4>1. waiting.surface \in Surfaces
        BY <1>2 DEF PresentEnds, WaitTypes
      <4>2. <<waiting.surface, back[waiting.surface]>> \in Images
        BY <4>1 DEF Images, ImageTypes
      <4>3. glTexture' \in [Contexts -> [Names -> Images \cup {NoImage}]]
        BY <3>1, <4>2, TextureTypes DEF Rebound
      <4> QED BY <1>2, <4>3 DEF PresentEnds, GlTypes
    <3> QED BY <1>2, <3>1 DEF PresentEnds, GlTypes
  <2>3. SurfaceTypes'
    BY <1>2 DEF PresentEnds, SurfaceTypes
  <2>4. ImageTypes'
    BY <1>2 DEF PresentEnds, ImageTypes
  <2>5. ViewTypes'
    BY <1>2 DEF PresentEnds, ViewTypes
  <2>6. WaitTypes'
    BY <1>2 DEF PresentEnds, WaitTypes
  <2> QED BY <2>1, <2>2, <2>3, <2>4, <2>5, <2>6
<1>3. ASSUME NEW s \in Surfaces, CallbackBegins(s) \/ CallbackEnds(s)
      PROVE  Types'
  <2>1. ContextTypes'
    BY <1>3 DEF CallbackBegins, CallbackEnds, Forgotten, ContextTypes
  <2>2. GlTypes'
    BY <1>3 DEF CallbackBegins, CallbackEnds, Forgotten, GlTypes
  <2>3. SurfaceTypes'
    BY <1>3 DEF CallbackBegins, CallbackEnds, Forgotten, SurfaceTypes
  <2>4. ImageTypes'
    BY <1>3 DEF CallbackBegins, CallbackEnds, Forgotten, ImageTypes
  <2>5. ViewTypes'
    BY <1>3 DEF CallbackBegins, CallbackEnds, Forgotten, ViewTypes
  <2>6. WaitTypes'
    <3>1. \/ UNCHANGED waiting
          \/ waiting.surface = s /\ waiting' = [waiting EXCEPT !.over = TRUE]
      BY <1>3 DEF CallbackBegins, CallbackEnds
    <3> QED BY <3>1 DEF WaitTypes, Nobody
  <2> QED BY <2>1, <2>2, <2>3, <2>4, <2>5, <2>6
<1>4. ASSUME NEW s \in Surfaces, DropSurface(s)
      PROVE  Types'
  <2>1. ContextTypes'
    BY <1>4 DEF DropSurface, ContextTypes
  <2>2. GlTypes'
    BY <1>4 DEF DropSurface, GlTypes
  <2>3. SurfaceTypes'
    BY <1>4 DEF DropSurface, SurfaceTypes
  <2>4. ImageTypes'
    BY <1>4 DEF DropSurface, ImageTypes
  <2>5. ViewTypes'
    BY <1>4, DropTypes DEF DropSurface, ViewTypes
  <2>6. WaitTypes'
    BY <1>4 DEF DropSurface, WaitTypes
  <2> QED BY <2>1, <2>2, <2>3, <2>4, <2>5, <2>6
<1> QED
  BY <1>1, <1>2, <1>3, <1>4, ContextCallTypes, SurfaceCallTypes
  DEF Next, PresentWakes, PresentWakesEarly

-----------------------------------------------------------------------------
(* References and types, as theorems. *)

LEMMA TypeOKIs ==
    TypeOK <=> Types /\ refs \in [Contexts -> 0..(MaxNatives + Cardinality(Contexts))]
BY DEF TypeOK, Types, ContextTypes, GlTypes, SurfaceTypes, ImageTypes, ViewTypes, WaitTypes

\* A reference count is that of the NativeContexts and Contexts there are.
LEMMA RefsBound ==
    ASSUME IsFiniteSet(Contexts), Types, RefsMatchHandles, refs \in [Contexts -> Nat]
    PROVE  TypeOK
<1>1. \A g \in Contexts : refs[g] \in 0..(MaxNatives + Cardinality(Contexts))
  <2>1. TAKE g \in Contexts
  <2>2. /\ Cardinality(Holders(g)) \in Nat
        /\ Cardinality(Holders(g)) <= Cardinality(Contexts)
    BY HoldersCount
  <2>3. refs[g] + borrowed[g] = natives[g] + Cardinality(Holders(g))
    BY RefsAre
  <2>4. natives[g] \in 0..MaxNatives /\ MaxNatives \in Nat /\ borrowed[g] \in Nat
    BY MaxNativesAssumption, MaxBorrowedAssumption DEF Types, ContextTypes
  <2>5. Cardinality(Contexts) \in Nat
    BY FS_CardinalityType
  <2> QED BY <2>2, <2>3, <2>4, <2>5
<1> QED BY <1>1, TypeOKIs

LEMMA RefsAreNaturals ==
    ASSUME TypeOK, [Next]_vars
    PROVE  refs' \in [Contexts -> Nat]
<1>1. refs \in [Contexts -> Nat]
  BY DEF TypeOK
<1>2. CASE ~Counts
  BY <1>1, <1>2, OthersKeepCounts
<1>3. CASE Counts
  <2>1. \/ UNCHANGED refs
        \/ \E g \in Contexts : Retain(g) \/ (refs[g] > 0 /\ Release(g))
    BY <1>3 DEF Counts, CreateContext, NativeContextOf, NativeContextClone, Exists,
       NativeContextDrop, NativeContextCurrent, DestroyContext, CreateContextFromNative,
       MayCall, TypeOK
  <2> QED BY <1>1, <2>1 DEF Retain, Release
<1> QED BY <1>2, <1>3

\* A reference count depends on the types, and its bound on the reference counts.
LEMMA RefsInvariant ==
    ASSUME IsFiniteSet(Contexts)
    PROVE  Spec => [](TypeOK /\ AbsentInv /\ RefsMatchHandles)
<1>1. Init => TypeOK /\ AbsentInv /\ RefsMatchHandles
  <2>1. ASSUME Init PROVE TypeOK /\ AbsentInv /\ RefsMatchHandles
    <3>1. Types
      <4>0. 0 \in IOSurfaces
        BY DEF IOSurfaces
      <4>1. ContextTypes
        BY <2>1, MaxNativesAssumption, MaxBorrowedAssumption DEF Init, ContextTypes
      <4>2. GlTypes /\ SurfaceTypes
        BY <2>1 DEF Init, GlTypes, SurfaceTypes
      <4>3. ImageTypes
        BY <2>1, <4>0 DEF Init, ImageTypes
      <4>5. WaitTypes
        BY <2>1 DEF Init, WaitTypes
      <4>4. ViewTypes
        BY <2>1 DEF Init, ViewTypes
      <4> QED BY <4>1, <4>2, <4>3, <4>4, <4>5 DEF Types
    <3>2. AbsentInv
      BY <2>1 DEF Init, AbsentInv
    <3>3. RefsMatchHandles
      <4>1. \A g \in Contexts : Holders(g) = {}
        BY <2>1 DEF Init, Holders
      <4> QED BY <2>1, <4>1, FS_EmptySet, RefsAre DEF Init
    <3>4. refs \in [Contexts -> Nat]
      BY <2>1 DEF Init
    <3> QED BY <3>1, <3>2, <3>3, <3>4, RefsBound
  <2> QED BY <2>1
<1>2. TypeOK /\ AbsentInv /\ RefsMatchHandles /\ [Next]_vars
        => (TypeOK /\ AbsentInv /\ RefsMatchHandles)'
  <2>1. ASSUME TypeOK, AbsentInv, RefsMatchHandles, [Next]_vars
        PROVE  (TypeOK /\ AbsentInv /\ RefsMatchHandles)'
    <3>1. AbsentInv' /\ RefsMatchHandles'
      BY <2>1, RefsStep
    <3>2. Types'
      BY <2>1, TypeOKIs, TypesStep
    <3>3. refs' \in [Contexts -> Nat]
      BY <2>1, RefsAreNaturals
    <3>4. (IsFiniteSet(Contexts) /\ Types /\ RefsMatchHandles /\ refs \in [Contexts -> Nat]
             => TypeOK)'
      BY RefsBound, PTL
    <3> QED BY <3>1, <3>2, <3>3, <3>4
  <2> QED BY <2>1
<1> QED BY <1>1, <1>2, PTL DEF Spec

\* Every variable keeps its type, whatever fails and however contexts, surfaces and
\* NativeContexts are made of one another (cgl/device.rs, cgl/context.rs).
THEOREM TypeCorrect ==
    ASSUME IsFiniteSet(Contexts)
    PROVE  Spec => []TypeOK
BY RefsInvariant, PTL

\* The reference count of a CGL context is the number of Contexts and NativeContexts
\* that hold it, less the references that NativeContext::current did not take
\* (cgl/context.rs:126) and with those of contexts that create_context gave up, for any
\* faults and misuse: CGLRetainContext and CGLReleaseContext are in balance otherwise.
THEOREM ReferencesMatch ==
    ASSUME IsFiniteSet(Contexts)
    PROVE  Spec => []RefsMatchHandles
BY RefsInvariant, PTL

-----------------------------------------------------------------------------
(* The references to the condition variable that a display link's callbacks signal. *)

LEMMA CallbackStep ==
    ASSUME Types, CondCounted, [Next]_vars
    PROVE  CondCounted'
<1> USE DEF Types, ViewTypes
<1>1. CASE UNCHANGED viewVars
  BY <1>1 DEF viewVars, CondCounted
<1>2. ASSUME NEW s \in Surfaces, NewView(s) PROVE CondCounted'
  BY <1>2 DEF NewView, Started, CondCounted
<1>3. ASSUME NEW s \in Surfaces, DropView(s) PROVE CondCounted'
  BY <1>3 DEF DropView, CondCounted
<1>4. ASSUME NEW s \in Surfaces, CallbackBegins(s) \/ CallbackEnds(s)
      PROVE  CondCounted'
  BY <1>4 DEF CallbackBegins, CallbackEnds, Forgotten, CondCounted
<1>5. ASSUME NEW c \in Contexts, OnContext(c) PROVE CondCounted'
  <2>1. UNCHANGED viewVars \/ \E s \in Surfaces : DropView(s)
    BY <1>5 DEF OnContext, CreateContext, MakeContextCurrent, NativeContextOf,
       NativeContextClone, NativeContextDrop, NativeContextCurrent,
       CreateContextFromNative, DestroyContext, UnbindSurface, Draw, PresentBoundSurface,
       PresentBegins, ResizeBoundSurface, Resize, NativeVars, Keep, ContextTypes
  <2> QED BY <2>1, <1>1, <1>3
<1>6. ASSUME NEW c \in Contexts, NEW s \in Surfaces, OnSurface(c, s)
      PROVE  CondCounted'
  <2>1. UNCHANGED viewVars \/ NewView(s)
    BY <1>6 DEF OnSurface, CreateSurface, DestroySurface, BindSurface, PresentSurface,
       PresentBegins, ResizeSurface, Resize, CreateSurfaceTexture, DestroySurfaceTexture,
       Keep
  <2> QED BY <2>1, <1>1, <1>2
<1>7. ASSUME NEW s \in Surfaces, DropSurface(s) PROVE CondCounted'
  BY <1>7, <1>1, <1>3 DEF DropSurface
<1>8. CASE MakeNoContextCurrent \/ PresentEnds \/ UNCHANGED vars
  BY <1>8, <1>1 DEF MakeNoContextCurrent, PresentEnds, Keep, vars, viewVars
<1> QED
  BY <1>4, <1>5, <1>6, <1>7, <1>8 DEF Next, PresentWakes, PresentWakesEarly

\* Each callback makes an Arc of the pointer it was given and forgets it
\* (io_surface/surface.rs:532): however many run, the condition variable keeps its two
\* references as long as the display link runs, and loses both with the view, whatever
\* fails.
THEOREM ConditionIsCounted ==
    ASSUME IsFiniteSet(Contexts)
    PROVE  Spec => []CondCounted
<1>1. Init => CondCounted
  BY DEF Init, CondCounted
<1>2. TypeOK /\ CondCounted /\ [Next]_vars => CondCounted'
  BY TypeOKIs, CallbackStep
<1>3. Spec => []TypeOK
  BY RefsInvariant, PTL
<1> QED BY <1>1, <1>2, <1>3, PTL DEF Spec

-----------------------------------------------------------------------------
(* What is drawn to and what is shown. *)

\* No method is called while another context is current than it is given, and every
\* context can be made current.
Careful == Misuse = {} /\ "make_current" \notin Faults

\* What the texture of a surface shows: while its presentation waits, still what was
\* its back buffer before the swap.
Target(s) == <<s, IF waiting.surface = s THEN front[s] ELSE back[s]>>

NameOf(s) ==
    Alive(s) =>
        /\ creator[s] \in Contexts /\ status[creator[s]] # "Absent" /\ name[s] \in Names
        /\ glTexture[cgl[creator[s]]][name[s]] = Target(s)

ReaderOf(s) ==
    place[s] = "texture" =>
        /\ s \notin widget
        /\ reader[s] \in [cgl : Contexts, name : Names]
        /\ glTexture[reader[s].cgl][reader[s].name] = <<s, back[s]>>
        /\ reader[s].cgl # cgl[creator[s]] \/ reader[s].name # name[s]

NamesInv == \A s \in Surfaces : NameOf(s)
ReaderInv == \A s \in Surfaces : ReaderOf(s)

\* Only a surface with a view is waited for, with its context current.
WaitInv ==
    waiting # Nobody =>
        /\ waiting.surface \in widget /\ place[waiting.surface] \in {"free", "bound"}
        /\ current = cgl[creator[waiting.surface]]

ImagesInv ==
    /\ ~open
    /\ \A s \in widget : Alive(s) => back[s] # front[s] /\ back[s] # shown[s]

FboInv ==
    \A g \in Contexts, s \in Surfaces : fbo[g] = s =>
        \E c \in Contexts : cgl[c] = g /\ framebuffer[c] = s

Safe == BindInv /\ NamesInv /\ ReaderInv /\ WaitInv /\ ImagesInv /\ FboInv

LEMMA SafeImplies ==
    ASSUME Types, Safe
    PROVE  TextureShowsBack /\ ShownIsNotDrawn
<1>1. TextureShowsBack
  BY DEF Safe, NamesInv, NameOf, ReaderInv, ReaderOf, Target, TextureShowsBack
<1>2. ASSUME NEW s \in widget, Alive(s)
      PROVE  /\ shown[s] # back[s]
             /\ waiting.surface # s /\ status[creator[s]] = "Live" =>
                   glTexture[cgl[creator[s]]][name[s]] # <<s, shown[s]>>
  BY <1>2 DEF Safe, ImagesInv, NamesInv, NameOf, Target, Types, SurfaceTypes
<1> QED BY <1>1, <1>2 DEF Safe, FboInv, ShownIsNotDrawn

\* The calls that are careful act on the context they are given.
LEMMA CarefulCalls ==
    ASSUME Careful, Types
    PROVE  /\ ~MayFailMakeCurrent
           /\ \A c \in Contexts : (Here(c) <=> current = cgl[c]) /\ ActsOn(c) = {cgl[c]}
BY DEF Careful, MayFailMakeCurrent, Here, ActsOn

LEMMA BindStep ==
    ASSUME Careful, Types, BindInv, [Next]_vars
    PROVE  BindInv'
<1> USE CarefulCalls, DistinctAssumption DEF Types, ContextTypes, SurfaceTypes, BindInv
<1>1. ASSUME NEW c \in Contexts, OnContext(c) PROVE BindInv'
  <2> USE DEF Keep, contextVars, surfaceVars
  <2>1. CASE CreateContext(c)
    BY <2>1 DEF CreateContext
  <2>2. CASE \E g \in Contexts : CreateContextFromNative(c, g)
    BY <2>2 DEF CreateContextFromNative
  <2>3. CASE DestroyContext(c)
    BY <2>3 DEF DestroyContext
  <2>4. CASE UnbindSurface(c)
    BY <2>4 DEF UnbindSurface
  <2>5. CASE \/ NativeContextOf(c) \/ NativeContextClone(c)
           \/ NativeContextDrop(c) \/ NativeContextCurrent(c)
    BY <2>5 DEF NativeContextOf, NativeContextClone, NativeContextDrop,
       NativeContextCurrent, NativeVars
  <2>6. CASE MakeContextCurrent(c) \/ Draw(c) \/ PresentBoundSurface(c) \/ ResizeBoundSurface(c)
    BY <2>6 DEF MakeContextCurrent, Draw, PresentBoundSurface, PresentBegins,
       ResizeBoundSurface, Resize
  <2> QED BY <1>1, <2>1, <2>2, <2>3, <2>4, <2>5, <2>6 DEF OnContext
<1>2. ASSUME NEW c \in Contexts, NEW s \in Surfaces, OnSurface(c, s) PROVE BindInv'
  <2> USE DEF Keep, contextVars, surfaceVars
  <2>1. CASE CreateSurface(c, s)
    BY <2>1 DEF CreateSurface
  <2>2. CASE DestroySurface(c, s)
    BY <2>2 DEF DestroySurface
  <2>3. CASE BindSurface(c, s)
    BY <2>3 DEF BindSurface, MayCall
  <2>4. CASE PresentSurface(c, s) \/ ResizeSurface(c, s)
    BY <2>4 DEF PresentSurface, PresentBegins, ResizeSurface, Resize
  <2>5. CASE CreateSurfaceTexture(c, s) \/ DestroySurfaceTexture(c, s)
    BY <2>5 DEF CreateSurfaceTexture, DestroySurfaceTexture
  <2> QED BY <1>2, <2>1, <2>2, <2>3, <2>4, <2>5 DEF OnSurface
<1>3. ASSUME NEW s \in Surfaces, CallbackBegins(s) \/ CallbackEnds(s) \/ DropSurface(s)
      PROVE  BindInv'
  BY <1>3 DEF CallbackBegins, CallbackEnds, DropSurface, contextVars, surfaceVars
<1>4. CASE MakeNoContextCurrent \/ PresentEnds \/ UNCHANGED vars
  BY <1>4 DEF MakeNoContextCurrent, PresentEnds, Keep, vars, contextVars, surfaceVars
<1> QED BY <1>1, <1>2, <1>3, <1>4 DEF Next, PresentWakes, PresentWakesEarly

LEMMA BoundOnce ==
    ASSUME ContextTypes, BindInv, NEW c \in Contexts, framebuffer[c] # NoSurface,
           NEW d \in Contexts \ {c}
    PROVE  framebuffer[d] # framebuffer[c]
<1> SUFFICES ASSUME framebuffer[d] = framebuffer[c]
            PROVE  FALSE
  OBVIOUS
<1>1. creator[framebuffer[c]] = c
  BY DEF BindInv
<1>2. creator[framebuffer[d]] = d
  BY DEF BindInv
<1> QED BY <1>1, <1>2

LEMMA FboStep ==
    ASSUME Careful, Types, AbsentInv, BindInv, FboInv, [Next]_vars
    PROVE  FboInv'
<1> USE CarefulCalls, DistinctAssumption DEF Types, ContextTypes, GlTypes, FboInv
<1>1. ASSUME NEW c \in Contexts, OnContext(c) PROVE FboInv'
  <2> USE DEF Keep, contextVars, glVars
  <2>1. CASE CreateContext(c)
    BY <2>1 DEF CreateContext
  <2>2. CASE \E g \in Contexts : CreateContextFromNative(c, g)
    <3>1. framebuffer[c] = NoSurface
      BY <2>2 DEF CreateContextFromNative, BindInv
    <3> QED BY <2>2, <3>1 DEF CreateContextFromNative
  <2>3. CASE DestroyContext(c)
    <3>1. CASE framebuffer[c] = NoSurface
      BY <2>3, <3>1 DEF DestroyContext
    <3>2. CASE framebuffer[c] # NoSurface
      <4>1. \A d \in Contexts \ {c} : framebuffer[d] # framebuffer[c]
        BY <3>2, BoundOnce
      <4>2. /\ framebuffer' = [framebuffer EXCEPT ![c] = NoSurface] /\ UNCHANGED cgl
            /\ fbo' = [fbo EXCEPT ![cgl[c]] = IF @ = framebuffer[c] THEN NoSurface ELSE @]
        BY <2>3, <3>2 DEF DestroyContext, DeleteObjects
      <4> QED BY <4>1, <4>2
    <3> QED BY <3>1, <3>2
  <2>4. CASE UnbindSurface(c)
    <3>1. CASE framebuffer[c] = NoSurface
      BY <2>4, <3>1 DEF UnbindSurface
    <3>2. CASE framebuffer[c] # NoSurface
      <4>1. \A d \in Contexts \ {c} : framebuffer[d] # framebuffer[c]
        BY <3>2, BoundOnce
      <4>2. /\ framebuffer' = [framebuffer EXCEPT ![c] = NoSurface] /\ UNCHANGED cgl
            /\ fbo' = [fbo EXCEPT ![cgl[c]] = IF @ = framebuffer[c] THEN NoSurface ELSE @]
        BY <2>4, <3>2 DEF UnbindSurface, Unbound
      <4> QED BY <4>1, <4>2
    <3> QED BY <3>1, <3>2
  <2>5. CASE Draw(c)
    BY <2>5 DEF Draw
  <2>6. CASE \/ NativeContextOf(c) \/ NativeContextClone(c)
           \/ NativeContextDrop(c) \/ NativeContextCurrent(c)
    BY <2>6 DEF NativeContextOf, NativeContextClone, NativeContextDrop,
       NativeContextCurrent, NativeVars
  <2>7. CASE MakeContextCurrent(c) \/ PresentBoundSurface(c) \/ ResizeBoundSurface(c)
    BY <2>7 DEF MakeContextCurrent, PresentBoundSurface, PresentBegins,
       ResizeBoundSurface, Resize, BindingRestored
  <2> QED BY <1>1, <2>1, <2>2, <2>3, <2>4, <2>5, <2>6, <2>7 DEF OnContext
<1>2. ASSUME NEW c \in Contexts, NEW s \in Surfaces, OnSurface(c, s) PROVE FboInv'
  <2> USE DEF Keep, contextVars, glVars
  <2>1. CASE CreateSurface(c, s)
    BY <2>1 DEF CreateSurface, BindingRestored
  <2>2. CASE DestroySurface(c, s)
    BY <2>2 DEF DestroySurface, DeleteObjects, BindInv
  <2>3. CASE BindSurface(c, s)
    BY <2>3 DEF BindSurface
  <2>4. CASE PresentSurface(c, s) \/ ResizeSurface(c, s)
    BY <2>4 DEF PresentSurface, PresentBegins, ResizeSurface, Resize, BindingRestored
  <2>5. CASE CreateSurfaceTexture(c, s) \/ DestroySurfaceTexture(c, s)
    BY <2>5 DEF CreateSurfaceTexture, DestroySurfaceTexture
  <2> QED BY <1>2, <2>1, <2>2, <2>3, <2>4, <2>5 DEF OnSurface
<1>3. ASSUME NEW s \in Surfaces, CallbackBegins(s) \/ CallbackEnds(s) \/ DropSurface(s)
      PROVE  FboInv'
  BY <1>3 DEF CallbackBegins, CallbackEnds, DropSurface, contextVars, glVars
<1>4. CASE MakeNoContextCurrent \/ PresentEnds \/ UNCHANGED vars
  BY <1>4 DEF MakeNoContextCurrent, PresentEnds, Keep, vars, contextVars, glVars
<1> QED BY <1>1, <1>2, <1>3, <1>4 DEF Next, PresentWakes, PresentWakesEarly

Pictures == NamesInv /\ ReaderInv /\ ImagesInv

KeepsContexts ==
    \A c \in Contexts : status[c] # "Absent" => status'[c] # "Absent" /\ cgl'[c] = cgl[c]

\* Surface s was not brought to life, nor moved.
KeepsSurface(s) ==
    /\ Alive(s)' => Alive(s) /\ creator'[s] = creator[s] /\ name'[s] = name[s]
    /\ place'[s] = "texture" => place[s] = "texture" /\ reader'[s] = reader[s]
    /\ s \in widget' <=> s \in widget
    /\ back'[s] = back[s] /\ front'[s] = front[s] /\ shown'[s] = shown[s]
    /\ Target(s)' = Target(s)

\* The texture of surface s changes, or goes away; those of others, which show another
\* surface, stay.
KeepsOthers(s) ==
    \A g \in Contexts, m \in Names, x \in Surfaces \ {s}, i \in IOSurfaces :
        glTexture[g][m] = <<x, i>> => glTexture'[g][m] = <<x, i>>

LEMMA OthersStay ==
    ASSUME Types, Pictures, NEW s, NEW x \in Surfaces, x # s,
           KeepsContexts, KeepsSurface(x), KeepsOthers(s)
    PROVE  NameOf(x)' /\ ReaderOf(x)'
<1> USE DEF Types, ContextTypes, SurfaceTypes, ImageTypes, Pictures
<1>1. NameOf(x)'
  <2>1. SUFFICES ASSUME Alive(x)'
                 PROVE  /\ creator'[x] \in Contexts /\ status'[creator'[x]] # "Absent"
                        /\ name'[x] \in Names
                        /\ glTexture'[cgl'[creator'[x]]][name'[x]] = Target(x)'
    BY DEF NameOf
  <2>2. /\ creator[x] \in Contexts /\ status[creator[x]] # "Absent" /\ name[x] \in Names
        /\ glTexture[cgl[creator[x]]][name[x]] = Target(x)
        /\ creator'[x] = creator[x] /\ name'[x] = name[x] /\ Target(x)' = Target(x)
    BY <2>1 DEF KeepsSurface, NamesInv, NameOf
  <2>3. status'[creator[x]] # "Absent" /\ cgl'[creator[x]] = cgl[creator[x]]
    BY <2>2 DEF KeepsContexts
  <2>4. \E i \in IOSurfaces : Target(x) = <<x, i>>
    BY DEF Target
  <2>5. cgl[creator[x]] \in Contexts
    BY <2>2
  <2>6. glTexture'[cgl[creator[x]]][name[x]] = Target(x)
    BY <2>2, <2>4, <2>5 DEF KeepsOthers
  <2> QED BY <2>2, <2>3, <2>6
<1>2. ReaderOf(x)'
  <2>1. SUFFICES ASSUME place'[x] = "texture"
                 PROVE  /\ x \notin widget'
                        /\ reader'[x] \in [cgl : Contexts, name : Names]
                        /\ glTexture'[reader'[x].cgl][reader'[x].name] = <<x, back'[x]>>
                        /\ \/ reader'[x].cgl # cgl'[creator'[x]]
                           \/ reader'[x].name # name'[x]
    BY DEF ReaderOf
  <2>2. /\ x \notin widget /\ reader[x] \in [cgl : Contexts, name : Names]
        /\ glTexture[reader[x].cgl][reader[x].name] = <<x, back[x]>>
        /\ reader[x].cgl # cgl[creator[x]] \/ reader[x].name # name[x]
        /\ reader'[x] = reader[x] /\ back'[x] = back[x] /\ x \notin widget'
        /\ creator'[x] = creator[x] /\ name'[x] = name[x]
    BY <2>1 DEF KeepsSurface, ReaderInv, ReaderOf, Alive
  <2>3. creator[x] \in Contexts /\ cgl'[creator[x]] = cgl[creator[x]]
    BY <2>1 DEF KeepsSurface, KeepsContexts, NamesInv, NameOf, Alive
  <2>4. reader[x].cgl \in Contexts /\ reader[x].name \in Names
    BY <2>2
  <2>5. glTexture'[reader[x].cgl][reader[x].name] = <<x, back[x]>>
    BY <2>2, <2>4 DEF KeepsOthers
  <2> QED BY <2>2, <2>3, <2>5
<1> QED BY <1>1, <1>2

\* No surface is brought to life, and no texture changes.
LEMMA SamePictures ==
    ASSUME Types, Types', Pictures, UNCHANGED <<glTexture, open>>, KeepsContexts,
           \A x \in Surfaces : KeepsSurface(x)
    PROVE  Pictures'
<1>1. ASSUME NEW x \in Surfaces PROVE NameOf(x)' /\ ReaderOf(x)'
  <2>1. PICK s : s # x
    <3>1. NoSurface # x
      BY DistinctAssumption
    <3> QED BY <3>1
  <2>2. KeepsOthers(s)
    BY DEF KeepsOthers
  <2> QED BY <2>1, <2>2, OthersStay
<1>2. ImagesInv'
  <2>1. \A x \in widget' : x \in widget /\ x \in Surfaces
    BY DEF KeepsSurface, Types, SurfaceTypes
  <2> QED BY <2>1 DEF KeepsSurface, Pictures, ImagesInv
<1> QED BY <1>1, <1>2 DEF Pictures, NamesInv, ReaderInv

LEMMA PresentPictures ==
    ASSUME Careful, Types, Pictures, NEW s \in Surfaces, waiting = Nobody,
           place[s] \in {"free", "bound"}, PresentBegins(s)
    PROVE  Pictures' /\ WaitInv'
<1> USE CarefulCalls, DistinctAssumption
<1> USE DEF contextVars, glVars, surfaceVars, Types, Alive, Pictures
<1>1. /\ s \in widget /\ current = cgl[creator[s]]
      /\ back' = [back EXCEPT ![s] = front[s]]
      /\ front' = [front EXCEPT ![s] = back[s]]
      /\ shown' = [shown EXCEPT ![s] = back[s]] /\ UNCHANGED open
      /\ waiting' = [surface |-> s, over |-> FALSE]
      /\ UNCHANGED <<contextVars, current, glVars, surfaceVars>>
  BY DEF PresentBegins, Swapped, Careful, ImagesInv
<1>2. NamesInv'
  <2>1. \A x \in Surfaces : Target(x)' = Target(x)
    BY <1>1 DEF Target, Nobody, ImageTypes
  <2> QED BY <1>1, <2>1 DEF NamesInv, NameOf
<1>3. ReaderInv'
  BY <1>1 DEF ReaderInv, ReaderOf, ImageTypes
<1>4. ImagesInv'
  BY <1>1 DEF ImagesInv, ImageTypes, SurfaceTypes
<1>5. WaitInv'
  BY <1>1 DEF WaitInv
<1> QED BY <1>2, <1>3, <1>4, <1>5

LEMMA ResizePictures ==
    ASSUME Careful, Types, Types', Pictures, NEW c \in Contexts, NEW s \in Surfaces,
           waiting = Nobody, place[s] \in {"free", "bound"}, creator[s] = c, Resize(c, s)
    PROVE  Pictures'
<1> USE CarefulCalls, DistinctAssumption
<1> USE DEF contextVars, glVars, surfaceVars, imageVars, Pictures
<1>1. CASE s \notin widget
  <2>1. UNCHANGED <<status, cgl, glTexture, surfaceVars, imageVars, waiting>>
    BY <1>1 DEF Resize, Keep
  <2>2. KeepsContexts /\ \A x \in Surfaces : KeepsSurface(x)
    BY <2>1 DEF KeepsContexts, KeepsSurface, Target, Alive
  <2> QED BY <2>1, <2>2, SamePictures
<1>2. CASE s \in widget
  <2> DEFINE new == IOSurfaces \ {back[s], front[s], shown[s]}
             lo == Least(new)
             hi == Greatest(new)
  <2>1. /\ back[s] \in IOSurfaces /\ front[s] \in IOSurfaces /\ shown[s] \in IOSurfaces
    BY DEF Types, ImageTypes
  <2>2. /\ lo \in IOSurfaces /\ hi \in IOSurfaces
        /\ lo # hi /\ lo # shown[s]
    <3>1. lo \in new /\ hi \in new /\ lo # hi
      BY <2>1, NewImages
    <3> QED BY <3>1
  <2>3. PICK g \in ActsOn(c), n \in Names :
           /\ n \in FreeNames(g)
           /\ glTexture' = [glTexture EXCEPT ![g][n] = <<s, lo>>, ![g][name[s]] = NoImage]
           /\ back' = [back EXCEPT ![s] = lo] /\ front' = [front EXCEPT ![s] = hi]
           /\ name' = [name EXCEPT ![s] = n]
    BY <1>2 DEF Resize, Least, Greatest
  <2>4. UNCHANGED <<status, cgl, place, widget, creator, reader, shown, open, waiting>>
    BY <1>2 DEF Resize
  <2> HIDE DEF new, lo, hi
  <2>5. /\ g = cgl[c] /\ g \in Contexts
        /\ glTexture[g][n] = NoImage
        /\ name[s] \in Names /\ glTexture[g][name[s]] = <<s, back[s]>>
        /\ <<s, back[s]>> # NoImage
    <3>1. g = cgl[c] /\ g \in Contexts
      BY DEF Types, ContextTypes
    <3>2. name[s] \in Names /\ glTexture[cgl[c]][name[s]] = <<s, back[s]>>
      BY DEF NamesInv, NameOf, Target, Nobody, Alive
    <3>3. <<s, back[s]>> # NoImage
      BY <2>1 DEF IOSurfaces
    <3> QED BY <2>3, <3>1, <3>2, <3>3 DEF FreeNames
  <2>6. glTexture'[g][n] = <<s, lo>>
    BY <2>3, <2>5 DEF Types, GlTypes
  <2>7. KeepsContexts /\ KeepsOthers(s)
    <3>1. \A x \in Surfaces, i \in IOSurfaces : <<x, i>> # NoImage
      BY DEF IOSurfaces
    <3> QED BY <2>3, <2>4, <2>5, <3>1 DEF KeepsContexts, KeepsOthers, Types, GlTypes
  <2>8. ASSUME NEW x \in Surfaces, x # s PROVE KeepsSurface(x)
    BY <2>3, <2>4, <2>8 DEF KeepsSurface, Target, Alive, Types, SurfaceTypes, ImageTypes
  <2>9. NameOf(s)'
    <3>1. name'[s] = n /\ Target(s)' = <<s, lo>>
      BY <2>3, <2>4 DEF Target, Nobody, Types, SurfaceTypes, ImageTypes
    <3>2. creator[s] = c /\ status[c] # "Absent"
      BY DEF NamesInv, NameOf, Alive
    <3> QED BY <2>3, <2>4, <2>5, <2>6, <3>1, <3>2 DEF NameOf
  <2>10. ReaderOf(s)'
    BY <2>4 DEF ReaderOf
  <2>11. ImagesInv'
    BY <2>2, <2>3, <2>4 DEF ImagesInv, Alive, Types, ImageTypes, SurfaceTypes
  <2>12. \A x \in Surfaces : NameOf(x)' /\ ReaderOf(x)'
    BY <2>7, <2>8, <2>9, <2>10, OthersStay
  <2> QED BY <2>11, <2>12 DEF NamesInv, ReaderInv
<1> QED BY <1>1, <1>2

\* A free name is taken, or one that showed surface s.
LEMMA OneTexture ==
    ASSUME Types, NEW s \in Surfaces, NEW g \in Contexts, NEW n \in Names,
           \A h \in Contexts, m \in Names :
              h # g \/ m # n => glTexture'[h][m] = glTexture[h][m],
           glTexture[g][n] = NoImage \/ \E i \in IOSurfaces : glTexture[g][n] = <<s, i>>
    PROVE  KeepsOthers(s)
<1> SUFFICES ASSUME NEW h \in Contexts, NEW m \in Names, NEW x \in Surfaces \ {s},
                    NEW i \in IOSurfaces, glTexture[h][m] = <<x, i>>
             PROVE  glTexture'[h][m] = <<x, i>>
  BY DEF KeepsOthers
<1>1. <<x, i>> # NoImage
  BY DistinctAssumption DEF IOSurfaces
<1>2. h # g \/ m # n
  <2>1. \A j \in IOSurfaces : <<x, i>> # <<s, j>>
    OBVIOUS
  <2>2. glTexture[h][m] # glTexture[g][n]
    BY <1>1, <2>1
  <2> QED BY <2>2
<1> QED BY <1>2

LEMMA DestroyPictures ==
    ASSUME Careful, Types, Types', Pictures, NEW c \in Contexts, NEW s \in Surfaces,
           waiting = Nobody, place[s] \in {"free", "bound"}, creator[s] = c,
           current = cgl[c], DeleteObjects(s), ~Alive(s)', KeepsContexts,
           \A x \in Surfaces \ {s} : KeepsSurface(x), UNCHANGED <<imageVars, widget>>
    PROVE  Pictures'
<1>1. KeepsOthers(s)
  <2>1. /\ name[s] \in Names /\ cgl[c] \in Contexts
        /\ glTexture[cgl[c]][name[s]] = <<s, back[s]>> /\ back[s] \in IOSurfaces
    BY DistinctAssumption DEF Pictures, NamesInv, NameOf, Target, Nobody, Alive, Types,
       ContextTypes, ImageTypes
  <2>2. glTexture' = [glTexture EXCEPT ![cgl[c]][name[s]] = NoImage]
    BY <2>1, DistinctAssumption DEF DeleteObjects
  <2>3. \A h \in Contexts, m \in Names :
           h # cgl[c] \/ m # name[s] => glTexture'[h][m] = glTexture[h][m]
    BY <2>1, <2>2 DEF Types, GlTypes
  <2> QED BY <2>1, <2>3, OneTexture
<1>2. \A x \in Surfaces \ {s} : NameOf(x)' /\ ReaderOf(x)'
  BY <1>1, OthersStay
<1>3. NameOf(s)' /\ ReaderOf(s)'
  BY DEF NameOf, ReaderOf, Alive
<1>4. ImagesInv'
  BY DEF imageVars, Pictures, ImagesInv, KeepsSurface, Types, SurfaceTypes
<1> QED BY <1>2, <1>3, <1>4 DEF Pictures, NamesInv, ReaderInv

LEMMA CreatePictures ==
    ASSUME Careful, Types, Types', Pictures, NEW c \in Contexts, NEW s \in Surfaces,
           CreateSurface(c, s)
    PROVE  Pictures'
<1> USE CarefulCalls, DistinctAssumption
<1> USE DEF contextVars, glVars, surfaceVars, imageVars
<1>1. waiting = Nobody /\ UNCHANGED waiting /\ status[c] = "Live" /\ place[s] = "absent"
  BY DEF CreateSurface, MayCall, Runs
<1>2. CASE result' = "err"
  <2>1. UNCHANGED <<status, cgl, glTexture, surfaceVars, imageVars, waiting>>
    BY <1>2 DEF CreateSurface
  <2>2. KeepsContexts /\ \A x \in Surfaces : KeepsSurface(x)
    BY <2>1 DEF KeepsContexts, KeepsSurface, Target, Alive
  <2> QED BY <2>1, <2>2, SamePictures
<1>3. CASE result' # "err"
  <2>1. PICK g \in ActsOn(c), view \in BOOLEAN, n \in Names :
           /\ n \in FreeNames(g)
           /\ glTexture' = [glTexture EXCEPT ![g][n] = <<s, 0>>]
           /\ name' = [name EXCEPT ![s] = n]
           /\ place' = [place EXCEPT ![s] = "free"] /\ creator' = [creator EXCEPT ![s] = c]
           /\ widget' = IF view THEN widget \cup {s} ELSE widget \ {s}
           /\ back' = [back EXCEPT ![s] = 0]
           /\ front' = [front EXCEPT ![s] = IF view THEN 1 ELSE 0]
           /\ shown' = [shown EXCEPT ![s] = IF view THEN 1 ELSE 0]
    BY <1>3 DEF CreateSurface, FreeNames
  <2>2. UNCHANGED <<status, cgl, reader, open>>
    BY DEF CreateSurface
  <2>3. g = cgl[c] /\ g \in Contexts /\ n \in Names /\ glTexture[g][n] = NoImage
    BY <2>1 DEF Types, ContextTypes, FreeNames
  <2>4. KeepsOthers(s) /\ glTexture'[g][n] = <<s, 0>>
    <3>1. /\ glTexture'[g][n] = <<s, 0>>
          /\ \A h \in Contexts, m \in Names :
                h # g \/ m # n => glTexture'[h][m] = glTexture[h][m]
      BY <2>1, <2>3 DEF Types, GlTypes
    <3> QED BY <2>3, <3>1, OneTexture
  <2>5. ASSUME NEW x \in Surfaces, x # s PROVE NameOf(x)' /\ ReaderOf(x)'
    <3>1. KeepsSurface(x) /\ KeepsContexts
      BY <1>1, <2>1, <2>2, <2>5 DEF KeepsSurface, KeepsContexts, Target, Alive, Types,
         SurfaceTypes,
         ImageTypes
    <3> QED BY <2>4, <2>5, <3>1, OthersStay
  <2>6. NameOf(s)' /\ ReaderOf(s)'
    <3>1. place'[s] = "free" /\ creator'[s] = c /\ name'[s] = n /\ Target(s)' = <<s, 0>>
      BY <1>1, <2>1 DEF Target, Nobody, Types, SurfaceTypes, ImageTypes
    <3> QED BY <1>1, <2>2, <2>3, <2>4, <3>1 DEF NameOf, ReaderOf
  <2>7. ImagesInv'
    BY <2>1, <2>2 DEF Pictures, ImagesInv, Alive, Types, SurfaceTypes, ImageTypes
  <2> QED BY <2>5, <2>6, <2>7 DEF Pictures, NamesInv, ReaderInv
<1> QED BY <1>2, <1>3

LEMMA ReaderPictures ==
    ASSUME Careful, Types, Types', Pictures, NEW c \in Contexts, NEW s \in Surfaces,
           CreateSurfaceTexture(c, s) \/ DestroySurfaceTexture(c, s)
    PROVE  Pictures'
<1> USE CarefulCalls, DistinctAssumption
<1> USE DEF contextVars, glVars, surfaceVars, imageVars
<1>1. /\ waiting = Nobody /\ status[c] = "Live" /\ Alive(s)
      /\ UNCHANGED <<status, cgl, widget, creator, name, back, front, shown, open, waiting>>
  BY DEF CreateSurfaceTexture, DestroySurfaceTexture, MayCall, Runs, Alive
<1>2. KeepsContexts /\ \A x \in Surfaces : Target(x)' = Target(x)
  BY <1>1 DEF KeepsContexts, Target
<1>3. /\ creator[s] \in Contexts /\ name[s] \in Names
      /\ glTexture[cgl[creator[s]]][name[s]] = <<s, back[s]>>
      /\ back[s] \in IOSurfaces /\ status[creator[s]] # "Absent"
  BY <1>1 DEF Pictures, NamesInv, NameOf, Target, Nobody, Types, ImageTypes
<1>4. cgl[creator[s]] \in Contexts
  BY <1>3 DEF Types, ContextTypes
<1>5. CASE UNCHANGED <<glTexture, reader, place>>
  <2>1. \A x \in Surfaces : KeepsSurface(x)
    BY <1>1, <1>2, <1>5 DEF KeepsSurface, Alive
  <2> QED BY <1>1, <1>2, <1>5, <2>1, SamePictures
<1>6. CASE CreateSurfaceTexture(c, s) /\ result' = "ok"
  <2>1. PICK n \in FreeNames(cgl[c]) :
           /\ glTexture' = [glTexture EXCEPT ![cgl[c]][n] = <<s, back[s]>>]
           /\ reader' = [reader EXCEPT ![s] = [cgl |-> cgl[c], name |-> n]]
    BY <1>6 DEF CreateSurfaceTexture
  <2>2. s \notin widget /\ place' = [place EXCEPT ![s] = "texture"]
    BY <1>6 DEF CreateSurfaceTexture
  <2>3. cgl[c] \in Contexts /\ n \in Names /\ glTexture[cgl[c]][n] = NoImage
    BY DEF Types, ContextTypes, FreeNames
  <2>4. KeepsOthers(s) /\ glTexture'[cgl[c]][n] = <<s, back[s]>>
    <3>1. /\ glTexture'[cgl[c]][n] = <<s, back[s]>>
          /\ \A h \in Contexts, m \in Names :
                h # cgl[c] \/ m # n => glTexture'[h][m] = glTexture[h][m]
      BY <2>1, <2>3 DEF Types, GlTypes
    <3> QED BY <2>3, <3>1, OneTexture
  <2>5. ASSUME NEW x \in Surfaces, x # s PROVE NameOf(x)' /\ ReaderOf(x)'
    <3>1. KeepsSurface(x)
      BY <1>1, <1>2, <2>1, <2>2, <2>5 DEF KeepsSurface, Alive, Types, SurfaceTypes
    <3> QED BY <1>2, <2>4, <2>5, <3>1, OthersStay
  <2>6. cgl[c] # cgl[creator[s]] \/ n # name[s]
    <3>1. <<s, back[s]>> # NoImage
      BY <1>3 DEF IOSurfaces
    <3> QED BY <1>3, <2>3, <3>1
  <2>7. NameOf(s)'
    <3>1. glTexture'[cgl[creator[s]]][name[s]] = <<s, back[s]>>
      BY <1>3, <1>4, <2>1, <2>3, <2>6 DEF Types, GlTypes
    <3>2. Target(s)' = <<s, back[s]>>
      BY <1>1 DEF Target, Nobody
    <3> QED BY <1>1, <1>3, <3>1, <3>2 DEF NameOf
  <2>8. ReaderOf(s)'
    <3>1. reader'[s] = [cgl |-> cgl[c], name |-> n]
      BY <2>1 DEF Types, SurfaceTypes
    <3> QED BY <1>1, <2>2, <2>3, <2>4, <2>6, <3>1 DEF ReaderOf
  <2>9. ImagesInv'
    BY <1>1, <2>2 DEF Pictures, ImagesInv, Alive, Types, SurfaceTypes
  <2> QED BY <2>5, <2>7, <2>8, <2>9 DEF Pictures, NamesInv, ReaderInv
<1>7. CASE DestroySurfaceTexture(c, s)
  <2>1. /\ place[s] = "texture" /\ current = reader[s].cgl
        /\ place' = [place EXCEPT ![s] = "free"]
        /\ reader' = [reader EXCEPT ![s] = NoReader]
    BY <1>7 DEF DestroySurfaceTexture, Careful
  <2>2. /\ reader[s] \in [cgl : Contexts, name : Names]
        /\ glTexture[reader[s].cgl][reader[s].name] = <<s, back[s]>>
        /\ reader[s].cgl # cgl[creator[s]] \/ reader[s].name # name[s]
    BY <2>1 DEF Pictures, ReaderInv, ReaderOf
  <2>3. reader[s].cgl \in Contexts /\ reader[s].name \in Names
    BY <2>2
  <2>4. glTexture' = [glTexture EXCEPT ![reader[s].cgl][reader[s].name] = NoImage]
    BY <1>7, <2>1, <2>3 DEF DestroySurfaceTexture
  <2>5. KeepsOthers(s)
    <3>1. \A h \in Contexts, m \in Names :
             h # reader[s].cgl \/ m # reader[s].name => glTexture'[h][m] = glTexture[h][m]
      BY <2>3, <2>4 DEF Types, GlTypes
    <3> QED BY <1>3, <2>2, <2>3, <3>1, OneTexture
  <2>6. ASSUME NEW x \in Surfaces, x # s PROVE NameOf(x)' /\ ReaderOf(x)'
    <3>1. KeepsSurface(x)
      BY <1>1, <1>2, <2>1, <2>6 DEF KeepsSurface, Alive, Types, SurfaceTypes
    <3> QED BY <1>2, <2>5, <2>6, <3>1, OthersStay
  <2>7. NameOf(s)'
    <3>1. glTexture'[cgl[creator[s]]][name[s]] = <<s, back[s]>>
      BY <1>3, <1>4, <2>2, <2>3, <2>4 DEF Types, GlTypes
    <3>2. Target(s)' = <<s, back[s]>>
      BY <1>1 DEF Target, Nobody
    <3> QED BY <1>1, <1>3, <3>1, <3>2 DEF NameOf
  <2>8. ReaderOf(s)'
    BY <2>1 DEF ReaderOf, Types, SurfaceTypes
  <2>9. ImagesInv'
    BY <1>1, <2>1 DEF Pictures, ImagesInv, Alive, Types, SurfaceTypes
  <2> QED BY <2>6, <2>7, <2>8, <2>9 DEF Pictures, NamesInv, ReaderInv
<1>8. CASE CreateSurfaceTexture(c, s) /\ result' # "ok"
  BY <1>5, <1>8 DEF CreateSurfaceTexture
<1> QED BY <1>6, <1>7, <1>8

LEMMA ContextPictures ==
    ASSUME Careful, Types, Types', AbsentInv, BindInv, Pictures, NEW c \in Contexts,
           OnContext(c)
    PROVE  Pictures' /\ WaitInv'
<1> USE CarefulCalls, DistinctAssumption
<1> USE DEF contextVars, glVars, surfaceVars, imageVars, Keep
<1>1. waiting = Nobody
  BY DEF OnContext, CreateContext, MakeContextCurrent, NativeContextOf, NativeContextClone,
     NativeContextDrop, NativeContextCurrent, CreateContextFromNative, DestroyContext,
     UnbindSurface, Draw,
     PresentBoundSurface, ResizeBoundSurface, MayCall, Runs
<1>2. ASSUME UNCHANGED <<glTexture, widget, imageVars, waiting>>, KeepsContexts,
             \A s \in Surfaces : Alive(s)' =>
                Alive(s) /\ creator'[s] = creator[s] /\ name'[s] = name[s],
             \A s \in Surfaces : place'[s] = "texture" =>
                place[s] = "texture" /\ reader'[s] = reader[s]
      PROVE  Pictures' /\ WaitInv'
  <2>1. \A s \in Surfaces : KeepsSurface(s)
    BY <1>2 DEF KeepsSurface, Target
  <2>2. Pictures'
    BY <1>2, <2>1, SamePictures
  <2> QED BY <1>1, <1>2, <2>2 DEF WaitInv
<1>3. CASE CreateContext(c)
  BY <1>2, <1>3 DEF CreateContext, KeepsContexts, Alive, Types, ContextTypes
<1>4. CASE \/ NativeContextOf(c) \/ NativeContextClone(c)
           \/ NativeContextDrop(c) \/ NativeContextCurrent(c)
  BY <1>2, <1>4 DEF NativeContextOf, NativeContextClone, NativeContextDrop,
       NativeContextCurrent, NativeVars,
     KeepsContexts, Alive
<1>5. CASE \E g \in Contexts : CreateContextFromNative(c, g)
  BY <1>2, <1>5 DEF CreateContextFromNative, KeepsContexts, Alive, Types, ContextTypes
<1>6. CASE MakeContextCurrent(c) \/ Draw(c)
  BY <1>2, <1>6 DEF MakeContextCurrent, Draw, KeepsContexts, Alive
<1>7. CASE UnbindSurface(c)
  BY <1>2, <1>7 DEF UnbindSurface, KeepsContexts, Alive, BindInv, Types, ContextTypes,
     SurfaceTypes
<1>8. CASE DestroyContext(c)
  <2>1. KeepsContexts
    BY <1>8 DEF DestroyContext, KeepsContexts, Types, ContextTypes
  <2>2. CASE framebuffer[c] = NoSurface
    BY <1>2, <1>8, <2>1, <2>2 DEF DestroyContext, Alive
  <2>3. CASE framebuffer[c] # NoSurface
    <3>1. PICK s \in Surfaces : s = framebuffer[c]
      BY <2>3 DEF Types, ContextTypes
    <3>2. /\ DeleteObjects(s) /\ current = cgl[c]
          /\ UNCHANGED <<widget, imageVars, waiting, reader>>
          /\ place' = [place EXCEPT ![s] = "absent"] /\ name' = [name EXCEPT ![s] = NoName]
          /\ creator' = [creator EXCEPT ![s] = NoContext]
      BY <1>8, <2>3, <3>1 DEF DestroyContext
    <3>3. place[s] = "bound" /\ creator[s] = c
      BY <2>3, <3>1 DEF BindInv
    <3>4. ~Alive(s)'
      BY <3>2 DEF Alive, Types, SurfaceTypes
    <3>5. \A x \in Surfaces \ {s} : KeepsSurface(x)
      BY <3>2 DEF KeepsSurface, Alive, Target, Types, SurfaceTypes
    <3>6. Pictures'
      BY <1>1, <2>1, <3>2, <3>3, <3>4, <3>5, DestroyPictures
    <3> QED BY <1>1, <3>2, <3>6 DEF WaitInv
  <2> QED BY <2>2, <2>3
<1>9. CASE PresentBoundSurface(c) \/ ResizeBoundSurface(c)
  <2>1. CASE framebuffer[c] \in Surfaces
    <3>1. PICK s \in Surfaces : s = framebuffer[c]
      BY <2>1
    <3>2. place[s] = "bound" /\ creator[s] = c
      BY <3>1 DEF BindInv
    <3>3. CASE PresentBegins(s)
      BY <1>1, <3>2, <3>3, PresentPictures
    <3>4. CASE Resize(c, s)
      <4>1. UNCHANGED waiting
        BY <3>4 DEF Resize
      <4> QED BY <1>1, <3>2, <3>4, <4>1, ResizePictures DEF WaitInv
    <3> QED BY <1>9, <3>1, <3>3, <3>4 DEF PresentBoundSurface, ResizeBoundSurface
  <2>2. CASE framebuffer[c] \notin Surfaces
    BY <1>2, <1>9, <2>2 DEF PresentBoundSurface, ResizeBoundSurface, KeepsContexts, Alive
  <2> QED BY <2>1, <2>2
<1> QED BY <1>3, <1>4, <1>5, <1>6, <1>7, <1>8, <1>9 DEF OnContext

LEMMA SurfacePictures ==
    ASSUME Careful, Types, Types', Pictures, NEW c \in Contexts, NEW s \in Surfaces,
           OnSurface(c, s)
    PROVE  Pictures' /\ WaitInv'
<1> USE CarefulCalls, DistinctAssumption
<1> USE DEF contextVars, glVars, surfaceVars, imageVars, Keep
<1>1. waiting = Nobody
  BY DEF OnSurface, CreateSurface, DestroySurface, BindSurface, PresentSurface,
     ResizeSurface, CreateSurfaceTexture, DestroySurfaceTexture, MayCall, Runs
<1>2. ASSUME UNCHANGED waiting PROVE WaitInv'
  BY <1>1, <1>2 DEF WaitInv
<1>3. CASE CreateSurface(c, s)
  BY <1>2, <1>3, CreatePictures DEF CreateSurface
<1>4. CASE CreateSurfaceTexture(c, s) \/ DestroySurfaceTexture(c, s)
  BY <1>2, <1>4, ReaderPictures DEF CreateSurfaceTexture, DestroySurfaceTexture
<1>5. CASE PresentSurface(c, s)
  BY <1>1, <1>5, PresentPictures DEF PresentSurface
<1>6. ASSUME UNCHANGED <<status, cgl, glTexture, widget, creator, name, reader,
                         imageVars, waiting>>,
             \A x \in Surfaces : /\ Alive(x)' => Alive(x)
                                 /\ place'[x] = "texture" => place[x] = "texture"
      PROVE  Pictures' /\ WaitInv'
  <2>1. KeepsContexts /\ \A x \in Surfaces : KeepsSurface(x)
    BY <1>6 DEF KeepsContexts, KeepsSurface, Target
  <2> QED BY <1>2, <1>6, <2>1, SamePictures
<1>7. CASE ResizeSurface(c, s)
  <2>1. UNCHANGED waiting
    BY <1>7 DEF ResizeSurface, Resize
  <2>2. CASE creator[s] = c
    BY <1>1, <1>2, <1>7, <2>1, <2>2, ResizePictures DEF ResizeSurface
  <2>3. CASE creator[s] # c
    BY <1>6, <1>7, <2>3 DEF ResizeSurface, Alive
  <2> QED BY <2>2, <2>3
<1>8. CASE BindSurface(c, s)
  BY <1>6, <1>8 DEF BindSurface, Alive, Types, SurfaceTypes
<1>9. CASE DestroySurface(c, s)
  <2>1. CASE creator[s] # c
    BY <1>6, <1>9, <2>1 DEF DestroySurface, Alive
  <2>2. CASE creator[s] = c
    <3>1. /\ DeleteObjects(s) /\ current = cgl[c] /\ place[s] = "free"
          /\ UNCHANGED <<status, cgl, widget, creator, imageVars, waiting, reader>>
          /\ place' = [place EXCEPT ![s] = "destroyed"]
          /\ name' = [name EXCEPT ![s] = NoName]
      BY <1>9, <2>2 DEF DestroySurface
    <3>2. KeepsContexts /\ ~Alive(s)'
      BY <3>1 DEF Alive, KeepsContexts, Types, SurfaceTypes
    <3>3. \A x \in Surfaces \ {s} : KeepsSurface(x)
      BY <3>1 DEF KeepsSurface, Alive, Target, Types, SurfaceTypes
    <3> QED BY <1>1, <1>2, <2>2, <3>1, <3>2, <3>3, DestroyPictures
  <2> QED BY <2>1, <2>2
<1> QED BY <1>3, <1>4, <1>5, <1>7, <1>8, <1>9 DEF OnSurface

LEMMA EndsPictures ==
    ASSUME Careful, Types, Types', Pictures, WaitInv, PresentEnds
    PROVE  Pictures' /\ WaitInv'
<1> USE DistinctAssumption DEF contextVars, surfaceVars, imageVars
<1>1. PICK s \in Surfaces : s = waiting.surface
  BY DEF PresentEnds, Types, WaitTypes
<1>2. /\ s \in widget /\ place[s] \in {"free", "bound"} /\ current = cgl[creator[s]]
  BY <1>1 DEF PresentEnds, WaitInv
<1>3. /\ waiting' = Nobody
      /\ UNCHANGED <<status, cgl, place, widget, creator, name, reader, back, front, shown, open>>
  BY DEF PresentEnds
<1>4. /\ creator[s] \in Contexts /\ name[s] \in Names /\ cgl[creator[s]] \in Contexts
      /\ glTexture[cgl[creator[s]]][name[s]] = <<s, front[s]>>
      /\ front[s] \in IOSurfaces /\ status[creator[s]] # "Absent"
  BY <1>1, <1>2 DEF Pictures, NamesInv, NameOf, Target, Alive, Types, ContextTypes,
     ImageTypes
<1>5. glTexture' = [glTexture EXCEPT ![cgl[creator[s]]][name[s]] = <<s, back[s]>>]
  BY <1>1, <1>2, <1>4 DEF PresentEnds, Rebound
<1>6. KeepsOthers(s)
  <2>1. \A h \in Contexts, m \in Names :
           h # cgl[creator[s]] \/ m # name[s] => glTexture'[h][m] = glTexture[h][m]
    BY <1>4, <1>5 DEF Types, GlTypes
  <2> QED BY <1>4, <2>1, OneTexture
<1>7. ASSUME NEW x \in Surfaces, x # s PROVE NameOf(x)' /\ ReaderOf(x)'
  <2>1. waiting.surface # x /\ waiting'.surface # x
    BY <1>1, <1>3, <1>7 DEF Nobody
  <2>2. KeepsContexts /\ KeepsSurface(x)
    BY <1>3, <2>1 DEF KeepsContexts, KeepsSurface, Alive, Target
  <2> QED BY <1>6, <1>7, <2>2, OthersStay
<1>8. NameOf(s)'
  <2>1. glTexture'[cgl[creator[s]]][name[s]] = <<s, back[s]>>
    BY <1>4, <1>5 DEF Types, GlTypes
  <2>2. Target(s)' = <<s, back[s]>>
    BY <1>3 DEF Target, Nobody
  <2> QED BY <1>3, <1>4, <2>1, <2>2 DEF NameOf
<1>9. ReaderOf(s)'
  BY <1>2, <1>3 DEF ReaderOf
<1>10. ImagesInv'
  BY <1>3 DEF Pictures, ImagesInv, Alive
<1>11. WaitInv'
  BY <1>3 DEF WaitInv
<1> QED BY <1>7, <1>8, <1>9, <1>10, <1>11 DEF Pictures, NamesInv, ReaderInv

LEMMA QuietPictures ==
    ASSUME Careful, Types, Types', Pictures, WaitInv,
           \/ MakeNoContextCurrent \/ UNCHANGED vars
           \/ \E s \in Surfaces : CallbackBegins(s) \/ CallbackEnds(s) \/ DropSurface(s)
    PROVE  Pictures' /\ WaitInv'
<1> USE DEF vars, contextVars, glVars, surfaceVars, imageVars, Keep
<1>1. /\ UNCHANGED <<status, cgl, glTexture, widget, name, reader, back, front, shown,
                     open>>
      /\ waiting'.surface = waiting.surface
      /\ waiting' = Nobody \/ UNCHANGED <<current, place, creator>>
  BY DEF MakeNoContextCurrent, CallbackBegins, CallbackEnds, DropSurface, Runs, Types,
     WaitTypes
<1>2. \A x \in Surfaces : Alive(x)' =>
         Alive(x) /\ place'[x] = place[x] /\ creator'[x] = creator[x]
  BY DEF MakeNoContextCurrent, CallbackBegins, CallbackEnds, DropSurface, Alive, Types,
     SurfaceTypes
<1>3. KeepsContexts /\ \A x \in Surfaces : KeepsSurface(x)
  BY <1>1, <1>2 DEF KeepsContexts, KeepsSurface, Alive, Target
<1>4. Pictures'
  BY <1>1, <1>3, SamePictures
<1>5. WaitInv'
  <2>1. waiting' # Nobody => waiting # Nobody
    <3>1. \A s \in Surfaces : waiting.surface = s => waiting # Nobody
      BY DistinctAssumption DEF Nobody
    <3> QED
      BY <3>1 DEF MakeNoContextCurrent, CallbackBegins, CallbackEnds, DropSurface
  <2> QED BY <1>1, <2>1 DEF WaitInv
<1> QED BY <1>4, <1>5

LEMMA SafeStep ==
    ASSUME Careful, Types, Types', AbsentInv, Safe, [Next]_vars
    PROVE  Safe'
<1>1. BindInv' /\ FboInv'
  BY BindStep, FboStep DEF Safe
<1>2. Pictures' /\ WaitInv'
  BY ContextPictures, SurfacePictures, EndsPictures, QuietPictures
  DEF Safe, Pictures, Next, PresentWakes, PresentWakesEarly
<1> QED BY <1>1, <1>2 DEF Safe, Pictures

LEMMA SafeInvariant ==
    ASSUME IsFiniteSet(Contexts), Careful
    PROVE  Spec => [](TypeOK /\ Safe)
<1>1. Init => Safe
  <2> SUFFICES ASSUME Init PROVE Safe
    OBVIOUS
  <2>1. BindInv /\ FboInv
    BY DistinctAssumption DEF Init, BindInv, FboInv
  <2>2. NamesInv /\ ReaderInv
    BY DEF Init, NamesInv, NameOf, ReaderInv, ReaderOf, Alive
  <2>3. WaitInv /\ ImagesInv
    BY DEF Init, WaitInv, ImagesInv
  <2> QED BY <2>1, <2>2, <2>3 DEF Safe
<1>2. TypeOK /\ TypeOK' /\ AbsentInv /\ Safe /\ [Next]_vars => Safe'
  <2> SUFFICES ASSUME TypeOK, TypeOK', AbsentInv, Safe, [Next]_vars PROVE Safe'
    OBVIOUS
  <2>1. Types
    BY TypeOKIs
  <2>2. (TypeOK => Types)'
    BY TypeOKIs, PTL
  <2> QED BY <2>1, <2>2, SafeStep
<1>3. Spec => [](TypeOK /\ AbsentInv)
  BY RefsInvariant, PTL
<1> QED BY <1>1, <1>2, <1>3, PTL DEF Spec

\* However contexts and surfaces are used, a texture that a surface is rendered to or
\* read through is bound to the IOSurface that is its back buffer (Surface::present,
\* io_surface/surface.rs:421; bind_to_texture, cgl/surface.rs:115; resize_inner,
\* cgl/device.rs:724).
THEOREM TexturesShowBacks ==
    ASSUME IsFiniteSet(Contexts), Careful
    PROVE  Spec => []TextureShowsBack
<1>1. TypeOK /\ Safe => TextureShowsBack
  BY TypeOKIs, SafeImplies
<1> QED BY <1>1, SafeInvariant, PTL

\* GL never draws to the IOSurface on the screen, and no framebuffer object stays bound
\* once its surface was unbound or destroyed (cgl/device.rs:180).
THEOREM NothingShownIsDrawn ==
    ASSUME IsFiniteSet(Contexts), Careful
    PROVE  Spec => []ShownIsNotDrawn
<1>1. TypeOK /\ Safe => ShownIsNotDrawn
  BY TypeOKIs, SafeImplies
<1> QED BY <1>1, SafeInvariant, PTL
=============================================================================
