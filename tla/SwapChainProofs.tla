-------------------------- MODULE SwapChainProofs --------------------------
(***************************************************************************)
(* Theorems about SwapChain for every set of chains, surfaces and sizes,   *)
(* and about the frames that SwapChainHistory writes down.                 *)
(***************************************************************************)
EXTENDS SwapChainHistory, SequenceTheorems, FiniteSetTheorems, WellFoundedInduction, TLAPS

-----------------------------------------------------------------------------
(* The operators on sequences. *)

LEMMA SwapRemoveType ==
    ASSUME NEW S, NEW q \in Seq(S), NEW i \in 1..Len(q)
    PROVE  SwapRemove(q, i) \in Seq(S)
<1>1. Len(q) - 1 \in Nat /\ Len(q) \in Nat \ {0}
  BY LenProperties
<1>2. SwapRemove(q, i) \in [1..(Len(q) - 1) -> S]
  BY <1>1, ElementOfSeq DEF SwapRemove
<1>3. QED
  BY <1>1, <1>2, SeqDef

\* What swap_remove leaves is what the list held but for the surface removed.
LEMMA SwapRemoveRange ==
    ASSUME NEW S, NEW q \in Seq(S), NEW i \in 1..Len(q)
    PROVE  Range(SwapRemove(q, i)) \subseteq Range(q)
<1>1. Len(q) \in Nat \ {0} /\ DOMAIN q = 1..Len(q)
  BY LenProperties
<1>2. DOMAIN SwapRemove(q, i) = 1..(Len(q) - 1)
  BY DEF SwapRemove
<1>3. ASSUME NEW j \in 1..(Len(q) - 1)
      PROVE  SwapRemove(q, i)[j] \in Range(q)
  BY <1>1, <1>3 DEF SwapRemove, Range
<1>4. QED
  BY <1>2, <1>3 DEF Range

-----------------------------------------------------------------------------
(* Type correctness. *)

LEMMA AnySizeType == AnySize \in Sizes
  BY SizesAssumption DEF AnySize

LEMMA PoolType ==
    ASSUME TypeOK, NEW c \in Chains
    PROVE  Pool(c) \in Seq(Surfaces)
<1>1. CASE pending[c] = NoSurface
  BY <1>1 DEF TypeOK, Pool
<1>2. CASE pending[c] # NoSurface
  <2>1. pending[c] \in Surfaces /\ recycled[c] \in Seq(Surfaces)
    BY <1>2 DEF TypeOK, OptSurface
  <2>2. QED
    BY <1>2, <2>1, AppendProperties DEF Pool
<1>3. QED
  BY <1>1, <1>2

LEMMA TypeInit == Init => TypeOK
  BY AnySizeType, EmptySeq DEF Init, TypeOK, OptSurface

\* A swap or a resize leaves the back buffer and the context well typed.
LEMMA BackBufferType ==
    ASSUME TypeOK, NEW c \in Chains, NEW n \in Surfaces,
           \/ Exchange(c, n)
           \/ TakeFails(c)
           \/ BindRefused(c)
    PROVE  /\ back' \in [Chains -> {"Absent", "Attached", "Detached",
                                     "TakenAttached", "TakenDetached"}]
           /\ bound' \in OptSurface
           /\ detached' \in [Chains -> OptSurface]
           /\ \A d \in Chains : back'[d] = "Detached" <=> detached'[d] # NoSurface
  BY NoSurfaceAssumption DEF TypeOK, OptSurface, Exchange, CanTake, TakeRefused, IsTaken,
     TakeFails, TakePanics, UnbindRefused, BindRefused

LEMMA SwapType ==
    ASSUME TypeOK, NEW c \in Chains, SwapBuffers(c)
    PROVE  TypeOK'
<1>1. \A n \in Free : n \in Surfaces
  BY DEF Free
<1>2. ASSUME NEW n \in Surfaces, NEW rest \in Seq(Surfaces), SwapIn(c, n, rest)
      PROVE  /\ back' \in [Chains -> {"Absent", "Attached", "Detached",
                                       "TakenAttached", "TakenDetached"}]
             /\ bound' \in OptSurface
             /\ detached' \in [Chains -> OptSurface]
             /\ \A d \in Chains : back'[d] = "Detached" <=> detached'[d] # NoSurface
             /\ recycled' \in [Chains -> Seq(Surfaces)]
             /\ pending' \in [Chains -> OptSurface]
             /\ alive' \subseteq Surfaces
             /\ result' \in {"ok", "err", "panic"}
  <2>1. \/ Exchange(c, n) \/ TakeFails(c) \/ BindRefused(c)
    BY <1>2 DEF SwapIn
  <2>2. BackSurface(c) \in OptSurface
    BY DEF TypeOK, BackSurface
  <2>3. BindRefused(c) => bound \in Surfaces
    BY DEF BindRefused, TypeOK, OptSurface
  <2>4. /\ recycled' \in [Chains -> Seq(Surfaces)]
        /\ pending' \in [Chains -> OptSurface]
        /\ alive' \subseteq Surfaces
        /\ result' \in {"ok", "err", "panic"}
    BY <1>2, <2>2, <2>3 DEF SwapIn, TakeFails, TypeOK, OptSurface
  <2>5. QED
    BY <2>1, <2>4, BackBufferType
<1>3. CASE \E i \in FirstFit(c) :
              /\ SwapIn(c, Pool(c)[i], SwapRemove(Pool(c), i))
              /\ UNCHANGED surfaceSize
  <2>1. PICK i \in 1..Len(Pool(c)) :
              /\ SwapIn(c, Pool(c)[i], SwapRemove(Pool(c), i))
              /\ UNCHANGED surfaceSize
    BY <1>3 DEF FirstFit
  <2>2. Pool(c)[i] \in Surfaces /\ SwapRemove(Pool(c), i) \in Seq(Surfaces)
    BY PoolType, SwapRemoveType, ElementOfSeq
  <2>3. QED
    BY <2>1, <2>2, <1>2 DEF SwapBuffers, TypeOK
<1>4. CASE \E n \in Free :
              /\ SwapIn(c, n, Pool(c))
              /\ surfaceSize' = [surfaceSize EXCEPT ![n] = size[c]]
  BY <1>1, <1>2, <1>4, PoolType DEF SwapBuffers, TypeOK
<1>5. CASE /\ recycled' = [recycled EXCEPT ![c] = Pool(c)]
           /\ pending' = [pending EXCEPT ![c] = NoSurface]
           /\ result' = "err"
           /\ UNCHANGED <<bound, back, detached, surfaceSize, alive>>
  BY <1>5, PoolType DEF SwapBuffers, TypeOK, OptSurface
<1>6. QED
  BY <1>3, <1>4, <1>5 DEF SwapBuffers

LEMMA DestroyInOrderType ==
    ASSUME TypeOK, NEW q \in Seq(Surfaces), DestroyInOrder(q)
    PROVE  alive' \subseteq Surfaces /\ result' \in {"ok", "err"}
  BY ElementOfSeq, LenProperties DEF DestroyInOrder, TypeOK

LEMMA ResizeType ==
    ASSUME TypeOK, NEW c \in Chains, Resize(c)
    PROVE  TypeOK'
<1>1. CASE \E n \in Free, z \in Sizes :
              /\ ResizeTo(c, n, z)
              /\ surfaceSize' = [surfaceSize EXCEPT ![n] = z]
  <2>1. PICK n \in Free, z \in Sizes :
              /\ ResizeTo(c, n, z)
              /\ surfaceSize' = [surfaceSize EXCEPT ![n] = z]
    BY <1>1
  <2>2. n \in Surfaces
    BY DEF Free
  <2>3. \/ Exchange(c, n) \/ TakeFails(c) \/ BindRefused(c)
    BY <2>1 DEF ResizeTo
  <2>4. Exchange(c, n) => BackSurface(c) \in Surfaces
    BY DEF TypeOK, OptSurface, Exchange, CanTake, BackSurface
  <2>5. BindRefused(c) => bound \in Surfaces
    BY DEF BindRefused, TypeOK, OptSurface
  <2>6. recycled[c] \in Seq(Surfaces) /\ <<>> \in Seq(Surfaces)
    BY EmptySeq DEF TypeOK
  <2>7. /\ recycled' \in [Chains -> Seq(Surfaces)]
        /\ size' \in [Chains -> Sizes]
        /\ alive' \subseteq Surfaces
        /\ result' \in {"ok", "err", "panic"}
    BY <2>1, <2>2, <2>4, <2>5, <2>6, DestroyInOrderType DEF ResizeTo, TakeFails, Drained, TypeOK, OptSurface
  <2>8. QED
    BY <2>1, <2>2, <2>3, <2>7, BackBufferType DEF Resize, TypeOK
<1>2. CASE UNCHANGED <<bound, back, detached, recycled, size, surfaceSize, alive>>
           /\ result' = "err"
  BY <1>2 DEF Resize, TypeOK
<1>3. QED
  BY <1>1, <1>2 DEF Resize

LEMMA TakeAttachmentType ==
    ASSUME TypeOK, NEW c \in Chains, NEW d \in Chains, TakeAttachmentFrom(c, d)
    PROVE  TypeOK'
<1> USE NoSurfaceAssumption DEF TypeOK, OptSurface
<1>1. c # d
  BY DEF TakeAttachmentFrom
<1>2. CASE TakeAttachmentOk(c, d)
  BY <1>1, <1>2 DEF TakeAttachmentFrom, TakeAttachmentOk, TakeBoth, CanTake
<1>3. CASE TakeAttachmentUnbound(c, d)
  <2>1. CASE back[c] = "Detached" /\ back[d] = "Attached"
    <3>1. bound \in Surfaces /\ detached[c] \in Surfaces
      BY <1>3, <2>1 DEF TakeAttachmentUnbound, TakeBoth, CanTake
    <3>2. alive' \subseteq Surfaces
      BY <1>3, <2>1, <3>1 DEF TakeAttachmentUnbound, DestroyIgnored
    <3>3. /\ bound' = NoSurface
          /\ back' = [back EXCEPT ![c] = "TakenAttached", ![d] = "TakenDetached"]
          /\ detached' = [detached EXCEPT ![c] = NoSurface]
      BY <1>3, <2>1 DEF TakeAttachmentUnbound
    <3>4. QED
      BY <1>1, <1>3, <2>1, <3>2, <3>3 DEF TakeAttachmentFrom, TakeAttachmentUnbound
  <2>2. CASE back[c] = "Attached" /\ back[d] = "Detached"
    <3>1. bound \in Surfaces /\ detached[d] \in Surfaces
      BY <1>3, <2>2 DEF TakeAttachmentUnbound, TakeBoth, CanTake
    <3>2. alive' \subseteq Surfaces
      BY <1>3, <2>2, <3>1 DEF TakeAttachmentUnbound, DestroyIgnored
    <3>3. /\ bound' = NoSurface
          /\ back' = [back EXCEPT ![c] = "Detached", ![d] = "TakenAttached"]
          /\ detached' = [detached EXCEPT ![c] = bound, ![d] = NoSurface]
      BY <1>3, <2>2 DEF TakeAttachmentUnbound
    <3>4. QED
      BY <1>1, <1>3, <2>2, <3>1, <3>2, <3>3 DEF TakeAttachmentFrom, TakeAttachmentUnbound
  <2>3. QED
    BY <1>3, <2>1, <2>2 DEF TakeAttachmentUnbound
<1>4. CASE TakeAttachmentHalfway(c, d)
  <2>1. BackSurface(c) \in Surfaces
    BY <1>4 DEF TakeAttachmentHalfway, CanTake, BackSurface
  <2>2. QED
    BY <1>1, <1>4, <2>1 DEF TakeAttachmentFrom, TakeAttachmentHalfway, CanTake,
       IsTaken
<1>5. CASE TakeAttachmentRefused(c)
  BY <1>5 DEF TakeAttachmentFrom, TakeAttachmentRefused, TakeRefused, TakeFails, TakePanics, UnbindRefused
<1>6. QED
  BY <1>2, <1>3, <1>4, <1>5 DEF TakeAttachmentFrom

LEMMA TextureType ==
    ASSUME TypeOK, NEW c \in Chains,
           TakeSurfaceTexture(c) \/ RecycleSurfaceTexture(c)
    PROVE  TypeOK'
<1> USE NoSurfaceAssumption DEF TypeOK, OptSurface
<1>1. CASE TakeSurfaceTexture(c)
  <2>1. alive' \subseteq Surfaces
    BY <1>1 DEF TakeSurfaceTexture, BindRefused, DestroyIgnored
  <2>2. CanTake(c) => BackSurface(c) \in Surfaces
    BY DEF CanTake, BackSurface
  <2>3. CASE CanTake(c) /\ result' = "ok"
    <3>1. /\ back' = [back EXCEPT ![c] = IF back[c] = "Attached"
                                         THEN "TakenAttached" ELSE "TakenDetached"]
          /\ bound' = IF back[c] = "Attached" THEN NoSurface ELSE bound
          /\ detached' = [detached EXCEPT ![c] = NoSurface]
          /\ texture' = [texture EXCEPT ![c] = BackSurface(c)]
      BY <1>1, <2>3 DEF TakeSurfaceTexture, TakeFails
    <3>2. QED
      BY <1>1, <2>1, <2>2, <2>3, <3>1 DEF TakeSurfaceTexture
  <2>4. CASE BindRefused(c) /\ UNCHANGED texture /\ result' = "err"
    BY <1>1, <2>1, <2>4 DEF TakeSurfaceTexture, BindRefused
  <2>5. CASE TakeFails(c) /\ UNCHANGED texture
    BY <1>1, <2>1, <2>5 DEF TakeSurfaceTexture, TakeFails, TakeRefused, TakePanics,
       UnbindRefused
  <2>6. CASE UNCHANGED <<back, bound, detached, texture>> /\ result' = "err"
    BY <1>1, <2>1, <2>6 DEF TakeSurfaceTexture
  <2>7. \/ CanTake(c) /\ result' = "ok"
        \/ UNCHANGED <<back, bound, detached, texture>> /\ result' = "err"
        \/ BindRefused(c) /\ UNCHANGED texture /\ result' = "err"
        \/ TakeFails(c) /\ UNCHANGED texture
    BY <1>1 DEF TakeSurfaceTexture
  <2>8. QED
    BY <2>3, <2>4, <2>5, <2>6, <2>7
<1>2. CASE RecycleSurfaceTexture(c)
  BY <1>2 DEF RecycleSurfaceTexture, DestroyIgnored
<1>3. QED
  BY <1>1, <1>2

LEMMA ClearType ==
    ASSUME TypeOK, NEW c \in Chains, ClearSurface(c)
    PROVE  TypeOK'
<1> USE NoSurfaceAssumption DEF TypeOK, OptSurface
<1>1. alive' \subseteq Surfaces
  BY DEF ClearSurface, DestroyIgnored
<1>2. /\ bound' \in OptSurface
      /\ detached' \in [Chains -> OptSurface]
      /\ back' \in [Chains -> {"Absent", "Attached", "Detached",
                              "TakenAttached", "TakenDetached"}]
      /\ \A e \in Chains : back'[e] = "Detached" <=> detached'[e] # NoSurface
      /\ result' \in {"ok", "err", "panic"}
  BY DEF ClearSurface
<1>3. QED
  BY <1>1, <1>2 DEF ClearSurface

LEMMA DoomedType ==
    ASSUME TypeOK, NEW c \in Chains, NEW rear \in Seq(Surfaces)
    PROVE  Doomed(c, rear) \in Seq(Surfaces)
<1>1. (IF pending[c] = NoSurface THEN <<>> ELSE <<pending[c]>>) \in Seq(Surfaces)
  BY EmptySeq DEF TypeOK, OptSurface
<1>2. recycled[c] \in Seq(Surfaces)
  BY DEF TypeOK
<1>3. QED
  BY <1>1, <1>2, ConcatProperties DEF Doomed

\* The back buffer that destroy takes, if it can.
LEMMA RearType ==
    ASSUME TypeOK, NEW c \in Chains
    PROVE  /\ CanTake(c) => <<BackSurface(c)>> \in Seq(Surfaces)
           /\ <<>> \in Seq(Surfaces)
  BY EmptySeq DEF TypeOK, OptSurface, CanTake, BackSurface

LEMMA DestroyType ==
    ASSUME TypeOK, NEW c \in Chains, Destroy(c)
    PROVE  TypeOK'
<1> USE NoSurfaceAssumption DEF TypeOK, OptSurface
<1>1. CASE /\ CanTake(c)
           /\ back' = [back EXCEPT ![c] = IF @ = "Attached" THEN "TakenAttached"
                                                            ELSE "TakenDetached"]
           /\ bound' = IF back[c] = "Attached" THEN NoSurface ELSE bound
           /\ detached' = [detached EXCEPT ![c] = NoSurface]
           /\ recycled' = Drained(c)
           /\ DestroyInOrder(Doomed(c, <<BackSurface(c)>>))
  <2>1. alive' \subseteq Surfaces /\ result' \in {"ok", "err"}
    BY <1>1, RearType, DoomedType, DestroyInOrderType
  <2>2. recycled' = [recycled EXCEPT ![c] = <<>>]
    BY <1>1 DEF Drained
  <2>3. QED
    BY <1>1, <2>1, <2>2, EmptySeq DEF Destroy
<1>2. CASE /\ TakeRefused(c) \/ UnbindRefused(c)
           /\ recycled' = Drained(c)
           /\ DestroyInOrder(Doomed(c, <<>>))
  <2>1. recycled' = [recycled EXCEPT ![c] = <<>>]
    BY <1>2 DEF Drained
  <2>2. alive' \subseteq Surfaces /\ result' \in {"ok", "err"}
    BY <1>2, RearType, DoomedType, DestroyInOrderType
  <2>3. QED
    BY <1>2, <2>1, <2>2, EmptySeq DEF Destroy, TakeRefused, UnbindRefused
<1>3. CASE TakePanics(c) /\ result' = "panic" /\ UNCHANGED <<recycled, alive>>
  BY <1>3 DEF Destroy, TakePanics
<1>4. QED
  BY <1>1, <1>2, <1>3 DEF Destroy

LEMMA ConsumerType ==
    ASSUME TypeOK, NEW c \in Chains, Consumer(c)
    PROVE  TypeOK'
<1> USE DEF TypeOK, OptSurface
<1>1. CASE TakeSurface(c)
  <2>1. ASSUME recycled[c] # <<>>
        PROVE  /\ recycled[c][Len(recycled[c])] \in Surfaces
               /\ SubSeq(recycled[c], 1, Len(recycled[c]) - 1) \in Seq(Surfaces)
    <3>1. recycled[c] \in Seq(Surfaces) /\ Len(recycled[c]) \in Nat \ {0}
      BY <2>1, EmptySeq
    <3>2. QED
      BY <3>1, ElementOfSeq, SubSeqProperties
  <2>2. CASE pending[c] # NoSurface
    <3>1. /\ held' = [held EXCEPT ![c] = @ \cup {pending[c]}]
          /\ pending' = [pending EXCEPT ![c] = NoSurface]
          /\ UNCHANGED recycled
      BY <1>1, <2>2 DEF TakeSurface
    <3>2. QED
      BY <1>1, <2>2, <3>1 DEF TakeSurface
  <2>3. CASE pending[c] = NoSurface
    <3>1. /\ recycled[c] # <<>>
          /\ held' = [held EXCEPT ![c] = @ \cup {recycled[c][Len(recycled[c])]}]
          /\ recycled' = [recycled EXCEPT ![c] = SubSeq(@, 1, Len(@) - 1)]
          /\ UNCHANGED pending
      BY <1>1, <2>3 DEF TakeSurface
    <3>2. QED
      BY <1>1, <2>1, <3>1 DEF TakeSurface
  <2>4. QED
    BY <2>2, <2>3
<1>2. CASE TakePendingSurface(c)
  BY <1>2 DEF TakePendingSurface
<1>3. CASE RecycleSurface(c)
  <2>1. \A s \in Surfaces : Append(recycled[c], s) \in Seq(Surfaces)
    BY AppendProperties
  <2>2. QED
    BY <1>3, <2>1 DEF RecycleSurface
<1>4. QED
  BY <1>1, <1>2, <1>3 DEF Consumer

LEMMA DropType ==
    ASSUME TypeOK, NEW c \in Chains, DropChain(c)
    PROVE  TypeOK'
<1>1. <<>> \in Seq(Surfaces)
  BY EmptySeq
<1>2. QED
  BY <1>1 DEF DropChain, Drained, TypeOK, OptSurface

LEMMA CreateType ==
    ASSUME TypeOK,
           BindFirstSurface \/ \E c \in Chains : CreateAttached(c) \/ CreateDetached(c)
    PROVE  TypeOK'
<1> USE NoSurfaceAssumption DEF TypeOK, OptSurface
<1>1. CASE BindFirstSurface
  BY <1>1 DEF BindFirstSurface, chainVars, Free
<1>2. ASSUME NEW c \in Chains, CreateAttached(c)
      PROVE  TypeOK'
  <2>1. CASE result' = "panic"
    BY <1>2, <2>1 DEF CreateAttached
  <2>2. CASE result' # "panic"
    <3>1. /\ back' = [back EXCEPT ![c] = "Attached"] /\ back[c] = "Absent"
          /\ size' = [size EXCEPT ![c] = surfaceSize[bound]]
          /\ surfaceSize[bound] \in Sizes
          /\ result' = "ok"
      BY <1>2, <2>2 DEF CreateAttached
    <3>2. QED
      BY <1>2, <3>1 DEF CreateAttached
  <2>3. QED
    BY <2>1, <2>2
<1>3. ASSUME NEW c \in Chains, CreateDetached(c)
      PROVE  TypeOK'
  <2>1. CASE result' = "err"
    BY <1>3, <2>1 DEF CreateDetached
  <2>2. CASE result' = "ok"
    <3>1. PICK s \in Surfaces, z \in Sizes :
             /\ detached' = [detached EXCEPT ![c] = s]
             /\ size' = [size EXCEPT ![c] = z]
             /\ surfaceSize' = [surfaceSize EXCEPT ![s] = z]
             /\ back' = [back EXCEPT ![c] = "Detached"]
             /\ alive' = alive \cup {s}
      BY <1>3, <2>2 DEF CreateDetached, Free
    <3>2. QED
      BY <1>3, <2>2, <3>1 DEF CreateDetached
  <2>3. QED
    BY <1>3, <2>1, <2>2 DEF CreateDetached
<1>4. QED
  BY <1>1, <1>2, <1>3

LEMMA TypeNext == TypeOK /\ [Next]_vars => TypeOK'
<1> SUFFICES ASSUME TypeOK, [Next]_vars
             PROVE  TypeOK'
  OBVIOUS
<1>1. CASE UNCHANGED vars
  BY <1>1 DEF vars, chainVars, TypeOK
<1>2. CASE BindFirstSurface
  BY <1>2, CreateType
<1>3. ASSUME NEW c \in Chains, Producer(c)
      PROVE  TypeOK'
  <2>1. CASE IncompatibleContext(c)
    BY <2>1 DEF IncompatibleContext, chainVars, TypeOK
  <2>2. QED
    BY <1>3, <2>1, CreateType, SwapType, ResizeType, TakeAttachmentType, TextureType,
       ClearType, DestroyType DEF Producer
<1>4. ASSUME NEW c \in Chains, Consumer(c) \/ DropChain(c)
      PROVE  TypeOK'
  BY <1>4, ConsumerType, DropType
<1>5. QED
  BY <1>1, <1>2, <1>3, <1>4 DEF Next

\* Every variable of the chains keeps its type, and the payload of a detached
\* back buffer is there exactly in that variant.
THEOREM TypeCorrect == Spec => []TypeOK
<1>1. Spec => Init /\ [][Next]_vars
  BY DEF Spec
<1>2. QED
  BY <1>1, TypeInit, TypeNext, PTL

-----------------------------------------------------------------------------
(* The texture keeps its slot, whatever fails. *)

LEMMA TextureNext ==
    ASSUME TypeOK, TextureKeepsSlot, [Next]_vars
    PROVE  TextureKeepsSlot'
<1> USE NoSurfaceAssumption DEF TypeOK, OptSurface, TextureKeepsSlot, IsTaken
<1>1. CASE UNCHANGED vars \/ BindFirstSurface
  BY <1>1 DEF vars, chainVars, BindFirstSurface
<1>2. ASSUME NEW c \in Chains, CreateAttached(c) \/ CreateDetached(c)
      PROVE  TextureKeepsSlot'
  BY <1>2 DEF CreateAttached, CreateDetached
<1>3. ASSUME NEW c \in Chains, NEW n, Exchange(c, n) \/ TakeFails(c) \/ BindRefused(c),
             UNCHANGED texture
      PROVE  TextureKeepsSlot'
  BY <1>3 DEF Exchange, TakeRefused, TakeFails, TakePanics, UnbindRefused, BindRefused
<1>4. ASSUME NEW c \in Chains, SwapBuffers(c)
      PROVE  TextureKeepsSlot'
  <2>1. \/ UNCHANGED <<back, texture>>
        \/ \E n : Exchange(c, n) \/ TakeFails(c) \/ BindRefused(c)
    BY <1>4 DEF SwapBuffers, SwapIn
  <2>2. QED
    BY <1>3, <1>4, <2>1 DEF SwapBuffers
<1>5. ASSUME NEW c \in Chains, Resize(c)
      PROVE  TextureKeepsSlot'
  <2>1. \/ UNCHANGED <<back, texture>>
        \/ \E n : Exchange(c, n) \/ TakeFails(c) \/ BindRefused(c)
    BY <1>5 DEF Resize, ResizeTo
  <2>2. QED
    BY <1>3, <1>5, <2>1 DEF Resize
<1>6. ASSUME NEW c \in Chains, NEW d \in Chains, TakeAttachmentFrom(c, d)
      PROVE  TextureKeepsSlot'
  BY <1>6 DEF TakeAttachmentFrom, TakeAttachmentOk, TakeAttachmentUnbound,
     TakeAttachmentHalfway, TakeAttachmentRefused, TakeBoth, CanTake, TakeRefused,
     TakeFails, TakePanics, UnbindRefused
<1>7. ASSUME NEW c \in Chains, TakeSurfaceTexture(c) \/ RecycleSurfaceTexture(c)
      PROVE  TextureKeepsSlot'
  BY <1>7 DEF TakeSurfaceTexture, RecycleSurfaceTexture, CanTake, BindRefused,
     TakeRefused, TakeFails, TakePanics, UnbindRefused
<1>8. ASSUME NEW c \in Chains, ClearSurface(c) \/ Destroy(c)
      PROVE  TextureKeepsSlot'
  BY <1>8 DEF ClearSurface, Destroy, CanTake, TakeRefused, TakePanics, UnbindRefused
<1>9. ASSUME NEW c \in Chains, Consumer(c) \/ DropChain(c)
      PROVE  TextureKeepsSlot'
  BY <1>9 DEF Consumer, TakeSurface, TakePendingSurface, RecycleSurface, DropChain
<1>10. ASSUME NEW c \in Chains, IncompatibleContext(c)
       PROVE  TextureKeepsSlot'
  BY <1>10 DEF IncompatibleContext, chainVars
<1>11. QED
  BY <1>1, <1>2, <1>4, <1>5, <1>6, <1>7, <1>8, <1>9, <1>10 DEF Next, Producer

\* While a back buffer is out as a texture nothing else takes its slot, with any
\* device call failing and any misuse going on.
THEOREM TextureSafety == Spec => []TextureKeepsSlot
<1>1. Init => TextureKeepsSlot
  BY DEF Init, TextureKeepsSlot
<1>2. TypeOK /\ TextureKeepsSlot /\ [Next]_vars => TextureKeepsSlot'
  BY TextureNext
<1>3. QED
  BY <1>1, <1>2, TypeCorrect, PTL DEF Spec

-----------------------------------------------------------------------------
(* The protocol of the header, kept by the producer on a device that binds. *)

\* A destroyed chain has nothing left.
RetiredEmpty ==
    \A c \in retired :
        /\ IsTaken(c)
        /\ pending[c] = NoSurface
        /\ texture[c] = NoSurface
        /\ recycled[c] = <<>>
        /\ held[c] = {}

Disciplined ==
    /\ Misuse = {}
    /\ "bind" \notin Faults
    /\ "unbind" \notin Faults
    /\ "texture" \notin Faults

ProtocolInv ==
    /\ TypeOK
    /\ TextureKeepsSlot
    /\ OneCurrentBackBuffer
    /\ BackBufferComesBack
    /\ NoPanic
    /\ RetiredEmpty

\* What the protocol keeps producers and consumers from.
LEMMA DisciplinedCalls ==
    ASSUME Disciplined, NEW c \in Chains
    PROVE  /\ MayCall(c) => c \notin retired /\ \A d \in Chains : texture[d] = NoSurface
           /\ ~UnbindRefused(c) /\ ~BindRefused(c) /\ ~IncompatibleContext(c)
           /\ RecycleSurface(c) =>
                 /\ \E s \in held[c] :
                       /\ held' = [held EXCEPT ![c] = @ \ {s}]
                       /\ recycled' = [recycled EXCEPT ![c] = Append(@, s)]
                 /\ UNCHANGED <<bound, back, detached, pending, size, retired, texture,
                                surfaceSize, alive, result>>
  BY DEF Disciplined, MayCall, UnbindRefused, BindRefused, IncompatibleContext, RecycleSurface

\* A texture is returned to its own chain, whose slot is empty.
LEMMA OwnTexture ==
    ASSUME Disciplined, TypeOK, TextureKeepsSlot, NEW c \in Chains,
           RecycleSurfaceTexture(c)
    PROVE  /\ texture[c] # NoSurface
           /\ texture' = [texture EXCEPT ![c] = NoSurface]
           /\ \/ /\ \/ /\ back[c] = "TakenAttached" /\ bound = NoSurface
                        /\ back' = [back EXCEPT ![c] = "Attached"]
                        /\ bound' = texture[c]
                        /\ UNCHANGED detached
                     \/ /\ back[c] = "TakenDetached"
                        /\ back' = [back EXCEPT ![c] = "Detached"]
                        /\ detached' = [detached EXCEPT ![c] = texture[c]]
                        /\ UNCHANGED bound
                  /\ result' = "ok"
                  /\ UNCHANGED alive
              \/ /\ back[c] = "TakenAttached" /\ bound # NoSurface
                 /\ DestroyIgnored({texture[c]})
                 /\ result' = "err"
                 /\ UNCHANGED <<back, bound, detached>>
           /\ result # "panic"
           /\ UNCHANGED <<pending, recycled, size, retired, held, surfaceSize>>
<1>1. /\ texture[c] # NoSurface
      /\ texture' = [texture EXCEPT ![c] = texture[c], ![c] = NoSurface] \/
         texture' = [texture EXCEPT ![c] = NoSurface]
  BY DEF RecycleSurfaceTexture, Disciplined
<1>2. texture' = [texture EXCEPT ![c] = NoSurface]
  BY <1>1 DEF TypeOK
<1>3. IsTaken(c)
  BY <1>1 DEF TextureKeepsSlot
<1>4. QED
  BY <1>1, <1>2, <1>3 DEF RecycleSurfaceTexture, Disciplined

\* A producer call finds its back buffer in place.
LEMMA CallFindsBackBuffer ==
    ASSUME Disciplined, ProtocolInv, NEW c \in Chains, MayCall(c)
    PROVE  /\ Live(c) /\ c \notin retired
           /\ CanTake(c)
           /\ ~TakeFails(c) /\ ~TakePanics(c) /\ ~TakeRefused(c)
           /\ ~UnbindRefused(c) /\ ~BindRefused(c)
           /\ \A d \in Chains : texture[d] = NoSurface
<1>1. c \notin retired /\ \A d \in Chains : texture[d] = NoSurface
  BY DisciplinedCalls
<1>2. Live(c) /\ ~IsTaken(c)
  BY <1>1 DEF ProtocolInv, BackBufferComesBack, MayCall, Live
<1>3. CanTake(c)
  BY <1>2 DEF ProtocolInv, TypeOK, OneCurrentBackBuffer, MayCall, IsTaken, CanTake,
     IsAttached
<1>4. QED
  BY <1>1, <1>2, <1>3, DisciplinedCalls DEF CanTake, TakeRefused, TakeFails, TakePanics,
     IsTaken, Live

\* destroy finds the back buffer too.
LEMMA DestroyTakesBack ==
    ASSUME Disciplined, ProtocolInv, NEW c \in Chains, Destroy(c)
    PROVE  /\ CanTake(c) /\ Live(c) /\ held[c] = {}
           /\ retired' = retired \cup {c}
           /\ pending' = [pending EXCEPT ![c] = NoSurface]
           /\ back' = [back EXCEPT ![c] = IF back[c] = "Attached" THEN "TakenAttached"
                                                               ELSE "TakenDetached"]
           /\ bound' = IF back[c] = "Attached" THEN NoSurface ELSE bound
           /\ detached' = [detached EXCEPT ![c] = NoSurface]
           /\ recycled' = Drained(c)
           /\ DestroyInOrder(Doomed(c, <<BackSurface(c)>>))
           /\ UNCHANGED <<size, held, texture, surfaceSize>>
<1>1. /\ CanTake(c) /\ Live(c)
      /\ ~TakePanics(c) /\ ~TakeRefused(c) /\ ~UnbindRefused(c)
  BY CallFindsBackBuffer DEF Destroy
<1>2. QED
  BY <1>1 DEF Destroy, Disciplined

\* What each lemma below shows of the step that it is about.
ProtocolKept ==
    OneCurrentBackBuffer' /\ BackBufferComesBack' /\ NoPanic' /\ RetiredEmpty'

LEMMA ProtocolCreate ==
    ASSUME Disciplined, ProtocolInv,
           BindFirstSurface \/ \E c \in Chains : CreateAttached(c) \/ CreateDetached(c)
    PROVE  ProtocolKept
<1> USE NoSurfaceAssumption DEF ProtocolKept, ProtocolInv, TypeOK, OptSurface, Live,
        IsAttached, IsTaken, OneCurrentBackBuffer, BackBufferComesBack, NoPanic,
        RetiredEmpty, Disciplined
<1>1. CASE BindFirstSurface
  BY <1>1 DEF BindFirstSurface, chainVars, Free
<1>2. ASSUME NEW c \in Chains, CreateAttached(c)
      PROVE  ProtocolKept
  <2>1. /\ back[c] = "Absent" /\ bound # NoSurface
        /\ back' = [back EXCEPT ![c] = "Attached"]
        /\ result' = "ok"
        /\ \A d \in Chains : IsAttached(d) => d \in retired
        /\ UNCHANGED <<bound, pending, recycled, retired, held, texture>>
    BY <1>2 DEF CreateAttached
  <2>2. OneCurrentBackBuffer' /\ BackBufferComesBack' /\ NoPanic'
    BY <2>1
  <2>3. RetiredEmpty'
    BY <2>1
  <2>4. QED
    BY <2>2, <2>3
<1>3. ASSUME NEW c \in Chains, CreateDetached(c)
      PROVE  ProtocolKept
  <2>1. /\ back[c] = "Absent"
        /\ UNCHANGED back \/ back' = [back EXCEPT ![c] = "Detached"]
        /\ UNCHANGED <<bound, pending, recycled, retired, held, texture>>
        /\ result' # "panic"
    BY <1>3 DEF CreateDetached
  <2>2. OneCurrentBackBuffer' /\ BackBufferComesBack' /\ NoPanic'
    <3>1. \A d \in Chains \ {c} : back'[d] = back[d]
      BY <2>1
    <3>2. back'[c] \in {"Absent", "Detached"}
      BY <2>1
    <3>3. OneCurrentBackBuffer'
      <4>1. ASSUME NEW d \in Chains, Live(d)', IsAttached(d)'
            PROVE  Live(d) /\ IsAttached(d) /\ back'[d] = back[d]
        BY <2>1, <3>1, <3>2, <4>1
      <4>2. OneCurrentBackBuffer /\ UNCHANGED bound
        BY <2>1
      <4> HIDE DEF Live, IsAttached
      <4>3. \A d, e \in Chains :
               Live(d)' /\ Live(e)' /\ IsAttached(d)' /\ IsAttached(e)' => d = e
        BY <4>1, <4>2
      <4>4. \A d \in Chains :
               Live(d)' /\ IsAttached(d)' => (back'[d] = "Attached" <=> bound' # NoSurface)
        BY <4>1, <4>2
      <4>5. QED
        BY <4>3, <4>4
    <3>4. BackBufferComesBack' /\ NoPanic'
      BY <2>1, <3>1, <3>2
    <3>5. QED
      BY <3>3, <3>4
  <2>3. RetiredEmpty'
    BY <2>1
  <2>4. QED
    BY <2>2, <2>3
<1>4. QED
  BY <1>1, <1>2, <1>3

\* A swap and a resize exchange the back buffer for another surface.
LEMMA ProtocolExchange ==
    ASSUME Disciplined, ProtocolInv, NEW c \in Chains, MayCall(c),
           NEW n \in Surfaces,
           Exchange(c, n) \/ UNCHANGED <<back, bound, detached>>,
           result' # "panic",
           UNCHANGED <<retired, texture, held>>,
           \A d \in Chains \ {c} : UNCHANGED <<pending[d], recycled[d]>>
    PROVE  ProtocolKept
<1>1. /\ Live(c) /\ CanTake(c)
      /\ \A d \in Chains : texture[d] = NoSurface
  BY CallFindsBackBuffer
<1>2. /\ back' = back
      /\ back[c] = "Attached" => bound' # NoSurface
      /\ back[c] # "Attached" => bound' = bound
  BY <1>1, NoSurfaceAssumption DEF Exchange, CanTake
<1>3. OneCurrentBackBuffer'
  <2>1. back[c] = "Attached" => bound # NoSurface
    BY <1>1 DEF CanTake
  <2>2. QED
    BY <1>1, <1>2, <2>1 DEF OneCurrentBackBuffer, ProtocolInv, Live, IsAttached
<1>4. BackBufferComesBack' /\ NoPanic'
  BY <1>2 DEF ProtocolInv, BackBufferComesBack, NoPanic, Live, IsTaken
<1>5. RetiredEmpty'
  <2>1. c \notin retired
    BY DisciplinedCalls
  <2>2. QED
    BY <1>2, <2>1 DEF ProtocolInv, RetiredEmpty, IsTaken, TypeOK
<1>6. QED
  BY <1>3, <1>4, <1>5 DEF ProtocolKept

LEMMA ProtocolSwap ==
    ASSUME Disciplined, ProtocolInv, NEW c \in Chains, SwapBuffers(c)
    PROVE  ProtocolKept
<1>1. /\ MayCall(c)
      /\ UNCHANGED <<retired, texture, held>>
      /\ ~TakeFails(c) /\ ~TakePanics(c) /\ ~BindRefused(c)
  BY CallFindsBackBuffer DEF SwapBuffers
<1>2. ASSUME NEW n \in Surfaces, NEW rest, SwapIn(c, n, rest)
      PROVE  ProtocolKept
  <2>1. Exchange(c, n) /\ result' = "ok"
    BY <1>1, <1>2 DEF SwapIn
  <2>2. \A d \in Chains \ {c} : UNCHANGED <<pending[d], recycled[d]>>
    BY <1>1, <1>2 DEF SwapIn, ProtocolInv, TypeOK
  <2>3. QED
    BY <1>1, <2>1, <2>2, ProtocolExchange
<1>3. CASE \E i \in FirstFit(c) : SwapIn(c, Pool(c)[i], SwapRemove(Pool(c), i))
  <2>1. PICK i \in 1..Len(Pool(c)) : SwapIn(c, Pool(c)[i], SwapRemove(Pool(c), i))
    BY <1>3 DEF FirstFit
  <2>2. Pool(c)[i] \in Surfaces
    BY PoolType, ElementOfSeq DEF ProtocolInv
  <2>3. QED
    BY <2>1, <2>2, <1>2
<1>4. CASE \E n \in Free : SwapIn(c, n, Pool(c))
  BY <1>2, <1>4 DEF Free
<1>5. CASE /\ recycled' = [recycled EXCEPT ![c] = Pool(c)]
           /\ pending' = [pending EXCEPT ![c] = NoSurface]
           /\ result' = "err"
           /\ UNCHANGED <<bound, back, detached>>
  BY <1>1, <1>5, DisciplinedCalls DEF ProtocolKept, ProtocolInv, TypeOK,
     OneCurrentBackBuffer, BackBufferComesBack, NoPanic, RetiredEmpty, Live, IsAttached,
     IsTaken
<1>6. QED
  BY <1>3, <1>4, <1>5 DEF SwapBuffers

LEMMA ProtocolResize ==
    ASSUME Disciplined, ProtocolInv, NEW c \in Chains, Resize(c)
    PROVE  ProtocolKept
<1>1. /\ MayCall(c)
      /\ UNCHANGED <<pending, retired, texture, held>>
      /\ ~TakeFails(c) /\ ~TakePanics(c) /\ ~BindRefused(c)
  BY CallFindsBackBuffer DEF Resize
<1>2. ASSUME NEW n \in Free, NEW z \in Sizes, ResizeTo(c, n, z)
      PROVE  ProtocolKept
  <2>1. /\ Exchange(c, n)
        /\ result' # "panic"
        /\ recycled' = [recycled EXCEPT ![c] = <<>>] \/ UNCHANGED recycled
    BY <1>1, <1>2 DEF ResizeTo, Drained, DestroyInOrder
  <2>2. \A d \in Chains \ {c} : UNCHANGED <<pending[d], recycled[d]>>
    BY <1>1, <2>1 DEF ProtocolInv, TypeOK
  <2>3. n \in Surfaces
    BY DEF Free
  <2>4. QED
    BY <1>1, <2>1, <2>2, <2>3, ProtocolExchange
<1>3. CASE result' = "err" /\ UNCHANGED <<bound, back, detached, recycled>>
  BY <1>1, <1>3 DEF ProtocolKept, ProtocolInv, OneCurrentBackBuffer,
     BackBufferComesBack, NoPanic, RetiredEmpty, Live, IsAttached, IsTaken
<1>4. QED
  BY <1>2, <1>3 DEF Resize

LEMMA ProtocolTakeAttachment ==
    ASSUME Disciplined, ProtocolInv, NEW c \in Chains, NEW d \in Chains,
           TakeAttachmentFrom(c, d)
    PROVE  ProtocolKept
<1>1. /\ c # d /\ c \notin retired /\ d \notin retired
      /\ CanTake(c) /\ CanTake(d) /\ Live(c) /\ Live(d)
      /\ \A e \in Chains : texture[e] = NoSurface
  BY CallFindsBackBuffer DEF TakeAttachmentFrom
<1>2. ~(back[c] = "Attached" /\ back[d] = "Attached")
  BY <1>1 DEF ProtocolInv, OneCurrentBackBuffer, IsAttached
<1>3. TakeAttachmentOk(c, d)
  <2>1. ~TakeAttachmentUnbound(c, d)
    BY DEF TakeAttachmentUnbound, Disciplined
  <2>2. ~TakeAttachmentHalfway(c, d)
    BY <1>1, <1>2 DEF TakeAttachmentHalfway, CanTake, IsTaken, Disciplined
  <2>3. ~TakeAttachmentRefused(c)
    BY CallFindsBackBuffer DEF TakeAttachmentFrom, TakeAttachmentRefused
  <2>4. QED
    BY <2>1, <2>2, <2>3 DEF TakeAttachmentFrom
<1>4. /\ back' = [back EXCEPT ![c] = back[d], ![d] = back[c]]
      /\ result' = "ok"
      /\ UNCHANGED <<pending, recycled, retired, held, texture>>
  BY <1>3 DEF TakeAttachmentOk, TakeAttachmentFrom
<1>5. bound' # NoSurface <=> bound # NoSurface
  <2>1. back[c] = "Detached" => detached[c] # NoSurface
    BY DEF ProtocolInv, TypeOK
  <2>2. back[d] = "Detached" => detached[d] # NoSurface
    BY DEF ProtocolInv, TypeOK
  <2>3. QED
    BY <1>1, <1>3, <2>1, <2>2 DEF TakeAttachmentOk, CanTake
<1>6. OneCurrentBackBuffer'
  BY <1>1, <1>4, <1>5 DEF OneCurrentBackBuffer, ProtocolInv, TypeOK, Live, IsAttached
<1>7. BackBufferComesBack' /\ NoPanic'
  BY <1>1, <1>4 DEF ProtocolInv, TypeOK, BackBufferComesBack, NoPanic, Live, IsTaken,
     CanTake
<1>8. RetiredEmpty'
  BY <1>1, <1>4 DEF ProtocolInv, TypeOK, RetiredEmpty, IsTaken
<1>9. QED
  BY <1>6, <1>7, <1>8 DEF ProtocolKept

LEMMA ProtocolTexture ==
    ASSUME Disciplined, ProtocolInv, NEW c \in Chains,
           TakeSurfaceTexture(c) \/ RecycleSurfaceTexture(c)
    PROVE  ProtocolKept
<1> USE NoSurfaceAssumption DEF ProtocolInv, TypeOK, OptSurface
<1>1. CASE TakeSurfaceTexture(c)
  <2>1. /\ c \notin retired /\ Live(c) /\ CanTake(c)
        /\ ~TakeFails(c) /\ ~TakePanics(c) /\ ~BindRefused(c)
    BY <1>1, CallFindsBackBuffer DEF TakeSurfaceTexture
  <2>2. /\ back' = [back EXCEPT ![c] = IF back[c] = "Attached" THEN "TakenAttached"
                                                               ELSE "TakenDetached"]
        /\ bound' = IF back[c] = "Attached" THEN NoSurface ELSE bound
        /\ texture' = [texture EXCEPT ![c] = BackSurface(c)]
        /\ result' = "ok"
        /\ UNCHANGED <<pending, recycled, retired, held>>
    BY <1>1, <2>1 DEF TakeSurfaceTexture, Disciplined
  <2>3. BackSurface(c) # NoSurface
    BY <2>1 DEF CanTake, BackSurface
  <2>4. OneCurrentBackBuffer'
    BY <2>1, <2>2 DEF OneCurrentBackBuffer, Live, IsAttached, CanTake
  <2>5. BackBufferComesBack' /\ NoPanic'
    BY <2>2, <2>3 DEF BackBufferComesBack, NoPanic, Live, IsTaken
  <2>6. RetiredEmpty'
    BY <2>1, <2>2 DEF RetiredEmpty, IsTaken
  <2>7. QED
    BY <2>4, <2>5, <2>6 DEF ProtocolKept
<1>2. CASE RecycleSurfaceTexture(c)
  <2>1. texture[c] # NoSurface /\ IsTaken(c)
    BY <1>2, OwnTexture DEF TextureKeepsSlot
  <2>2. c \notin retired /\ Live(c)
    BY <2>1 DEF RetiredEmpty, Live, IsTaken
  <2>3. back[c] = "TakenAttached" => bound = NoSurface
    BY <2>2 DEF OneCurrentBackBuffer, IsAttached
  <2>4. /\ back' = [back EXCEPT ![c] = IF back[c] = "TakenAttached" THEN "Attached"
                                                                    ELSE "Detached"]
        /\ bound' = IF back[c] = "TakenAttached" THEN texture[c] ELSE bound
        /\ texture' = [texture EXCEPT ![c] = NoSurface]
        /\ result' = "ok"
        /\ UNCHANGED <<pending, recycled, retired, held>>
    BY <1>2, <2>1, <2>3, OwnTexture DEF IsTaken
  <2>5. OneCurrentBackBuffer'
    BY <2>1, <2>2, <2>4 DEF OneCurrentBackBuffer, Live, IsAttached, IsTaken
  <2>6. BackBufferComesBack' /\ NoPanic'
    BY <2>4 DEF BackBufferComesBack, NoPanic, Live, IsTaken
  <2>7. RetiredEmpty'
    BY <2>2, <2>4 DEF RetiredEmpty, IsTaken
  <2>8. QED
    BY <2>5, <2>6, <2>7 DEF ProtocolKept
<1>3. QED
  BY <1>1, <1>2

LEMMA ProtocolClear ==
    ASSUME Disciplined, ProtocolInv, NEW c \in Chains, ClearSurface(c)
    PROVE  ProtocolKept
<1>1. CanTake(c)
  BY CallFindsBackBuffer DEF ClearSurface
<1>2. result' = "ok" /\ UNCHANGED <<back, bound, detached>>
  BY <1>1 DEF ClearSurface, CanTake, IsAttached, Disciplined
<1>3. UNCHANGED <<pending, recycled, retired, held, texture>>
  BY DEF ClearSurface
<1>4. QED
  BY <1>2, <1>3 DEF ProtocolKept, ProtocolInv, OneCurrentBackBuffer,
     BackBufferComesBack, NoPanic, RetiredEmpty, Live, IsAttached, IsTaken

LEMMA ProtocolDestroy ==
    ASSUME Disciplined, ProtocolInv, NEW c \in Chains, Destroy(c)
    PROVE  ProtocolKept
<1> USE NoSurfaceAssumption DEF ProtocolInv, TypeOK, OptSurface
<1>1. /\ CanTake(c) /\ Live(c)
      /\ ~TakePanics(c)
      /\ \A d \in Chains : texture[d] = NoSurface
  BY CallFindsBackBuffer DEF Destroy
<1>2. /\ retired' = retired \cup {c}
      /\ pending' = [pending EXCEPT ![c] = NoSurface]
      /\ back' = [back EXCEPT ![c] = IF IsAttached(c) THEN "TakenAttached"
                                                     ELSE "TakenDetached"]
      /\ bound' = IF back[c] = "Attached" THEN NoSurface ELSE bound
      /\ recycled' = [recycled EXCEPT ![c] = <<>>]
      /\ result' # "panic"
      /\ UNCHANGED <<held, texture>>
      /\ held[c] = {}
  BY <1>1, DestroyTakesBack DEF Drained, DestroyInOrder, CanTake, IsAttached
<1>3. OneCurrentBackBuffer'
  BY <1>1, <1>2 DEF OneCurrentBackBuffer, Live, IsAttached, CanTake
<1>4. BackBufferComesBack' /\ NoPanic'
  BY <1>2 DEF BackBufferComesBack, NoPanic, Live, IsTaken
<1>5. RetiredEmpty'
  BY <1>1, <1>2 DEF RetiredEmpty, IsTaken
<1>6. QED
  BY <1>3, <1>4, <1>5 DEF ProtocolKept

LEMMA ProtocolConsumer ==
    ASSUME Disciplined, ProtocolInv, NEW c \in Chains, Consumer(c) \/ DropChain(c)
    PROVE  ProtocolKept
<1> USE DEF ProtocolKept, ProtocolInv, OneCurrentBackBuffer,
        BackBufferComesBack, NoPanic, RetiredEmpty, Live, IsAttached, IsTaken, TypeOK
<1>1. CASE TakeSurface(c) \/ TakePendingSurface(c)
  <2>1. c \notin retired
    BY <1>1 DEF TakeSurface, TakePendingSurface
  <2>2. QED
    BY <1>1, <2>1 DEF TakeSurface, TakePendingSurface
<1>2. CASE RecycleSurface(c)
  <2>1. /\ held[c] # {} /\ c \notin retired
        /\ \E s \in held[c] :
              /\ held' = [held EXCEPT ![c] = @ \ {s}]
              /\ recycled' = [recycled EXCEPT ![c] = Append(@, s)]
        /\ UNCHANGED <<bound, back, pending, retired, texture, result>>
    BY <1>2, DisciplinedCalls
  <2>2. QED
    BY <2>1
<1>3. CASE DropChain(c)
  BY <1>3 DEF DropChain, Drained
<1>4. QED
  BY <1>1, <1>2, <1>3 DEF Consumer

LEMMA ProtocolNext ==
    ASSUME Disciplined, ProtocolInv, [Next]_vars
    PROVE  ProtocolInv'
<1>1. TypeOK' /\ TextureKeepsSlot'
  BY TypeNext, TextureNext DEF ProtocolInv
<1>2. CASE UNCHANGED vars
  BY <1>2 DEF vars, chainVars, ProtocolInv, ProtocolKept, TypeOK, TextureKeepsSlot,
     OneCurrentBackBuffer, BackBufferComesBack, NoPanic, RetiredEmpty, Live,
     IsAttached, IsTaken
<1>3. CASE Next
  <2>1. ProtocolKept
    <3>1. CASE BindFirstSurface
      BY <3>1, ProtocolCreate
    <3>2. ASSUME NEW c \in Chains, Producer(c)
          PROVE  ProtocolKept
      BY <3>2, ProtocolCreate, ProtocolSwap, ProtocolResize, ProtocolTakeAttachment,
         ProtocolTexture, ProtocolClear, ProtocolDestroy, DisciplinedCalls DEF Producer
    <3>3. ASSUME NEW c \in Chains, Consumer(c) \/ DropChain(c)
          PROVE  ProtocolKept
      BY <3>3, ProtocolConsumer
    <3>4. QED
      BY <1>3, <3>1, <3>2, <3>3 DEF Next
  <2>2. QED
    BY <1>1, <2>1 DEF ProtocolKept, ProtocolInv
<1>4. QED
  BY <1>2, <1>3

LEMMA ProtocolAlways ==
    ASSUME Disciplined
    PROVE  Spec => []ProtocolInv
<1>1. Init => ProtocolInv
  BY TypeInit DEF Init, ProtocolInv, TextureKeepsSlot, OneCurrentBackBuffer,
     BackBufferComesBack, NoPanic, RetiredEmpty, Live, IsAttached, IsTaken
<1>2. ProtocolInv /\ [Next]_vars => ProtocolInv'
  BY ProtocolNext
<1>3. QED
  BY <1>1, <1>2, PTL DEF Spec

\* On a device that binds and makes textures, and with a producer that keeps to
\* the protocol, the attached chain's back buffer is the context's surface.
THEOREM ProtocolKeepsCurrent ==
    ASSUME Disciplined
    PROVE  Spec => []OneCurrentBackBuffer
  BY ProtocolAlways, PTL DEF ProtocolInv

\* Under the same assumptions a back buffer is out only as the producer's texture,
\* and no unwrap() of the swap chain panics, whatever create_surface and
\* destroy_surface do.
THEOREM ProtocolGoesOn ==
    ASSUME Disciplined
    PROVE  Spec => []ProducerGoesOn
  BY ProtocolAlways, PTL DEF ProtocolInv, ProducerGoesOn

-----------------------------------------------------------------------------
(* No surface is lost when only create_surface may fail. *)

LEMMA BelowLast ==
    ASSUME NEW n \in Nat, NEW j \in 1..n, j # n
    PROVE  j \in 1..(n - 1)
  OBVIOUS

\* What swap_remove takes out is the only thing the list no longer holds.
LEMMA SwapRemoveCovers ==
    ASSUME NEW S, NEW q \in Seq(S), NEW i \in 1..Len(q)
    PROVE  Range(q) \subseteq {q[i]} \cup Range(SwapRemove(q, i))
<1>1. Len(q) \in Nat \ {0} /\ DOMAIN q = 1..Len(q)
  BY LenProperties
<1>2. DOMAIN SwapRemove(q, i) = 1..(Len(q) - 1)
  BY DEF SwapRemove
<1>3. ASSUME NEW j \in 1..Len(q), j # i
      PROVE  q[j] \in Range(SwapRemove(q, i))
  <2>1. CASE j = Len(q)
    <3>1. i \in 1..(Len(q) - 1)
      BY <1>1, <1>3, <2>1, BelowLast
    <3>2. SwapRemove(q, i)[i] = q[j]
      BY <2>1, <3>1 DEF SwapRemove
    <3>3. QED
      BY <1>2, <3>1, <3>2 DEF Range
  <2>2. CASE j # Len(q)
    <3>1. j \in 1..(Len(q) - 1)
      BY <1>1, <1>3, <2>2, BelowLast
    <3>2. SwapRemove(q, i)[j] = q[j]
      BY <1>3, <3>1 DEF SwapRemove
    <3>3. QED
      BY <1>2, <3>1, <3>2 DEF Range
  <2>3. QED
    BY <2>1, <2>2
<1>4. QED
  BY <1>1, <1>3 DEF Range

LEMMA AppendRange ==
    ASSUME NEW S, NEW q \in Seq(S), NEW s \in S
    PROVE  Range(Append(q, s)) = Range(q) \cup {s}
<1>1. /\ Len(q) \in Nat /\ DOMAIN q = 1..Len(q)
      /\ DOMAIN Append(q, s) = 1..(Len(q) + 1)
      /\ \A j \in 1..Len(q) : Append(q, s)[j] = q[j]
      /\ Append(q, s)[Len(q) + 1] = s
  BY AppendProperties, LenProperties
<1>2. 1..(Len(q) + 1) = 1..Len(q) \cup {Len(q) + 1}
  BY <1>1
<1>3. QED
  BY <1>1, <1>2 DEF Range

\* Vec::pop takes out the last element and nothing else.
LEMMA PopCovers ==
    ASSUME NEW S, NEW q \in Seq(S), q # <<>>
    PROVE  Range(q) \subseteq {q[Len(q)]} \cup Range(SubSeq(q, 1, Len(q) - 1))
<1>1. Len(q) \in Nat \ {0} /\ DOMAIN q = 1..Len(q)
  BY LenProperties, EmptySeq
<1>2. /\ Len(SubSeq(q, 1, Len(q) - 1)) = Len(q) - 1
      /\ SubSeq(q, 1, Len(q) - 1) \in Seq(S)
      /\ \A j \in 1..(Len(q) - 1) : SubSeq(q, 1, Len(q) - 1)[j] = q[j]
  BY <1>1, SubSeqProperties, ElementOfSeq
<1>3. DOMAIN SubSeq(q, 1, Len(q) - 1) = 1..(Len(q) - 1)
  BY <1>2, LenProperties
<1>4. 1..Len(q) = 1..(Len(q) - 1) \cup {Len(q)}
  BY <1>1
<1>5. QED
  BY <1>1, <1>2, <1>3, <1>4 DEF Range

LEMMA ConcatRange ==
    ASSUME NEW S, NEW p \in Seq(S), NEW q \in Seq(S)
    PROVE  Range(p \o q) = Range(p) \cup Range(q)
<1>1. /\ Len(p) \in Nat /\ Len(q) \in Nat
      /\ DOMAIN p = 1..Len(p) /\ DOMAIN q = 1..Len(q)
      /\ DOMAIN (p \o q) = 1..(Len(p) + Len(q))
      /\ \A j \in 1..(Len(p) + Len(q)) :
             (p \o q)[j] = IF j <= Len(p) THEN p[j] ELSE q[j - Len(p)]
  BY ConcatProperties, LenProperties
<1>2. ASSUME NEW j \in 1..Len(p)
      PROVE  p[j] \in Range(p \o q)
  <2>1. j \in 1..(Len(p) + Len(q)) /\ (p \o q)[j] = p[j]
    BY <1>1
  <2>2. QED
    BY <1>1, <2>1 DEF Range
<1>3. ASSUME NEW j \in 1..Len(q)
      PROVE  q[j] \in Range(p \o q)
  <2>1. Len(p) + j \in 1..(Len(p) + Len(q)) /\ (p \o q)[Len(p) + j] = q[j]
    BY <1>1
  <2>2. QED
    BY <1>1, <2>1 DEF Range
<1>4. ASSUME NEW j \in 1..(Len(p) + Len(q))
      PROVE  (p \o q)[j] \in Range(p) \cup Range(q)
  <2>1. CASE j <= Len(p)
    BY <1>1, <2>1 DEF Range
  <2>2. CASE ~(j <= Len(p))
    <3>1. j - Len(p) \in 1..Len(q) /\ (p \o q)[j] = q[j - Len(p)]
      BY <1>1, <2>2
    <3>2. QED
      BY <1>1, <3>1 DEF Range
  <2>3. QED
    BY <2>1, <2>2
<1>5. QED
  BY <1>1, <1>2, <1>3, <1>4 DEF Range

LEMMA PoolRange ==
    ASSUME TypeOK, NEW c \in Chains
    PROVE  /\ Range(recycled[c]) \subseteq Range(Pool(c))
           /\ pending[c] # NoSurface => pending[c] \in Range(Pool(c))
<1>1. CASE pending[c] = NoSurface
  BY <1>1 DEF Pool
<1>2. CASE pending[c] # NoSurface
  <2>1. Range(Append(recycled[c], pending[c])) = Range(recycled[c]) \cup {pending[c]}
    BY <1>2, AppendRange DEF TypeOK, OptSurface
  <2>2. QED
    BY <1>2, <2>1 DEF Pool
<1>3. QED
  BY <1>1, <1>2

\* destroy is about what a chain has in front and in its pool, and about its back
\* buffer if it could be taken.
LEMMA DoomedRange ==
    ASSUME TypeOK, NEW c \in Chains, NEW rear \in Seq(Surfaces)
    PROVE  Range(Doomed(c, rear)) =
               ({pending[c]} \ {NoSurface}) \cup Range(rear) \cup Range(recycled[c])
<1> DEFINE front == IF pending[c] = NoSurface THEN <<>> ELSE <<pending[c]>>
<1>1. front \in Seq(Surfaces)
  BY EmptySeq DEF TypeOK, OptSurface
<1>2. recycled[c] \in Seq(Surfaces) /\ rear \o recycled[c] \in Seq(Surfaces)
  BY ConcatProperties DEF TypeOK
<1>3. Doomed(c, rear) = front \o rear \o recycled[c]
  BY DEF Doomed
<1>4. front \o rear \in Seq(Surfaces)
  BY <1>1, ConcatProperties
<1>5. Range(Doomed(c, rear)) = Range(front) \cup Range(rear) \cup Range(recycled[c])
  <2> HIDE DEF front
  <2>1. Range(front \o rear) = Range(front) \cup Range(rear)
    BY <1>1, ConcatRange
  <2>2. Range((front \o rear) \o recycled[c]) = Range(front \o rear) \cup Range(recycled[c])
    BY <1>2, <1>4, ConcatRange
  <2>3. QED
    BY <1>3, <2>1, <2>2
<1>6. Range(front) = {pending[c]} \ {NoSurface}
  BY DEF Range
<1>7. QED
  BY <1>5, <1>6

LEMMA RearRange ==
    ASSUME NEW b
    PROVE  Range(<<b>>) = {b} /\ Range(<<>>) = {}
  BY DEF Range

\* A step that touches chain c only loses nothing if it keeps what c and the
\* context had and what it creates, or destroys it.
LEMMA KeptByOne ==
    ASSUME NothingLost, NEW c \in Chains,
           \A d \in Chains \ {c} : OwnedBy(d)' = OwnedBy(d),
           \A s \in alive' :
               \/ s \notin alive
               \/ s = bound /\ s # NoSurface
               \/ s \in OwnedBy(c)
               => \/ s = bound' /\ s # NoSurface
                  \/ s \in OwnedBy(c)'
    PROVE  NothingLost'
<1>1. ASSUME NEW s \in alive'
      PROVE  s \in Placed'
  <2>1. CASE \/ s = bound' /\ s # NoSurface
             \/ s \in OwnedBy(c)'
    BY <2>1 DEF Placed
  <2>2. CASE s \in alive /\ s \notin OwnedBy(c) /\ ~(s = bound /\ s # NoSurface)
    <3>1. PICK d \in Chains : s \in OwnedBy(d)
      BY <2>2 DEF NothingLost, Placed
    <3>2. s \in OwnedBy(d)'
      BY <2>2, <3>1
    <3>3. QED
      BY <3>2 DEF Placed
  <2>3. QED
    BY <2>1, <2>2
<1>2. QED
  BY <1>1 DEF NothingLost

LEMMA OwnedType ==
    ASSUME TypeOK, NEW c \in Chains
    PROVE  OwnedBy(c) \subseteq Surfaces
  BY LenProperties, ElementOfSeq DEF OwnedBy, TypeOK, OptSurface, Range

\* Whoever can take the back buffer of c takes what c and the context hold of it.
LEMMA BackSurfaceHeld ==
    ASSUME TypeOK, NEW c \in Chains, CanTake(c)
    PROVE  /\ BackSurface(c) \in Surfaces
           /\ back[c] = "Attached" => BackSurface(c) = bound /\ detached[c] = NoSurface
           /\ back[c] # "Attached" => BackSurface(c) = detached[c]
  BY NoSurfaceAssumption DEF TypeOK, OptSurface, CanTake, BackSurface

LEMMA NothingLostSwap ==
    ASSUME Disciplined, ProtocolInv, NothingLost, NEW c \in Chains, SwapBuffers(c)
    PROVE  NothingLost'
<1> USE NoSurfaceAssumption DEF ProtocolInv
<1>1. /\ CanTake(c) /\ UNCHANGED <<held, texture>>
      /\ ~TakeFails(c) /\ ~TakePanics(c) /\ ~BindRefused(c)
  BY CallFindsBackBuffer DEF SwapBuffers
<1>2. ASSUME NEW n \in Surfaces, NEW rest, SwapIn(c, n, rest),
             Range(Pool(c)) \subseteq {n} \cup Range(rest)
      PROVE  NothingLost'
  <2>1. /\ Exchange(c, n)
        /\ recycled' = [recycled EXCEPT ![c] = rest]
        /\ pending' = [pending EXCEPT ![c] = BackSurface(c)]
        /\ alive' = alive \cup {n}
    BY <1>1, <1>2 DEF SwapIn
  <2>2. \A d \in Chains \ {c} : OwnedBy(d)' = OwnedBy(d)
    BY <1>1, <2>1 DEF OwnedBy, Exchange, TypeOK
  <2>3. n = bound' \/ n \in OwnedBy(c)'
    BY <1>1, <2>1 DEF OwnedBy, Exchange, CanTake, TypeOK
  <2>4. BackSurface(c) \in OwnedBy(c)'
    BY <1>1, <2>1, BackSurfaceHeld DEF OwnedBy, TypeOK
  <2>5. Range(rest) \subseteq OwnedBy(c)'
    BY <2>1 DEF OwnedBy, TypeOK
  <2>6. bound' = bound \/ bound = BackSurface(c)
    BY <1>1, <2>1, BackSurfaceHeld DEF Exchange
  <2>7. ASSUME NEW s \in OwnedBy(c)
        PROVE  s = n \/ s = BackSurface(c) \/ s \in Range(rest) \/ s \in OwnedBy(c)'
    <3>1. CASE s = detached[c] /\ s # NoSurface
      BY <1>1, <3>1, BackSurfaceHeld
    <3>2. CASE s = pending[c] /\ s # NoSurface
      BY <1>2, <3>2, PoolRange
    <3>3. CASE s \in Range(recycled[c])
      BY <1>2, <3>3, PoolRange
    <3>4. CASE s \in held[c] \/ (s = texture[c] /\ s # NoSurface)
      BY <1>1, <3>4 DEF OwnedBy
    <3>5. QED
      BY <2>7, <3>1, <3>2, <3>3, <3>4 DEF OwnedBy
  <2>8. QED
    BY <2>1, <2>2, <2>3, <2>4, <2>5, <2>6, <2>7, KeptByOne
<1>3. CASE \E i \in FirstFit(c) : SwapIn(c, Pool(c)[i], SwapRemove(Pool(c), i))
  <2>1. PICK i \in 1..Len(Pool(c)) : SwapIn(c, Pool(c)[i], SwapRemove(Pool(c), i))
    BY <1>3 DEF FirstFit
  <2>2. Pool(c)[i] \in Surfaces
    BY PoolType, ElementOfSeq
  <2>3. Range(Pool(c)) \subseteq {Pool(c)[i]} \cup Range(SwapRemove(Pool(c), i))
    BY PoolType, SwapRemoveCovers
  <2>4. QED
    BY <2>1, <2>2, <2>3, <1>2
<1>4. CASE \E n \in Free : SwapIn(c, n, Pool(c))
  BY <1>2, <1>4 DEF Free
<1>5. CASE /\ recycled' = [recycled EXCEPT ![c] = Pool(c)]
           /\ pending' = [pending EXCEPT ![c] = NoSurface]
           /\ UNCHANGED <<bound, back, detached, alive>>
  <2>1. \A d \in Chains \ {c} : OwnedBy(d)' = OwnedBy(d)
    BY <1>1, <1>5 DEF OwnedBy, TypeOK
  <2>2. OwnedBy(c) \subseteq OwnedBy(c)'
    BY <1>1, <1>5, PoolRange DEF OwnedBy, TypeOK
  <2>3. QED
    BY <1>5, <2>1, <2>2, KeptByOne
<1>6. QED
  BY <1>3, <1>4, <1>5 DEF SwapBuffers

LEMMA NothingLostResize ==
    ASSUME Disciplined, "destroy" \notin Faults, ProtocolInv, NothingLost,
           NEW c \in Chains, Resize(c)
    PROVE  NothingLost'
<1> USE NoSurfaceAssumption DEF ProtocolInv
<1>1. /\ CanTake(c) /\ UNCHANGED <<pending, held, texture>>
      /\ ~TakeFails(c) /\ ~TakePanics(c) /\ ~BindRefused(c)
  BY CallFindsBackBuffer DEF Resize
<1>2. CASE \E n \in Free, z \in Sizes : ResizeTo(c, n, z)
  <2>1. PICK n \in Free, z \in Sizes : ResizeTo(c, n, z)
    BY <1>2
  <2>2. /\ Exchange(c, n)
        /\ alive' = (alive \cup {n}) \ ({BackSurface(c)} \cup Range(recycled[c]))
        /\ recycled' = Drained(c)
        /\ n \in Surfaces
    BY <1>1, <2>1 DEF ResizeTo, Free
  <2>3. \A d \in Chains \ {c} : OwnedBy(d)' = OwnedBy(d)
    BY <1>1, <2>2 DEF OwnedBy, Exchange, Drained, TypeOK
  <2>4. n = bound' \/ n \in OwnedBy(c)'
    BY <1>1, <2>2 DEF OwnedBy, Exchange, CanTake, TypeOK
  <2>5. bound' = bound \/ bound = BackSurface(c)
    BY <1>1, <2>2, BackSurfaceHeld DEF Exchange
  <2>6. ASSUME NEW s \in OwnedBy(c)
        PROVE  s = BackSurface(c) \/ s \in Range(recycled[c]) \/ s \in OwnedBy(c)'
    BY <1>1, <2>6, BackSurfaceHeld DEF OwnedBy
  <2>7. QED
    BY <2>2, <2>3, <2>4, <2>5, <2>6, KeptByOne
<1>3. CASE UNCHANGED <<bound, detached, recycled, alive>>
  BY <1>1, <1>3 DEF NothingLost, Placed, OwnedBy
<1>4. QED
  BY <1>2, <1>3 DEF Resize

LEMMA NothingLostTakeAttachment ==
    ASSUME Disciplined, ProtocolInv, NothingLost, NEW c \in Chains, NEW d \in Chains,
           TakeAttachmentFrom(c, d)
    PROVE  NothingLost'
<1> USE NoSurfaceAssumption DEF ProtocolInv
<1>1. /\ c # d /\ CanTake(c) /\ CanTake(d) /\ Live(c) /\ Live(d)
      /\ UNCHANGED <<pending, recycled, held, texture>>
  BY CallFindsBackBuffer DEF TakeAttachmentFrom
<1>2. ~(back[c] = "Attached" /\ back[d] = "Attached")
  BY <1>1 DEF OneCurrentBackBuffer, IsAttached
<1>3. TakeAttachmentOk(c, d)
  BY <1>1, <1>2 DEF TakeAttachmentFrom, TakeAttachmentUnbound, TakeAttachmentHalfway,
     TakeAttachmentRefused, TakeRefused, TakeFails, TakePanics, UnbindRefused, CanTake, IsTaken, Disciplined
<1>4. alive' = alive
  BY <1>3 DEF TakeAttachmentOk
<1>5. ASSUME NEW e \in Chains
      PROVE  OwnedBy(e) \ {detached[e]} \subseteq OwnedBy(e)'
  BY <1>1, <1>5 DEF OwnedBy
<1>6. ASSUME NEW e \in Chains, detached[e] # NoSurface
      PROVE  detached[e] \in Placed'
  <2>1. CASE e \notin {c, d}
    <3>1. detached'[e] = detached[e]
      BY <1>3, <1>6, <2>1 DEF TakeAttachmentOk, TypeOK
    <3>2. QED
      BY <1>6, <3>1 DEF Placed, OwnedBy
  <2>2. CASE e \in {c, d}
    <3>1. detached[e] = bound' \/ detached'[e] = detached[e]
      BY <1>1, <1>3, <1>6, <2>2 DEF TakeAttachmentOk, TypeOK
    <3>2. QED
      BY <1>6, <3>1 DEF Placed, OwnedBy
  <2>3. QED
    BY <2>1, <2>2
<1>7. bound # NoSurface => bound \in Placed'
  <2>1. bound' = bound \/ detached'[c] = bound \/ detached'[d] = bound
    BY <1>1, <1>3 DEF TakeAttachmentOk, TypeOK
  <2>2. QED
    BY <2>1 DEF Placed, OwnedBy
<1>8. Placed \subseteq Placed'
  <2>1. ASSUME NEW e \in Chains, NEW s \in OwnedBy(e)
        PROVE  s \in Placed'
    <3>1. CASE s = detached[e]
      BY <1>6, <2>1, <3>1, OwnedType
    <3>2. CASE s # detached[e]
      BY <1>5, <2>1, <3>2 DEF Placed
    <3>3. QED
      BY <3>1, <3>2
  <2>2. QED
    BY <1>7, <2>1 DEF Placed
<1>9. QED
  BY <1>4, <1>8 DEF NothingLost

LEMMA NothingLostTexture ==
    ASSUME Disciplined, ProtocolInv, NothingLost, NEW c \in Chains,
           TakeSurfaceTexture(c) \/ RecycleSurfaceTexture(c)
    PROVE  NothingLost'
<1> USE NoSurfaceAssumption DEF ProtocolInv
<1>1. CASE TakeSurfaceTexture(c)
  <2>1. /\ CanTake(c)
        /\ ~TakeFails(c) /\ ~TakePanics(c) /\ ~BindRefused(c)
        /\ texture[c] = NoSurface
    BY <1>1, CallFindsBackBuffer DEF TakeSurfaceTexture
  <2>2. /\ bound' = IF back[c] = "Attached" THEN NoSurface ELSE bound
        /\ detached' = [detached EXCEPT ![c] = NoSurface]
        /\ texture' = [texture EXCEPT ![c] = BackSurface(c)]
        /\ UNCHANGED <<pending, recycled, held, alive>>
    BY <1>1, <2>1 DEF TakeSurfaceTexture, Disciplined
  <2>3. \A d \in Chains \ {c} : OwnedBy(d)' = OwnedBy(d)
    BY <2>2 DEF OwnedBy, TypeOK
  <2>4. BackSurface(c) \in OwnedBy(c)'
    BY <2>1, <2>2, BackSurfaceHeld DEF OwnedBy, TypeOK
  <2>5. bound' = bound \/ bound = BackSurface(c)
    BY <2>1, <2>2, BackSurfaceHeld
  <2>6. OwnedBy(c) \subseteq OwnedBy(c)'
    BY <2>1, <2>2, <2>4, BackSurfaceHeld DEF OwnedBy
  <2>7. QED
    BY <2>2, <2>3, <2>4, <2>5, <2>6, KeptByOne
<1>2. CASE RecycleSurfaceTexture(c)
  <2>1. texture[c] # NoSurface /\ IsTaken(c)
    BY <1>2, OwnTexture DEF TextureKeepsSlot
  <2>2. back[c] = "TakenAttached" => bound = NoSurface
    BY <2>1 DEF RetiredEmpty, Live, IsTaken, OneCurrentBackBuffer, IsAttached
  <2>3. /\ bound' = IF back[c] = "TakenAttached" THEN texture[c] ELSE bound
        /\ texture' = [texture EXCEPT ![c] = NoSurface]
        /\ detached' = IF back[c] = "TakenAttached" THEN detached
                       ELSE [detached EXCEPT ![c] = texture[c]]
        /\ detached[c] = NoSurface
        /\ UNCHANGED <<pending, recycled, held, alive>>
    BY <1>2, <2>1, <2>2, OwnTexture DEF IsTaken, TypeOK
  <2>4. \A d \in Chains \ {c} : OwnedBy(d)' = OwnedBy(d)
    BY <2>3 DEF OwnedBy, TypeOK
  <2>5. texture[c] = bound' \/ texture[c] \in OwnedBy(c)'
    BY <2>1, <2>3 DEF OwnedBy, TypeOK
  <2>6. bound # NoSurface => bound' = bound
    BY <2>2, <2>3
  <2>7. ASSUME NEW s \in OwnedBy(c)
        PROVE  s = texture[c] \/ s \in OwnedBy(c)'
    BY <2>3, <2>7 DEF OwnedBy
  <2>8. QED
    BY <2>1, <2>3, <2>4, <2>5, <2>6, <2>7, KeptByOne
<1>3. QED
  BY <1>1, <1>2

LEMMA NothingLostDestroy ==
    ASSUME Disciplined, "destroy" \notin Faults, ProtocolInv, NothingLost,
           NEW c \in Chains, Destroy(c)
    PROVE  NothingLost'
<1> USE NoSurfaceAssumption DEF ProtocolInv
<1> DEFINE Gone == Range(Doomed(c, <<BackSurface(c)>>))
<1>1. CanTake(c)
  BY DestroyTakesBack
<1>2. /\ alive' = alive \ Gone
      /\ bound' = IF back[c] = "Attached" THEN NoSurface ELSE bound
      /\ pending' = [pending EXCEPT ![c] = NoSurface]
      /\ detached' = [detached EXCEPT ![c] = NoSurface]
      /\ recycled' = Drained(c)
      /\ UNCHANGED <<held, texture>>
  BY DestroyTakesBack DEF DestroyInOrder
<1>3. \A d \in Chains \ {c} : OwnedBy(d)' = OwnedBy(d)
  BY <1>2 DEF OwnedBy, Drained, TypeOK
<1> /\ BackSurface(c) \in Gone
    /\ pending[c] # NoSurface => pending[c] \in Gone
    /\ Range(recycled[c]) \subseteq Gone
  BY <1>1, RearType, RearRange, DoomedRange
<1> HIDE DEF Gone
<1>4. bound' = bound \/ bound \in Gone
  BY <1>1, <1>2, BackSurfaceHeld
<1>5. ASSUME NEW s \in OwnedBy(c)
      PROVE  s \in Gone \/ s \in OwnedBy(c)'
  <2>1. CASE s = detached[c] /\ s # NoSurface
    BY <1>1, <2>1, BackSurfaceHeld
  <2>2. CASE s \in Range(recycled[c]) \/ (s = pending[c] /\ s # NoSurface)
    BY <2>2
  <2>3. CASE s \in held[c] \/ (s = texture[c] /\ s # NoSurface)
    BY <1>2, <2>3 DEF OwnedBy
  <2>4. QED
    BY <1>5, <2>1, <2>2, <2>3 DEF OwnedBy
<1>6. QED
  BY <1>2, <1>3, <1>4, <1>5, KeptByOne

LEMMA NothingLostConsumer ==
    ASSUME Disciplined, ProtocolInv, NothingLost, NEW c \in Chains,
           Consumer(c) \/ DropChain(c)
    PROVE  NothingLost'
<1> USE NoSurfaceAssumption DEF ProtocolInv
<1>1. CASE TakeSurface(c) \/ TakePendingSurface(c)
  <2>1. /\ UNCHANGED <<bound, detached, texture, alive>>
        /\ \/ /\ pending[c] # NoSurface
              /\ held' = [held EXCEPT ![c] = @ \cup {pending[c]}]
              /\ pending' = [pending EXCEPT ![c] = NoSurface]
              /\ UNCHANGED recycled
           \/ /\ pending[c] = NoSurface
              /\ recycled[c] # <<>>
              /\ held' = [held EXCEPT ![c] = @ \cup {recycled[c][Len(recycled[c])]}]
              /\ recycled' = [recycled EXCEPT ![c] = SubSeq(@, 1, Len(@) - 1)]
              /\ UNCHANGED pending
    BY <1>1 DEF TakeSurface, TakePendingSurface
  <2>2. \A d \in Chains \ {c} : OwnedBy(d)' = OwnedBy(d)
    BY <2>1 DEF OwnedBy, TypeOK
  <2>3. CASE pending[c] # NoSurface
    <3>1. /\ held'[c] = held[c] \cup {pending[c]}
          /\ recycled'[c] = recycled[c]
          /\ detached'[c] = detached[c] /\ texture'[c] = texture[c]
      BY <2>1, <2>3 DEF TypeOK
    <3>2. OwnedBy(c) \subseteq OwnedBy(c)'
      BY <3>1 DEF OwnedBy
    <3>3. QED
      BY <2>1, <2>2, <3>2, KeptByOne
  <2>4. CASE pending[c] = NoSurface
    <3>1. Range(recycled[c]) \subseteq {recycled[c][Len(recycled[c])]} \cup
             Range(SubSeq(recycled[c], 1, Len(recycled[c]) - 1))
      BY <2>1, <2>4, PopCovers DEF TypeOK
    <3>2. /\ held'[c] = held[c] \cup {recycled[c][Len(recycled[c])]}
          /\ recycled'[c] = SubSeq(recycled[c], 1, Len(recycled[c]) - 1)
          /\ detached'[c] = detached[c] /\ texture'[c] = texture[c]
          /\ pending'[c] = pending[c]
      BY <2>1, <2>4 DEF TypeOK
    <3>3. OwnedBy(c) \subseteq OwnedBy(c)'
      BY <3>1, <3>2 DEF OwnedBy
    <3>4. QED
      BY <2>1, <2>2, <3>3, KeptByOne
  <2>5. QED
    BY <2>3, <2>4
<1>2. CASE RecycleSurface(c)
  <2>1. PICK s \in held[c] :
          /\ held' = [held EXCEPT ![c] = @ \ {s}]
          /\ recycled' = [recycled EXCEPT ![c] = Append(@, s)]
    BY <1>2, DisciplinedCalls
  <2>2. Range(Append(recycled[c], s)) = Range(recycled[c]) \cup {s}
    BY AppendRange DEF TypeOK
  <2>3. UNCHANGED <<bound, detached, pending, texture, alive>>
    BY <1>2 DEF RecycleSurface
  <2>4. \A d \in Chains \ {c} : OwnedBy(d)' = OwnedBy(d)
    BY <2>1, <2>3 DEF OwnedBy, TypeOK
  <2>5. OwnedBy(c) \subseteq OwnedBy(c)'
    BY <2>1, <2>2, <2>3 DEF OwnedBy, TypeOK
  <2>6. QED
    BY <2>3, <2>4, <2>5, KeptByOne
<1>3. CASE DropChain(c)
  <2>1. /\ pending[c] = NoSurface /\ texture[c] = NoSurface
        /\ recycled[c] = <<>> /\ held[c] = {} /\ detached[c] = NoSurface
    BY <1>3 DEF DropChain, RetiredEmpty, IsTaken, TypeOK
  <2>2. OwnedBy(c) = {}
    BY <2>1 DEF OwnedBy, Range
  <2>3. \A d \in Chains \ {c} : OwnedBy(d)' = OwnedBy(d)
    BY <1>3 DEF DropChain, Drained, OwnedBy, TypeOK
  <2>4. UNCHANGED <<bound, alive>>
    BY <1>3 DEF DropChain
  <2>5. QED
    BY <2>2, <2>3, <2>4, KeptByOne
<1>4. QED
  BY <1>1, <1>2, <1>3 DEF Consumer

LEMMA NothingLostCreate ==
    ASSUME Disciplined, ProtocolInv, NothingLost,
           \/ BindFirstSurface
           \/ \E c \in Chains : CreateAttached(c) \/ CreateDetached(c) \/ ClearSurface(c)
    PROVE  NothingLost'
<1> USE NoSurfaceAssumption DEF ProtocolInv
<1>1. CASE BindFirstSurface
  <2>1. PICK s \in Free : bound' = s /\ alive' = alive \cup {s}
    BY <1>1 DEF BindFirstSurface
  <2>2. \A d \in Chains : OwnedBy(d)' = OwnedBy(d)
    BY <1>1 DEF BindFirstSurface, chainVars, OwnedBy
  <2>3. bound = NoSurface /\ s # NoSurface
    BY <1>1 DEF BindFirstSurface, Free
  <2>4. QED
    BY <2>1, <2>2, <2>3 DEF NothingLost, Placed
<1>2. ASSUME NEW c \in Chains, CreateAttached(c)
      PROVE  NothingLost'
  BY <1>2 DEF CreateAttached, NothingLost, Placed, OwnedBy
<1>3. ASSUME NEW c \in Chains, CreateDetached(c)
      PROVE  NothingLost'
  <2>1. CASE UNCHANGED <<detached, alive>>
    BY <1>3, <2>1 DEF CreateDetached, NothingLost, Placed, OwnedBy
  <2>2. CASE ~UNCHANGED <<detached, alive>>
    <3>1. PICK s \in Free : /\ detached' = [detached EXCEPT ![c] = s]
                            /\ alive' = alive \cup {s}
      BY <1>3, <2>2 DEF CreateDetached
    <3>2. /\ UNCHANGED <<bound, pending, recycled, held, texture>>
          /\ back[c] = "Absent" /\ detached[c] = NoSurface
      BY <1>3 DEF CreateDetached, TypeOK
    <3>3. \A d \in Chains \ {c} : OwnedBy(d)' = OwnedBy(d)
      BY <3>1, <3>2 DEF OwnedBy, TypeOK
    <3>4. OwnedBy(c) \cup {s} \subseteq OwnedBy(c)'
      BY <3>1, <3>2 DEF OwnedBy, TypeOK, Free
    <3>5. QED
      BY <3>1, <3>2, <3>3, <3>4, KeptByOne
  <2>3. QED
    BY <2>1, <2>2
<1>4. ASSUME NEW c \in Chains, ClearSurface(c)
      PROVE  NothingLost'
  <2>1. CanTake(c)
    BY <1>4, CallFindsBackBuffer DEF ClearSurface
  <2>2. UNCHANGED <<bound, detached, pending, recycled, held, texture, alive>>
    BY <1>4, <2>1 DEF ClearSurface, CanTake, IsAttached, Disciplined
  <2>3. QED
    BY <2>2 DEF NothingLost, Placed, OwnedBy
<1>5. QED
  BY <1>1, <1>2, <1>3, <1>4

\* Under the assumptions of ProtocolKeepsCurrent, and if destroy_surface does not
\* fail either, every surface that leaves a chain is destroyed: none is dropped
\* and leaks.
THEOREM ProtocolLosesNothing ==
    ASSUME Disciplined, "destroy" \notin Faults
    PROVE  Spec => []NothingLost
<1>1. Init => NothingLost
  BY DEF Init, NothingLost
<1>2. ASSUME ProtocolInv, NothingLost, [Next]_vars
      PROVE  NothingLost'
  <2>1. CASE UNCHANGED vars
    BY <1>2, <2>1 DEF vars, chainVars, NothingLost, Placed, OwnedBy
  <2>2. CASE BindFirstSurface
    BY <1>2, <2>2, NothingLostCreate
  <2>3. ASSUME NEW c \in Chains, Producer(c)
        PROVE  NothingLost'
    BY <1>2, <2>3, NothingLostCreate, NothingLostSwap, NothingLostResize,
       NothingLostTakeAttachment, NothingLostTexture, NothingLostDestroy,
       DisciplinedCalls DEF Producer
  <2>4. ASSUME NEW c \in Chains, Consumer(c) \/ DropChain(c)
        PROVE  NothingLost'
    BY <1>2, <2>4, NothingLostConsumer
  <2>5. QED
    BY <1>2, <2>1, <2>2, <2>3, <2>4 DEF Next
<1>3. ProtocolInv /\ NothingLost /\ [Next]_vars => NothingLost'
  BY <1>2
<1>4. QED
  BY <1>1, <1>3, ProtocolAlways, PTL DEF Spec

-----------------------------------------------------------------------------
(* The back buffer has the size of its chain. *)

\* A texture is a back buffer that is out, and comes back with its size.
TextureSized ==
    \A c \in Chains :
        Live(c) /\ texture[c] # NoSurface => surfaceSize[texture[c]] = size[c]

SizeInv == BackBufferSized /\ TextureSized

\* A surface about to be created is no chain's back buffer and no texture.
LEMMA FreeIsElsewhere ==
    ASSUME TypeOK, NEW n \in Free
    PROVE  /\ n \in Surfaces /\ n # bound
           /\ \A c \in Chains : n # detached[c] /\ n # texture[c]
<1>1. ASSUME NEW c \in Chains
      PROVE  n \notin OwnedBy(c)
  BY <1>1 DEF Free, Placed
<1>2. n \in Surfaces /\ n # bound
  BY NoSurfaceAssumption DEF Free, Placed
<1>3. QED
  BY <1>1, <1>2, NoSurfaceAssumption DEF OwnedBy

\* What a swap and a resize have in common: c's back buffer becomes n, of the
\* size z that c has from now on, and nothing else that counts changes.
LEMMA SizeExchange ==
    ASSUME Disciplined, ProtocolInv, SizeInv, NEW c \in Chains, MayCall(c),
           NEW n \in Surfaces, NEW z \in Sizes, Exchange(c, n),
           surfaceSize'[n] = z, size' = [size EXCEPT ![c] = z],
           \A s \in Surfaces :
               surfaceSize'[s] = surfaceSize[s]
               \/ (s # bound /\ \A d \in Chains : s # detached[d]),
           UNCHANGED <<retired, texture>>
    PROVE  SizeInv'
<1>1. /\ Live(c) /\ CanTake(c)
      /\ \A d \in Chains : texture[d] = NoSurface
  BY CallFindsBackBuffer
<1>2. /\ back' = back
      /\ bound' = IF back[c] = "Attached" THEN n ELSE bound
      /\ detached' = IF back[c] = "Attached" THEN detached
                                             ELSE [detached EXCEPT ![c] = n]
  BY DEF Exchange
<1>3. TextureSized'
  BY <1>1 DEF TextureSized
<1>4. ASSUME NEW d \in Chains, Live(d)', CanTake(d)'
      PROVE  surfaceSize'[BackSurface(d)'] = size'[d]
  <2>1. CASE d = c
    <3>1. BackSurface(c)' = n
      BY <1>1, <1>2 DEF BackSurface, CanTake, ProtocolInv, TypeOK
    <3>2. QED
      BY <2>1, <3>1 DEF ProtocolInv, TypeOK
  <2>2. CASE d # c
    <3>1. Live(d) /\ back'[d] = back[d] /\ (back[d] = "Attached" => back[c] # "Attached")
      BY <1>1, <1>2, <1>4, <2>2 DEF Live, ProtocolInv, OneCurrentBackBuffer, IsAttached
    <3>2. CanTake(d)
      BY <1>2, <1>4, <3>1 DEF CanTake
    <3>3. BackSurface(d)' = BackSurface(d)
      BY <1>2, <2>2, <3>1, <3>2 DEF BackSurface, ProtocolInv, TypeOK, CanTake
    <3>4. /\ BackSurface(d) \in Surfaces
          /\ BackSurface(d) = bound \/ BackSurface(d) = detached[d]
      BY <3>2 DEF BackSurface, CanTake, ProtocolInv, TypeOK, OptSurface
    <3>5. surfaceSize'[BackSurface(d)] = surfaceSize[BackSurface(d)]
      BY <3>4
    <3>6. QED
      BY <2>2, <3>1, <3>2, <3>3, <3>5 DEF SizeInv, BackBufferSized, ProtocolInv, TypeOK
  <2>3. QED
    BY <2>1, <2>2
<1>5. BackBufferSized'
  BY <1>4 DEF BackBufferSized
<1>6. QED
  BY <1>3, <1>5 DEF SizeInv

\* A step that leaves each chain's back buffer, texture and size alone.
LEMMA SizeStutter ==
    ASSUME SizeInv,
           \A c \in Chains : Live(c)' => /\ Live(c)
                                         /\ size'[c] = size[c]
                                         /\ texture'[c] = texture[c],
           \A c \in Chains : Live(c)' /\ CanTake(c)' =>
                CanTake(c) /\ BackSurface(c)' = BackSurface(c),
           \A c \in Chains : Live(c)' =>
                /\ CanTake(c)' => surfaceSize'[BackSurface(c)] = surfaceSize[BackSurface(c)]
                /\ texture[c] # NoSurface =>
                      surfaceSize'[texture[c]] = surfaceSize[texture[c]]
    PROVE  SizeInv'
<1>1. BackBufferSized'
  BY DEF SizeInv, BackBufferSized
<1>2. TextureSized'
  BY DEF SizeInv, TextureSized
<1>3. QED
  BY <1>1, <1>2 DEF SizeInv

LEMMA SizeSwap ==
    ASSUME Disciplined, ProtocolInv, SizeInv, NEW c \in Chains, SwapBuffers(c)
    PROVE  SizeInv'
<1> USE DEF ProtocolInv
<1>1. /\ MayCall(c)
      /\ UNCHANGED <<size, retired, texture>>
      /\ ~TakeFails(c) /\ ~TakePanics(c) /\ ~BindRefused(c)
  BY CallFindsBackBuffer DEF SwapBuffers
<1>2. size[c] \in Sizes /\ size' = [size EXCEPT ![c] = size[c]]
  BY <1>1 DEF TypeOK
<1>3. CASE \E i \in FirstFit(c) :
              /\ SwapIn(c, Pool(c)[i], SwapRemove(Pool(c), i))
              /\ UNCHANGED surfaceSize
  <2>1. PICK i \in FirstFit(c) :
              /\ SwapIn(c, Pool(c)[i], SwapRemove(Pool(c), i))
              /\ UNCHANGED surfaceSize
    BY <1>3
  <2>2. Pool(c)[i] \in Surfaces /\ surfaceSize[Pool(c)[i]] = size[c]
    BY PoolType, ElementOfSeq DEF FirstFit
  <2>3. Exchange(c, Pool(c)[i])
    BY <1>1, <2>1 DEF SwapIn
  <2>4. QED
    BY <1>1, <1>2, <2>1, <2>2, <2>3, SizeExchange
<1>4. CASE \E n \in Free :
              /\ SwapIn(c, n, Pool(c))
              /\ surfaceSize' = [surfaceSize EXCEPT ![n] = size[c]]
  <2>1. PICK n \in Free :
              /\ SwapIn(c, n, Pool(c))
              /\ surfaceSize' = [surfaceSize EXCEPT ![n] = size[c]]
    BY <1>4
  <2>2. n \in Surfaces /\ n # bound /\ \A d \in Chains : n # detached[d]
    BY FreeIsElsewhere
  <2>3. Exchange(c, n)
    BY <1>1, <2>1 DEF SwapIn
  <2>4. surfaceSize'[n] = size[c] /\ \A s \in Surfaces \ {n} : surfaceSize'[s] = surfaceSize[s]
    BY <2>1, <2>2 DEF TypeOK
  <2>5. QED
    BY <1>1, <1>2, <2>2, <2>3, <2>4, SizeExchange
<1>5. CASE UNCHANGED <<bound, back, detached, surfaceSize>>
  BY <1>1, <1>5 DEF SizeInv, BackBufferSized, TextureSized, Live, CanTake, BackSurface
<1>6. QED
  BY <1>3, <1>4, <1>5 DEF SwapBuffers

LEMMA SizeResize ==
    ASSUME Disciplined, "destroy" \notin Faults, ProtocolInv, SizeInv,
           NEW c \in Chains, Resize(c)
    PROVE  SizeInv'
<1> USE DEF ProtocolInv
<1>1. /\ MayCall(c)
      /\ UNCHANGED <<retired, texture>>
      /\ ~TakeFails(c) /\ ~TakePanics(c) /\ ~BindRefused(c)
  BY CallFindsBackBuffer DEF Resize
<1>2. CASE \E n \in Free, z \in Sizes :
              /\ ResizeTo(c, n, z)
              /\ surfaceSize' = [surfaceSize EXCEPT ![n] = z]
  <2>1. PICK n \in Free, z \in Sizes :
              /\ ResizeTo(c, n, z)
              /\ surfaceSize' = [surfaceSize EXCEPT ![n] = z]
    BY <1>2
  <2>2. n \in Surfaces /\ n # bound /\ \A d \in Chains : n # detached[d]
    BY FreeIsElsewhere
  <2>3. Exchange(c, n) /\ size' = [size EXCEPT ![c] = z]
    BY <1>1, <2>1 DEF ResizeTo, DestroyInOrder
  <2>4. surfaceSize'[n] = z /\ \A s \in Surfaces \ {n} : surfaceSize'[s] = surfaceSize[s]
    BY <2>1, <2>2 DEF TypeOK
  <2>5. QED
    BY <1>1, <2>2, <2>3, <2>4, SizeExchange
<1>3. CASE UNCHANGED <<bound, back, detached, size, surfaceSize>>
  BY <1>1, <1>3 DEF SizeInv, BackBufferSized, TextureSized, Live, CanTake, BackSurface
<1>4. QED
  BY <1>2, <1>3 DEF Resize

LEMMA SizeTakeAttachment ==
    ASSUME Disciplined, ProtocolInv, SizeInv, NEW c \in Chains, NEW d \in Chains,
           TakeAttachmentFrom(c, d)
    PROVE  SizeInv'
<1> USE DEF ProtocolInv
<1>1. /\ c # d
      /\ CanTake(c) /\ CanTake(d) /\ Live(c) /\ Live(d)
      /\ UNCHANGED <<size, retired, texture, surfaceSize>>
      /\ \A e \in Chains : texture[e] = NoSurface
  BY CallFindsBackBuffer DEF TakeAttachmentFrom
<1>2. ~(back[c] = "Attached" /\ back[d] = "Attached")
  BY <1>1 DEF OneCurrentBackBuffer, IsAttached
<1>3. TakeAttachmentOk(c, d)
  BY <1>1, <1>2 DEF TakeAttachmentFrom, TakeAttachmentUnbound, TakeAttachmentHalfway,
     TakeAttachmentRefused, TakeRefused, TakeFails, TakePanics, UnbindRefused, CanTake, IsTaken, Disciplined
<1>4. back' = [back EXCEPT ![c] = back[d], ![d] = back[c]]
  BY <1>3 DEF TakeAttachmentOk
<1>5. BackSurface(c)' = BackSurface(c) /\ BackSurface(d)' = BackSurface(d)
  BY <1>1, <1>3, <1>4 DEF TakeAttachmentOk, BackSurface, CanTake, TypeOK
<1>6. ASSUME NEW e \in Chains \ {c, d}, Live(e)', CanTake(e)'
      PROVE  Live(e) /\ CanTake(e) /\ BackSurface(e)' = BackSurface(e)
  <2>1. Live(e) /\ back'[e] = back[e]
    BY <1>1, <1>4, <1>6 DEF Live, TypeOK
  <2>2. CASE back[e] = "Attached"
    <3>1. back[c] # "Attached" /\ back[d] # "Attached"
      BY <1>1, <2>1, <2>2 DEF OneCurrentBackBuffer, IsAttached
    <3>2. bound' = bound
      BY <1>3, <3>1 DEF TakeAttachmentOk
    <3>3. QED
      BY <1>6, <2>1, <2>2, <3>2 DEF CanTake, BackSurface
  <2>3. CASE back[e] # "Attached"
    <3>1. detached'[e] = detached[e]
      BY <1>3 DEF TakeAttachmentOk, TypeOK
    <3>2. QED
      BY <1>6, <2>1, <2>3, <3>1 DEF CanTake, BackSurface
  <2>4. QED
    BY <2>2, <2>3
<1>7. \A e \in Chains : Live(e)' => Live(e)
  BY <1>1, <1>4 DEF Live, TypeOK
<1>8. QED
  BY <1>1, <1>5, <1>6, <1>7, SizeStutter

LEMMA SizeTexture ==
    ASSUME Disciplined, ProtocolInv, SizeInv, NEW c \in Chains,
           TakeSurfaceTexture(c) \/ RecycleSurfaceTexture(c)
    PROVE  SizeInv'
<1> USE NoSurfaceAssumption DEF ProtocolInv, TypeOK, OptSurface
<1>1. CASE TakeSurfaceTexture(c)
  <2>1. /\ Live(c) /\ CanTake(c)
        /\ ~TakeFails(c) /\ ~TakePanics(c) /\ ~BindRefused(c)
        /\ \A d \in Chains : texture[d] = NoSurface
    BY <1>1, CallFindsBackBuffer DEF TakeSurfaceTexture
  <2>2. /\ back' = [back EXCEPT ![c] = IF back[c] = "Attached" THEN "TakenAttached"
                                                               ELSE "TakenDetached"]
        /\ bound' = IF back[c] = "Attached" THEN NoSurface ELSE bound
        /\ detached' = [detached EXCEPT ![c] = NoSurface]
        /\ texture' = [texture EXCEPT ![c] = BackSurface(c)]
        /\ UNCHANGED <<size, retired, surfaceSize>>
    BY <1>1, <2>1 DEF TakeSurfaceTexture, Disciplined
  <2>3. \A d \in Chains : Live(d)' => Live(d)
    BY <2>1, <2>2 DEF Live
  <2>4. TextureSized'
    BY <2>1, <2>2 DEF TextureSized, SizeInv, BackBufferSized, Live
  <2>5. ASSUME NEW d \in Chains, Live(d)', CanTake(d)'
        PROVE  Live(d) /\ CanTake(d) /\ BackSurface(d)' = BackSurface(d)
    BY <2>1, <2>2, <2>3, <2>5 DEF CanTake, BackSurface
  <2>6. BackBufferSized'
    BY <2>2, <2>5 DEF SizeInv, BackBufferSized
  <2>7. QED
    BY <2>4, <2>6 DEF SizeInv
<1>2. CASE RecycleSurfaceTexture(c)
  <2>1. texture[c] # NoSurface /\ IsTaken(c)
    BY <1>2, OwnTexture DEF TextureKeepsSlot
  <2>2. Live(c)
    BY <2>1 DEF RetiredEmpty, Live, IsTaken
  <2>3. /\ back[c] = "TakenAttached" => bound = NoSurface
        /\ surfaceSize[texture[c]] = size[c]
    BY <2>1, <2>2 DEF OneCurrentBackBuffer, IsAttached, SizeInv, TextureSized
  <2>4. /\ back' = [back EXCEPT ![c] = IF back[c] = "TakenAttached" THEN "Attached"
                                                                    ELSE "Detached"]
        /\ bound' = IF back[c] = "TakenAttached" THEN texture[c] ELSE bound
        /\ texture' = [texture EXCEPT ![c] = NoSurface]
        /\ detached' = IF back[c] = "TakenAttached" THEN detached
                       ELSE [detached EXCEPT ![c] = texture[c]]
        /\ UNCHANGED <<size, retired, surfaceSize>>
    BY <1>2, <2>1, <2>3, OwnTexture DEF IsTaken
  <2>5. TextureSized'
    BY <2>4 DEF TextureSized, SizeInv, Live
  <2>6. surfaceSize'[BackSurface(c)'] = size'[c]
    BY <2>1, <2>3, <2>4 DEF BackSurface, IsTaken
  <2>7. ASSUME NEW d \in Chains \ {c}, Live(d)', CanTake(d)'
        PROVE  Live(d) /\ CanTake(d) /\ BackSurface(d)' = BackSurface(d)
    <3>1. Live(d) /\ back'[d] = back[d] /\ detached'[d] = detached[d]
      BY <2>4, <2>7 DEF Live
    <3>2. back[d] = "Attached" => back[c] # "TakenAttached"
      BY <2>2, <3>1 DEF OneCurrentBackBuffer, IsAttached
    <3>3. QED
      BY <2>1, <2>4, <2>7, <3>1, <3>2 DEF CanTake, BackSurface, IsTaken
  <2>8. BackBufferSized'
    BY <2>4, <2>6, <2>7 DEF SizeInv, BackBufferSized
  <2>9. QED
    BY <2>5, <2>8 DEF SizeInv
<1>3. QED
  BY <1>1, <1>2

LEMMA SizeCreate ==
    ASSUME Disciplined, ProtocolInv, SizeInv,
           BindFirstSurface \/ \E c \in Chains : CreateAttached(c) \/ CreateDetached(c)
    PROVE  SizeInv'
<1> USE NoSurfaceAssumption DEF ProtocolInv, OptSurface
<1>1. CASE BindFirstSurface
  <2>1. /\ UNCHANGED <<back, detached, size, retired, texture>>
        /\ \A c \in Chains : Live(c) => ~IsAttached(c)
        /\ \E s \in Free, z \in Sizes : surfaceSize' = [surfaceSize EXCEPT ![s] = z]
    BY <1>1 DEF BindFirstSurface, chainVars, Live
  <2>2. PICK s \in Free, z \in Sizes : surfaceSize' = [surfaceSize EXCEPT ![s] = z]
    BY <2>1
  <2>3. \A c \in Chains : s # detached[c] /\ s # texture[c]
    BY FreeIsElsewhere
  <2>4. \A c \in Chains : Live(c)' => Live(c) /\ ~IsAttached(c)
    BY <2>1 DEF Live
  <2>5. ASSUME NEW c \in Chains, Live(c)', CanTake(c)'
        PROVE  /\ CanTake(c) /\ BackSurface(c)' = BackSurface(c)
               /\ surfaceSize'[BackSurface(c)] = surfaceSize[BackSurface(c)]
    <3>1. back[c] = "Detached" /\ detached[c] \in Surfaces
      BY <2>1, <2>4, <2>5 DEF CanTake, IsAttached, TypeOK
    <3>2. QED
      BY <2>1, <2>2, <2>3, <3>1 DEF CanTake, BackSurface, TypeOK
  <2>6. \A c \in Chains : texture[c] # NoSurface =>
                             surfaceSize'[texture[c]] = surfaceSize[texture[c]]
    BY <2>2, <2>3 DEF TypeOK
  <2>7. QED
    BY <2>1, <2>4, <2>5, <2>6, SizeStutter
<1>2. ASSUME NEW c \in Chains, CreateAttached(c)
      PROVE  SizeInv'
  <2>1. /\ back[c] = "Absent" /\ texture[c] = NoSurface
        /\ back' = [back EXCEPT ![c] = "Attached"]
        /\ size' = [size EXCEPT ![c] = surfaceSize[bound]]
        /\ UNCHANGED <<bound, detached, retired, texture, surfaceSize>>
    BY <1>2 DEF CreateAttached, TextureKeepsSlot, IsTaken, Disciplined
  <2>2. surfaceSize'[BackSurface(c)'] = size'[c]
    BY <2>1 DEF BackSurface, TypeOK
  <2>3. ASSUME NEW d \in Chains \ {c}, Live(d)'
        PROVE  /\ Live(d) /\ size'[d] = size[d]
               /\ CanTake(d)' => CanTake(d) /\ BackSurface(d)' = BackSurface(d)
    BY <2>1, <2>3 DEF Live, CanTake, BackSurface, TypeOK
  <2>4. BackBufferSized' /\ TextureSized'
    BY <2>1, <2>2, <2>3 DEF SizeInv, BackBufferSized, TextureSized
  <2>5. QED
    BY <2>4 DEF SizeInv
<1>3. ASSUME NEW c \in Chains, CreateDetached(c)
      PROVE  SizeInv'
  <2>1. CASE UNCHANGED <<back, detached, size, surfaceSize>>
    BY <1>3, <2>1 DEF CreateDetached, SizeInv, BackBufferSized, TextureSized, Live,
       CanTake, BackSurface
  <2>2. CASE \E s \in Free, z \in Sizes :
             /\ back' = [back EXCEPT ![c] = "Detached"]
             /\ detached' = [detached EXCEPT ![c] = s]
             /\ size' = [size EXCEPT ![c] = z]
             /\ surfaceSize' = [surfaceSize EXCEPT ![s] = z]
    <3>1. PICK s \in Free, z \in Sizes :
             /\ back' = [back EXCEPT ![c] = "Detached"]
             /\ detached' = [detached EXCEPT ![c] = s]
             /\ size' = [size EXCEPT ![c] = z]
             /\ surfaceSize' = [surfaceSize EXCEPT ![s] = z]
      BY <2>2
    <3>2. /\ s \in Surfaces /\ s # bound
          /\ \A d \in Chains : s # detached[d] /\ s # texture[d]
      BY FreeIsElsewhere
    <3>3. /\ back[c] = "Absent" /\ texture[c] = NoSurface
          /\ UNCHANGED <<bound, retired, texture>>
      BY <1>3 DEF CreateDetached, TextureKeepsSlot, IsTaken
    <3>4. surfaceSize'[BackSurface(c)'] = size'[c]
      BY <3>1, <3>2 DEF BackSurface, TypeOK
    <3>5. ASSUME NEW d \in Chains \ {c}, Live(d)'
          PROVE  /\ Live(d) /\ size'[d] = size[d]
                 /\ CanTake(d)' => CanTake(d) /\ BackSurface(d)' = BackSurface(d)
      BY <3>1, <3>3, <3>5 DEF Live, CanTake, BackSurface, TypeOK
    <3>6. ASSUME NEW x \in Surfaces \ {s}
          PROVE  surfaceSize'[x] = surfaceSize[x]
      BY <3>1, <3>2 DEF TypeOK
    <3>7. \A d \in Chains : CanTake(d) => BackSurface(d) \in Surfaces \ {s}
      BY <3>2 DEF CanTake, BackSurface, TypeOK
    <3>8. BackBufferSized'
      BY <3>4, <3>5, <3>6, <3>7 DEF SizeInv, BackBufferSized
    <3>9. TextureSized'
      BY <3>2, <3>3, <3>5, <3>6 DEF SizeInv, TextureSized, TypeOK
    <3>10. QED
      BY <3>8, <3>9 DEF SizeInv
  <2>3. QED
    BY <1>3, <2>1, <2>2 DEF CreateDetached
<1>4. QED
  BY <1>1, <1>2, <1>3

LEMMA SizeOthers ==
    ASSUME Disciplined, ProtocolInv, SizeInv, NEW c \in Chains,
           ClearSurface(c) \/ Destroy(c) \/ Consumer(c) \/ DropChain(c)
    PROVE  SizeInv'
<1> USE DEF ProtocolInv
<1>1. CASE ClearSurface(c)
  <2>1. CanTake(c)
    BY <1>1, CallFindsBackBuffer DEF ClearSurface
  <2>2. UNCHANGED <<back, bound, detached, size, retired, texture, surfaceSize>>
    BY <1>1, <2>1 DEF ClearSurface, CanTake, IsAttached, Disciplined
  <2>3. QED
    BY <2>2 DEF SizeInv, BackBufferSized, TextureSized, Live, CanTake, BackSurface
<1>2. CASE Consumer(c)
  <2>1. UNCHANGED <<back, bound, detached, size, retired, texture, surfaceSize>>
    BY <1>2 DEF Consumer, TakeSurface, TakePendingSurface, RecycleSurface
  <2>2. QED
    BY <2>1 DEF SizeInv, BackBufferSized, TextureSized, Live, CanTake, BackSurface
<1>3. CASE Destroy(c)
  <2>1. CanTake(c) /\ Live(c)
    BY <1>3, CallFindsBackBuffer DEF Destroy
  <2>2. /\ retired' = retired \cup {c}
        /\ back' = [back EXCEPT ![c] = IF IsAttached(c) THEN "TakenAttached"
                                                       ELSE "TakenDetached"]
        /\ bound' = IF back[c] = "Attached" THEN NoSurface ELSE bound
        /\ detached' = [detached EXCEPT ![c] = NoSurface]
        /\ UNCHANGED <<size, texture, surfaceSize>>
    BY <1>3, <2>1, DestroyTakesBack DEF CanTake, IsAttached
  <2>3. ASSUME NEW d \in Chains, Live(d)'
        PROVE  /\ Live(d)
               /\ CanTake(d)' => CanTake(d) /\ BackSurface(d)' = BackSurface(d)
    <3>1. d # c /\ Live(d) /\ back'[d] = back[d] /\ detached'[d] = detached[d]
      BY <2>2, <2>3 DEF Live, TypeOK
    <3>2. back[d] = "Attached" => bound' = bound
      BY <2>1, <2>2, <3>1 DEF OneCurrentBackBuffer, IsAttached
    <3>3. QED
      BY <3>1, <3>2 DEF CanTake, BackSurface
  <2>4. QED
    BY <2>2, <2>3, SizeStutter
<1>4. CASE DropChain(c)
  <2>1. /\ back' = [back EXCEPT ![c] = "Absent"]
        /\ detached' = [detached EXCEPT ![c] = NoSurface]
        /\ retired' = retired \ {c}
        /\ UNCHANGED <<bound, size, texture, surfaceSize>>
    BY <1>4 DEF DropChain
  <2>2. ASSUME NEW d \in Chains, Live(d)'
        PROVE  /\ Live(d)
               /\ CanTake(d)' => CanTake(d) /\ BackSurface(d)' = BackSurface(d)
    BY <2>1, <2>2 DEF Live, CanTake, BackSurface, TypeOK
  <2>3. QED
    BY <2>1, <2>2, SizeStutter
<1>5. QED
  BY <1>1, <1>2, <1>3, <1>4

\* Under the assumptions of ProtocolLosesNothing the back buffer of a live chain
\* has the size the chain reports.
THEOREM ProtocolKeepsSize ==
    ASSUME Disciplined, "destroy" \notin Faults
    PROVE  Spec => []BackBufferSized
<1>1. Init => SizeInv
  BY DEF Init, SizeInv, BackBufferSized, TextureSized, Live
<1>2. ASSUME ProtocolInv, SizeInv, [Next]_vars
      PROVE  SizeInv'
  <2>1. CASE UNCHANGED vars
    BY <1>2, <2>1 DEF vars, chainVars, SizeInv, BackBufferSized, TextureSized, Live,
       CanTake, BackSurface
  <2>2. CASE BindFirstSurface
    BY <1>2, <2>2, SizeCreate
  <2>3. ASSUME NEW c \in Chains, Producer(c)
        PROVE  SizeInv'
    BY <1>2, <2>3, DisciplinedCalls, SizeCreate, SizeSwap, SizeResize, SizeTakeAttachment, SizeTexture,
       SizeOthers DEF Producer
  <2>4. ASSUME NEW c \in Chains, Consumer(c) \/ DropChain(c)
        PROVE  SizeInv'
    BY <1>2, <2>4, SizeOthers
  <2>5. QED
    BY <1>2, <2>1, <2>2, <2>3, <2>4 DEF Next
<1>3. ProtocolInv /\ SizeInv /\ [Next]_vars => SizeInv'
  BY <1>2
<1>4. SizeInv => BackBufferSized
  BY DEF SizeInv
<1>5. QED
  BY <1>1, <1>3, <1>4, ProtocolAlways, PTL DEF Spec

-----------------------------------------------------------------------------
(* Recycling bounds the pool. *)

\* A set of indices that is not empty has a least one.
LEMMA LeastIndex ==
    ASSUME NEW n \in Nat, NEW S \in SUBSET (1..n), S # {}
    PROVE  \E i \in S : \A j \in 1..(i - 1) : j \notin S
<1> DEFINE below == {1..(i - 1) : i \in S}
           smaller == StrictSubsetOrdering(1..n)
<1>1. IsWellFoundedOn(smaller, FiniteSubsetsOf(1..n))
  BY FS_StrictSubsetOrderingWellFounded
<1>2. below \subseteq SUBSET (1..n) /\ below # {}
  <2>1. \A i \in S : 1..(i - 1) \subseteq 1..n
    OBVIOUS
  <2>2. QED
    BY <2>1
<1>3. FiniteSubsetsOf(1..n) = SUBSET (1..n)
  <2>1. IsFiniteSet(1..n)
    BY FS_Interval
  <2>2. QED
    BY <2>1, FS_FiniteSubsetsOfFinite
<1>4. PICK b \in below : \A a \in below : <<a, b>> \notin smaller
  <2> HIDE DEF below, smaller
  <2>1. QED
    BY <1>1, <1>2, <1>3, WFMin
<1>5. PICK i \in S : b = 1..(i - 1)
  OBVIOUS
<1>6. ASSUME NEW j \in 1..(i - 1), j \in S
      PROVE  FALSE
  <2>1. 1..(j - 1) \in below /\ 1..(i - 1) \in below
    BY <1>6
  <2>2. 1..(j - 1) \subseteq 1..(i - 1) /\ j \notin 1..(j - 1)
    BY <1>6
  <2>3. <<1..(j - 1), 1..(i - 1)>> \in smaller
    BY <1>2, <1>6, <2>1, <2>2 DEF StrictSubsetOrdering
  <2>4. QED
    BY <1>4, <1>5, <2>1, <2>3
<1>7. QED
  BY <1>6

\* Cardinality alone says nothing of an infinite set.
AtMost(S, n) == IsFiniteSet(S) /\ Cardinality(S) <= n

LEMMA AtMostPart ==
    ASSUME NEW S, NEW n \in Nat, AtMost(S, n), NEW T \in SUBSET S
    PROVE  AtMost(T, n)
<1>1. /\ IsFiniteSet(T) /\ Cardinality(T) <= Cardinality(S)
      /\ Cardinality(T) \in Nat /\ Cardinality(S) \in Nat
  BY FS_Subset, FS_CardinalityType DEF AtMost
<1>2. QED
  BY <1>1 DEF AtMost

LEMMA AtMostOneMore ==
    ASSUME NEW S, NEW n \in Nat, AtMost(S, n), NEW x
    PROVE  AtMost(S \cup {x}, n + 1)
<1>1. /\ IsFiniteSet(S \cup {x}) /\ Cardinality(S) \in Nat
      /\ Cardinality(S \cup {x}) = IF x \in S THEN Cardinality(S) ELSE Cardinality(S) + 1
  BY FS_AddElement, FS_CardinalityType DEF AtMost
<1>2. QED
  BY <1>1 DEF AtMost

LEMMA AtMostOneLess ==
    ASSUME NEW S, NEW n \in Nat, AtMost(S, n), Cardinality(S) < n, NEW x
    PROVE  AtMost(S \cup {x}, n)
<1>1. /\ IsFiniteSet(S \cup {x}) /\ Cardinality(S) \in Nat
      /\ Cardinality(S \cup {x}) = IF x \in S THEN Cardinality(S) ELSE Cardinality(S) + 1
  BY FS_AddElement, FS_CardinalityType DEF AtMost
<1>2. QED
  BY <1>1 DEF AtMost

LEMMA AtMostNone == ASSUME NEW n \in Nat PROVE AtMost({}, n)
  BY FS_EmptySet DEF AtMost

\* Vec::pop takes a surface that was in the list, and leaves only such.
LEMMA PopTakes ==
    ASSUME NEW S, NEW q \in Seq(S), q # <<>>
    PROVE  /\ q[Len(q)] \in Range(q)
           /\ Range(SubSeq(q, 1, Len(q) - 1)) \subseteq Range(q)
<1>1. Len(q) \in Nat \ {0} /\ DOMAIN q = 1..Len(q)
  BY LenProperties, EmptySeq
<1>2. /\ Len(SubSeq(q, 1, Len(q) - 1)) = Len(q) - 1
      /\ SubSeq(q, 1, Len(q) - 1) \in Seq(S)
      /\ \A j \in 1..(Len(q) - 1) : SubSeq(q, 1, Len(q) - 1)[j] = q[j]
  BY <1>1, SubSeqProperties, ElementOfSeq
<1>3. DOMAIN SubSeq(q, 1, Len(q) - 1) = 1..(Len(q) - 1)
  BY <1>2, LenProperties
<1>4. Len(q) \in 1..Len(q) /\ \A j \in 1..(Len(q) - 1) : j \in 1..Len(q)
  BY <1>1
<1>5. QED
  BY <1>1, <1>2, <1>3, <1>4 DEF Range

\* The surfaces of a chain, its back buffer among them; which of them have its
\* size, and which had it before it was resized.
Own(c) == OwnedBy(c) \cup (IF back[c] = "Attached" THEN {bound} ELSE {})
Fitting(c) == {s \in Own(c) : surfaceSize[s] = size[c]}
Outgrown(c) == Own(c) \ Fitting(c)

\* The same without the back buffer.
Rest(c) == ({pending[c], texture[c]} \ {NoSurface}) \cup Range(recycled[c]) \cup held[c]

PoolOf(c) ==
    /\ AtMost(held[c], MaxHeld)
    /\ back[c] = "Absent" => OwnedBy(c) = {}
    /\ Live(c) => AtMost(Fitting(c), MaxHeld + 2) /\ AtMost(Outgrown(c), MaxHeld + 1)

PoolInv == \A c \in Chains : PoolOf(c)

LEMMA OwnParts ==
    ProtocolInv => \A c \in Chains : Live(c) =>
        /\ Own(c) \subseteq Surfaces
        /\ CanTake(c) => Own(c) = {BackSurface(c)} \cup Rest(c)
        /\ ~CanTake(c) => Own(c) = Rest(c)
<1> SUFFICES ASSUME ProtocolInv, NEW c \in Chains, Live(c)
             PROVE  /\ Own(c) \subseteq Surfaces
                    /\ CanTake(c) => Own(c) = {BackSurface(c)} \cup Rest(c)
                    /\ ~CanTake(c) => Own(c) = Rest(c)
  OBVIOUS
<1> USE NoSurfaceAssumption
<1>1. TypeOK
  BY DEF ProtocolInv
<1>2. back[c] = "Attached" => bound \in Surfaces /\ detached[c] = NoSurface
  BY <1>1 DEF ProtocolInv, OneCurrentBackBuffer, IsAttached, TypeOK, OptSurface
<1>3. Own(c) \subseteq Surfaces
  BY <1>1, <1>2, OwnedType DEF Own
<1>4. OwnedBy(c) = ({detached[c]} \ {NoSurface}) \cup Rest(c)
  BY DEF OwnedBy, Rest
<1>5. CASE CanTake(c)
  <2>1. CASE back[c] = "Attached"
    BY <1>2, <1>3, <1>4, <2>1, <1>5 DEF Own, BackSurface
  <2>2. CASE back[c] = "Detached"
    BY <1>1, <1>3, <1>4, <2>2, <1>5 DEF Own, BackSurface, TypeOK
  <2>3. QED
    BY <1>3, <1>5, <2>1, <2>2 DEF CanTake
<1>6. CASE ~CanTake(c)
  <2>1. back[c] # "Attached" /\ detached[c] = NoSurface
    BY <1>1, <1>2, <1>6 DEF CanTake, TypeOK
  <2>2. QED
    BY <1>3, <1>4, <1>6, <2>1 DEF Own
<1>7. QED
  BY <1>5, <1>6

LEMMA OwnPartsNext ==
    ProtocolInv' => \A c \in Chains : Live(c)' =>
        /\ Own(c)' \subseteq Surfaces
        /\ CanTake(c)' => Own(c)' = {BackSurface(c)'} \cup Rest(c)'
        /\ ~CanTake(c)' => Own(c)' = Rest(c)'
<1>1. (ProtocolInv => \A c \in Chains : Live(c) =>
        /\ Own(c) \subseteq Surfaces
        /\ CanTake(c) => Own(c) = {BackSurface(c)} \cup Rest(c)
        /\ ~CanTake(c) => Own(c) = Rest(c))'
  BY OwnParts, PTL
<1>2. QED
  BY <1>1

\* A chain that gets no surface, and keeps its size, stays within bounds.
LEMMA PoolShrinks ==
    ASSUME ProtocolInv', NEW c \in Chains, PoolOf(c),
           AtMost(held'[c], MaxHeld),
           back'[c] = "Absent" => OwnedBy(c)' = {},
           Live(c)' =>
              /\ Live(c) /\ size'[c] = size[c]
              /\ Rest(c)' \subseteq Own(c)
              /\ CanTake(c)' => BackSurface(c)' \in Own(c)
              /\ \A s \in Own(c) : surfaceSize'[s] = surfaceSize[s]
    PROVE  PoolOf(c)'
<1>1. ASSUME Live(c)'
      PROVE  AtMost(Fitting(c), MaxHeld + 2)' /\ AtMost(Outgrown(c), MaxHeld + 1)'
  <2>1. Own(c)' \subseteq Own(c)
    BY <1>1, OwnPartsNext
  <2>2. Fitting(c)' \subseteq Fitting(c) /\ Outgrown(c)' \subseteq Outgrown(c)
    BY <1>1, <2>1 DEF Fitting, Outgrown
  <2>3. AtMost(Fitting(c), MaxHeld + 2) /\ AtMost(Outgrown(c), MaxHeld + 1)
    BY <1>1 DEF PoolOf
  <2>4. AtMost(Fitting(c)', MaxHeld + 2) /\ AtMost(Outgrown(c)', MaxHeld + 1)
    BY <2>2, <2>3, AtMostPart, MaxHeldAssumption
  <2>5. QED
    BY <2>4
<1>2. QED
  BY <1>1 DEF PoolOf

\* A chain that a step leaves alone, although the context or other surfaces change.
LEMMA PoolElsewhere ==
    ASSUME ProtocolInv, ProtocolInv', NEW d \in Chains, PoolOf(d),
           UNCHANGED <<back[d], detached[d], pending[d], recycled[d], held[d],
                       texture[d], size[d]>>,
           d \in retired => d \in retired',
           Live(d) /\ back[d] = "Attached" => bound' = bound,
           Live(d) => \A s \in Own(d) : surfaceSize'[s] = surfaceSize[s]
    PROVE  PoolOf(d)'
<1>1. AtMost(held'[d], MaxHeld)
  BY DEF PoolOf
<1>2. OwnedBy(d)' = OwnedBy(d) /\ Rest(d)' = Rest(d)
  BY DEF OwnedBy, Rest
<1>3. back'[d] = "Absent" => OwnedBy(d)' = {}
  BY <1>2 DEF PoolOf
<1>4. Live(d)' => Live(d)
  BY DEF Live
<1>5. ASSUME Live(d), CanTake(d)'
      PROVE  BackSurface(d)' \in Own(d)
  <2>1. CanTake(d) /\ BackSurface(d)' = BackSurface(d)
    BY <1>5 DEF CanTake, BackSurface
  <2>2. QED
    BY <1>5, <2>1, OwnParts
<1>6. Live(d) => Rest(d) \subseteq Own(d)
  BY OwnParts
<1>7. QED
  BY <1>1, <1>2, <1>3, <1>4, <1>5, <1>6, PoolShrinks

\* Creating a surface changes the size of no surface that a chain has.
LEMMA SizesKept ==
    ASSUME ProtocolInv, NEW n \in Free, NEW z,
           surfaceSize' = [surfaceSize EXCEPT ![n] = z],
           NEW d \in Chains, Live(d)
    PROVE  \A s \in Own(d) : surfaceSize'[s] = surfaceSize[s]
<1>1. Own(d) \subseteq Surfaces
  BY OwnParts
<1>2. n # bound /\ n \notin OwnedBy(d)
  BY FreeIsElsewhere DEF ProtocolInv, Free, Placed
<1>3. n \notin Own(d)
  BY <1>2 DEF Own
<1>4. QED
  BY <1>1, <1>3 DEF ProtocolInv, TypeOK

\* What consumers hold and two more surfaces, one of them outgrown, are few enough.
LEMMA HeldAndTwo ==
    ASSUME NEW H, AtMost(H, MaxHeld), NEW x, NEW y
    PROVE  /\ \A S \in SUBSET (H \cup {x, y}) : AtMost(S, MaxHeld + 2)
           /\ \A S \in SUBSET (H \cup {x}) : AtMost(S, MaxHeld + 1)
<1>1. AtMost(H \cup {x}, MaxHeld + 1)
  BY AtMostOneMore, MaxHeldAssumption
<1>2. AtMost((H \cup {x}) \cup {y}, (MaxHeld + 1) + 1)
  <2>1. MaxHeld + 1 \in Nat
    BY MaxHeldAssumption
  <2>2. QED
    BY <1>1, <2>1, AtMostOneMore
<1>3. (H \cup {x}) \cup {y} = H \cup {x, y} /\ (MaxHeld + 1) + 1 = MaxHeld + 2
  BY MaxHeldAssumption
<1>4. AtMost(H \cup {x, y}, MaxHeld + 2)
  BY <1>2, <1>3
<1>5. QED
  BY <1>1, <1>4, AtMostPart, MaxHeldAssumption

LEMMA PoolFew ==
    ASSUME NEW c \in Chains, AtMost(held'[c], MaxHeld), back'[c] # "Absent",
           NEW x, NEW y,
           Fitting(c)' \subseteq held'[c] \cup {x, y},
           Outgrown(c)' \subseteq held'[c] \cup {x}
    PROVE  PoolOf(c)'
<1>1. AtMost(Fitting(c)', MaxHeld + 2) /\ AtMost(Outgrown(c)', MaxHeld + 1)
  BY HeldAndTwo
<1>2. QED
  BY <1>1 DEF PoolOf

LEMMA PoolCreate ==
    ASSUME ProtocolInv, ProtocolInv', PoolInv,
           BindFirstSurface \/ \E c \in Chains : CreateAttached(c) \/ CreateDetached(c)
    PROVE  PoolInv'
<1>1. CASE BindFirstSurface
  <2>1. /\ UNCHANGED chainVars
        /\ \A d \in Chains : Live(d) => back[d] # "Attached"
        /\ \E n \in Free, z \in Sizes : surfaceSize' = [surfaceSize EXCEPT ![n] = z]
    BY <1>1 DEF BindFirstSurface, Live, IsAttached
  <2>2. ASSUME NEW d \in Chains
        PROVE  PoolOf(d)'
    <3>1. Live(d) => \A s \in Own(d) : surfaceSize'[s] = surfaceSize[s]
      BY <2>1, SizesKept
    <3>2. PoolOf(d)
      BY DEF PoolInv
    <3>3. QED
      BY <2>1, <3>1, <3>2, PoolElsewhere DEF chainVars
  <2>3. QED
    BY <2>2 DEF PoolInv
<1>2. ASSUME NEW c \in Chains, CreateAttached(c)
      PROVE  PoolInv'
  <2>1. /\ back[c] = "Absent"
        /\ back' = [back EXCEPT ![c] = "Attached"]
        /\ size' = [size EXCEPT ![c] = surfaceSize[bound]]
        /\ UNCHANGED <<bound, detached, pending, recycled, retired, held, texture,
                       surfaceSize>>
    BY <1>2 DEF CreateAttached, ProtocolInv, NoPanic
  <2>2. back'[c] = "Attached"
    BY <2>1 DEF ProtocolInv, TypeOK
  <2>3. OwnedBy(c)' = {} /\ AtMost(held'[c], MaxHeld)
    BY <2>1 DEF PoolInv, PoolOf, OwnedBy
  <2>4. Own(c)' = {bound}
    BY <2>1, <2>2, <2>3 DEF Own
  <2>5. PoolOf(c)'
    BY <2>2, <2>3, <2>4, PoolFew DEF Fitting, Outgrown
  <2>6. ASSUME NEW d \in Chains \ {c}
        PROVE  PoolOf(d)'
    <3>1. UNCHANGED <<back[d], detached[d], pending[d], recycled[d], held[d], texture[d],
                      size[d]>>
      BY <2>1 DEF ProtocolInv, TypeOK
    <3>2. PoolOf(d)
      BY DEF PoolInv
    <3>3. QED
      BY <2>1, <3>1, <3>2, PoolElsewhere
  <2>7. QED
    BY <2>5, <2>6 DEF PoolInv
<1>3. ASSUME NEW c \in Chains, CreateDetached(c)
      PROVE  PoolInv'
  <2>1. CASE UNCHANGED <<back, detached, size, surfaceSize>>
    <3>1. ASSUME NEW d \in Chains
          PROVE  PoolOf(d)'
      <4>1. PoolOf(d)
        BY DEF PoolInv
      <4>2. QED
        BY <1>3, <2>1, <4>1, PoolElsewhere DEF CreateDetached
    <3>2. QED
      BY <3>1 DEF PoolInv
  <2>2. CASE \E n \in Free, z \in Sizes :
             /\ back' = [back EXCEPT ![c] = "Detached"]
             /\ detached' = [detached EXCEPT ![c] = n]
             /\ size' = [size EXCEPT ![c] = z]
             /\ surfaceSize' = [surfaceSize EXCEPT ![n] = z]
    <3>1. PICK n \in Free, z \in Sizes :
             /\ back' = [back EXCEPT ![c] = "Detached"]
             /\ detached' = [detached EXCEPT ![c] = n]
             /\ size' = [size EXCEPT ![c] = z]
             /\ surfaceSize' = [surfaceSize EXCEPT ![n] = z]
      BY <2>2
    <3>2. /\ back[c] = "Absent"
          /\ UNCHANGED <<bound, pending, recycled, retired, held, texture>>
      BY <1>3 DEF CreateDetached
    <3>3. back'[c] = "Detached" /\ detached'[c] = n
      BY <3>1 DEF ProtocolInv, TypeOK
    <3>4. OwnedBy(c) = {} /\ AtMost(held'[c], MaxHeld)
      BY <3>2 DEF PoolInv, PoolOf
    <3>5. Own(c)' \subseteq {n}
      BY <3>2, <3>3, <3>4 DEF Own, OwnedBy
    <3>6. PoolOf(c)'
      BY <3>3, <3>4, <3>5, PoolFew DEF Fitting, Outgrown
    <3>7. ASSUME NEW d \in Chains \ {c}
          PROVE  PoolOf(d)'
      <4>1. UNCHANGED <<back[d], detached[d], pending[d], recycled[d], held[d], texture[d],
                        size[d]>>
        BY <3>1, <3>2 DEF ProtocolInv, TypeOK
      <4>2. Live(d) => \A s \in Own(d) : surfaceSize'[s] = surfaceSize[s]
        BY <3>1, SizesKept
      <4>3. PoolOf(d)
        BY DEF PoolInv
      <4>4. QED
        BY <3>2, <4>1, <4>2, <4>3, PoolElsewhere
    <3>8. QED
      BY <3>6, <3>7 DEF PoolInv
  <2>3. QED
    BY <1>3, <2>1, <2>2 DEF CreateDetached
<1>4. QED
  BY <1>1, <1>2, <1>3

\* A step of chain c leaves the other chains within their bounds.
LEMMA PoolOthers ==
    ASSUME ProtocolInv, ProtocolInv', PoolInv, NEW c \in Chains, PoolOf(c)',
           \A d \in Chains \ {c} :
              /\ UNCHANGED <<back[d], detached[d], pending[d], recycled[d], held[d],
                             texture[d], size[d]>>
              /\ d \in retired => d \in retired',
           bound' = bound \/ (Live(c) /\ IsAttached(c)),
           \/ surfaceSize' = surfaceSize
           \/ \E n \in Free, z \in Sizes : surfaceSize' = [surfaceSize EXCEPT ![n] = z]
    PROVE  PoolInv'
<1>1. ASSUME NEW d \in Chains \ {c}
      PROVE  PoolOf(d)'
  <2>1. Live(d) /\ back[d] = "Attached" => bound' = bound
    BY DEF ProtocolInv, OneCurrentBackBuffer, IsAttached
  <2>2. Live(d) => \A s \in Own(d) : surfaceSize'[s] = surfaceSize[s]
    BY SizesKept
  <2>3. PoolOf(d)
    BY DEF PoolInv
  <2>4. QED
    BY <2>1, <2>2, <2>3, PoolElsewhere
<1>2. QED
  BY <1>1 DEF PoolInv

\* swap_buffers finds every surface of the chain's size that is there to find.
LEMMA FirstFitFinds ==
    ASSUME TypeOK, NEW c \in Chains, FirstFit(c) = {}
    PROVE  \A s \in Range(Pool(c)) : surfaceSize[s] # size[c]
<1> DEFINE fits == {i \in 1..Len(Pool(c)) : surfaceSize[Pool(c)[i]] = size[c]}
<1>1. Len(Pool(c)) \in Nat /\ DOMAIN Pool(c) = 1..Len(Pool(c))
  BY PoolType, LenProperties
<1>2. fits = {}
  <2>1. SUFFICES ASSUME fits # {}
                 PROVE  FALSE
    OBVIOUS
  <2>2. PICK i \in fits : \A j \in 1..(i - 1) : j \notin fits
    <3>1. fits \in SUBSET (1..Len(Pool(c)))
      OBVIOUS
    <3> HIDE DEF fits
    <3>2. QED
      BY <1>1, <2>1, <3>1, LeastIndex
  <2>3. \A j \in 1..(i - 1) : j \in 1..Len(Pool(c))
    BY <1>1
  <2>4. i \in FirstFit(c)
    BY <2>2, <2>3 DEF FirstFit
  <2>5. QED
    BY <2>4
<1>3. QED
  BY <1>1, <1>2 DEF Range

LEMMA PoolOwned ==
    ASSUME TypeOK, NEW c \in Chains
    PROVE  /\ Range(Pool(c)) = Range(recycled[c]) \cup ({pending[c]} \ {NoSurface})
           /\ Range(Pool(c)) \subseteq Rest(c)
<1>1. CASE pending[c] = NoSurface
  BY <1>1 DEF Pool, Rest
<1>2. CASE pending[c] # NoSurface
  <2>1. Range(Pool(c)) = Range(recycled[c]) \cup {pending[c]}
    BY <1>2, AppendRange DEF Pool, TypeOK, OptSurface
  <2>2. QED
    BY <1>2, <2>1 DEF Rest
<1>3. QED
  BY <1>1, <1>2

\* The back buffer after an exchange.
LEMMA ExchangedBack ==
    ASSUME ProtocolInv, NEW c \in Chains, Live(c), NEW n \in Surfaces, Exchange(c, n)
    PROVE  CanTake(c) /\ back' = back /\ BackSurface(c)' = n
  BY DEF Exchange, BackSurface, CanTake, ProtocolInv, TypeOK

LEMMA PoolSwap ==
    ASSUME Disciplined, ProtocolInv, ProtocolInv', PoolInv, NEW c \in Chains,
           SwapBuffers(c)
    PROVE  PoolInv'
<1>1. TypeOK /\ PoolOf(c)
  BY DEF ProtocolInv, PoolInv
<1>2. /\ Live(c) /\ CanTake(c)
      /\ ~TakeFails(c) /\ ~TakePanics(c) /\ ~BindRefused(c)
      /\ texture[c] = NoSurface
      /\ UNCHANGED <<size, retired, held, texture>>
  BY CallFindsBackBuffer DEF SwapBuffers
<1>3. /\ Own(c) = {BackSurface(c)} \cup Rest(c)
      /\ Own(c) \subseteq Surfaces
      /\ Range(Pool(c)) \subseteq Rest(c)
      /\ held[c] \subseteq Rest(c)
      /\ BackSurface(c) # NoSurface
  BY <1>1, <1>2, OwnParts, PoolOwned, BackSurfaceHeld, NoSurfaceAssumption DEF Rest
<1>4. ASSUME NEW n \in Surfaces, NEW rest, SwapIn(c, n, rest)
      PROVE  /\ Exchange(c, n) /\ CanTake(c)' /\ BackSurface(c)' = n
             /\ back' = back
             /\ recycled'[c] = rest
             /\ pending'[c] = BackSurface(c)
             /\ Rest(c)' = {BackSurface(c)} \cup Range(rest) \cup held[c]
  <2>1. /\ Exchange(c, n)
        /\ recycled' = [recycled EXCEPT ![c] = rest]
        /\ pending' = [pending EXCEPT ![c] = BackSurface(c)]
    BY <1>2, <1>4 DEF SwapIn
  <2>2. /\ back' = back /\ BackSurface(c)' = n
        /\ recycled'[c] = rest /\ pending'[c] = BackSurface(c)
    BY <1>1, <1>2, <2>1, ExchangedBack DEF TypeOK
  <2>3. CanTake(c)'
    BY <1>2, <2>1, <2>2, NoSurfaceAssumption DEF CanTake, Exchange
  <2>4. Rest(c)' = {BackSurface(c)} \cup Range(rest) \cup held[c]
    BY <1>2, <1>3, <2>2 DEF Rest
  <2>5. QED
    BY <2>1, <2>2, <2>3, <2>4
<1>5. ASSUME NEW n \in Surfaces, NEW rest, SwapIn(c, n, rest), PoolOf(c)',
             \/ surfaceSize' = surfaceSize
             \/ \E m \in Free, z \in Sizes : surfaceSize' = [surfaceSize EXCEPT ![m] = z]
      PROVE  PoolInv'
  <2>1. Exchange(c, n)
    BY <1>4, <1>5
  <2>2. \A d \in Chains \ {c} :
           /\ UNCHANGED <<back[d], detached[d], pending[d], recycled[d], held[d],
                          texture[d], size[d]>>
           /\ d \in retired => d \in retired'
    BY <1>1, <1>2, <1>5, <2>1 DEF SwapIn, Exchange, TypeOK
  <2>3. bound' = bound \/ (Live(c) /\ IsAttached(c))
    BY <1>2, <2>1 DEF Exchange, IsAttached
  <2>4. QED
    BY <1>5, <2>2, <2>3, PoolOthers
<1>6. CASE \E i \in FirstFit(c) :
              /\ SwapIn(c, Pool(c)[i], SwapRemove(Pool(c), i))
              /\ UNCHANGED surfaceSize
  <2>1. PICK i \in 1..Len(Pool(c)) :
              /\ SwapIn(c, Pool(c)[i], SwapRemove(Pool(c), i))
              /\ UNCHANGED surfaceSize
    BY <1>6 DEF FirstFit
  <2>2. /\ Pool(c)[i] \in Surfaces
        /\ Pool(c)[i] \in Range(Pool(c))
        /\ Range(SwapRemove(Pool(c), i)) \subseteq Range(Pool(c))
    BY <1>1, PoolType, ElementOfSeq, LenProperties, SwapRemoveRange DEF Range
  <2>3. /\ Rest(c)' \subseteq Own(c)
        /\ BackSurface(c)' \in Own(c)
        /\ back' = back
    BY <1>3, <1>4, <2>1, <2>2
  <2>4. PoolOf(c)'
    BY <1>1, <1>2, <2>1, <2>3, PoolShrinks DEF PoolOf, Live
  <2>5. QED
    BY <1>5, <2>1, <2>2, <2>4
<1>7. CASE /\ FirstFit(c) = {}
           /\ \E n \in Free :
                /\ SwapIn(c, n, Pool(c))
                /\ surfaceSize' = [surfaceSize EXCEPT ![n] = size[c]]
  <2>1. PICK n \in Free :
                /\ SwapIn(c, n, Pool(c))
                /\ surfaceSize' = [surfaceSize EXCEPT ![n] = size[c]]
    BY <1>7
  <2>2. n \in Surfaces
    BY DEF Free
  <2>3. /\ CanTake(c)' /\ BackSurface(c)' = n /\ back' = back
        /\ Rest(c)' = {BackSurface(c)} \cup Range(Pool(c)) \cup held[c]
    BY <1>4, <2>1, <2>2
  <2>4. Live(c)' /\ Own(c)' = {n, BackSurface(c)} \cup Range(Pool(c)) \cup held[c]
    <3>1. Live(c)'
      BY <1>2, <2>3 DEF Live
    <3>2. Own(c)' = {BackSurface(c)'} \cup Rest(c)'
      BY <2>3, <3>1, OwnPartsNext
    <3>3. QED
      BY <2>3, <3>1, <3>2
  <2>5. \A s \in Own(c) : surfaceSize'[s] = surfaceSize[s]
    BY <1>2, <2>1, SizesKept
  <2>6. surfaceSize'[n] = size'[c] /\ size'[c] = size[c]
    BY <1>1, <1>2, <2>1, <2>2 DEF TypeOK
  <2>7. Fitting(c)' \subseteq held[c] \cup {BackSurface(c), n}
    <3>1. \A s \in Range(Pool(c)) : surfaceSize'[s] # size'[c]
      BY <1>1, <1>3, <1>7, <2>5, <2>6, FirstFitFinds
    <3>2. QED
      BY <2>4, <3>1 DEF Fitting
  <2>8. Outgrown(c)' \subseteq Outgrown(c)
    BY <1>3, <2>4, <2>5, <2>6 DEF Outgrown, Fitting
  <2>9. AtMost(Fitting(c)', MaxHeld + 2) /\ AtMost(Outgrown(c)', MaxHeld + 1)
    <3>1. AtMost(held[c], MaxHeld) /\ AtMost(Outgrown(c), MaxHeld + 1)
      BY <1>1, <1>2 DEF PoolOf
    <3>2. AtMost(Fitting(c)', MaxHeld + 2)
      BY <2>7, <3>1, HeldAndTwo
    <3>3. AtMost(Outgrown(c)', MaxHeld + 1)
      BY <2>8, <3>1, AtMostPart, MaxHeldAssumption
    <3>4. QED
      BY <3>2, <3>3
  <2>10. PoolOf(c)'
    BY <1>1, <1>2, <2>4, <2>9 DEF PoolOf, Live
  <2>11. size[c] \in Sizes
    BY <1>1 DEF TypeOK
  <2>12. QED
    BY <1>5, <2>1, <2>2, <2>10, <2>11
<1>8. CASE /\ recycled' = [recycled EXCEPT ![c] = Pool(c)]
           /\ pending' = [pending EXCEPT ![c] = NoSurface]
           /\ UNCHANGED <<bound, back, detached, surfaceSize>>
  <2>1. recycled'[c] = Pool(c) /\ pending'[c] = NoSurface
    BY <1>1, <1>8 DEF TypeOK
  <2>2. Rest(c)' \subseteq Own(c)
    BY <1>2, <1>3, <2>1 DEF Rest
  <2>3. BackSurface(c)' \in Own(c)
    BY <1>3, <1>8 DEF BackSurface
  <2>4. PoolOf(c)'
    BY <1>1, <1>2, <1>8, <2>2, <2>3, PoolShrinks DEF PoolOf, Live
  <2>5. \A d \in Chains \ {c} :
           /\ UNCHANGED <<back[d], detached[d], pending[d], recycled[d], held[d],
                          texture[d], size[d]>>
           /\ d \in retired => d \in retired'
    BY <1>1, <1>2, <1>8 DEF TypeOK
  <2>6. QED
    BY <1>8, <2>4, <2>5, PoolOthers
<1>9. QED
  BY <1>6, <1>7, <1>8 DEF SwapBuffers

LEMMA PoolResize ==
    ASSUME Disciplined, "destroy" \notin Faults, ProtocolInv, ProtocolInv', PoolInv,
           NEW c \in Chains, Resize(c)
    PROVE  PoolInv'
<1>1. TypeOK /\ PoolOf(c)
  BY DEF ProtocolInv, PoolInv
<1>2. /\ Live(c) /\ CanTake(c)
      /\ ~TakeFails(c) /\ ~TakePanics(c) /\ ~BindRefused(c)
      /\ texture[c] = NoSurface
      /\ UNCHANGED <<pending, retired, held, texture>>
  BY CallFindsBackBuffer DEF Resize
<1>3. CASE \E n \in Free, z \in Sizes :
             /\ ResizeTo(c, n, z)
             /\ surfaceSize' = [surfaceSize EXCEPT ![n] = z]
  <2>1. PICK n \in Free, z \in Sizes :
             /\ ResizeTo(c, n, z)
             /\ surfaceSize' = [surfaceSize EXCEPT ![n] = z]
    BY <1>3
  <2>2. n \in Surfaces
    BY DEF Free
  <2>3. /\ Exchange(c, n)
        /\ recycled' = Drained(c)
        /\ size' = [size EXCEPT ![c] = z]
    BY <1>2, <2>1 DEF ResizeTo
  <2>4. /\ back' = back /\ BackSurface(c)' = n
        /\ recycled'[c] = <<>> /\ size'[c] = z /\ surfaceSize'[n] = z
    BY <1>1, <1>2, <2>1, <2>2, <2>3, ExchangedBack DEF TypeOK, Drained
  <2>5. Live(c)' /\ CanTake(c)'
    BY <1>2, <2>2, <2>3, <2>4, NoSurfaceAssumption DEF CanTake, Exchange, Live
  <2>6. Rest(c)' \subseteq held'[c] \cup {pending[c]}
    BY <1>2, <2>4 DEF Rest, Range
  <2>7. Own(c)' \subseteq held'[c] \cup {pending[c], n}
    BY <2>4, <2>5, <2>6, OwnPartsNext
  <2>8. /\ Fitting(c)' \subseteq held'[c] \cup {pending[c], n}
        /\ Outgrown(c)' \subseteq held'[c] \cup {pending[c]}
    <3>1. n \in Own(c)' => n \in Fitting(c)'
      BY <2>4 DEF Fitting
    <3>2. QED
      BY <2>7, <3>1 DEF Fitting, Outgrown
  <2>9. AtMost(held'[c], MaxHeld) /\ back'[c] # "Absent"
    BY <1>1, <1>2, <2>5 DEF PoolOf, Live
  <2>10. PoolOf(c)'
    BY <2>8, <2>9, PoolFew
  <2>11. \A d \in Chains \ {c} :
            /\ UNCHANGED <<back[d], detached[d], pending[d], recycled[d], held[d],
                           texture[d], size[d]>>
            /\ d \in retired => d \in retired'
    BY <1>1, <1>2, <2>3 DEF Exchange, Drained, TypeOK
  <2>12. bound' = bound \/ (Live(c) /\ IsAttached(c))
    BY <1>2, <2>3 DEF Exchange, IsAttached
  <2>13. QED
    BY <2>1, <2>10, <2>11, <2>12, PoolOthers
<1>4. CASE UNCHANGED <<bound, back, detached, recycled, size, surfaceSize>>
  <2>1. ASSUME NEW d \in Chains
        PROVE  PoolOf(d)'
    <3>1. PoolOf(d)
      BY DEF PoolInv
    <3>2. QED
      BY <1>2, <1>4, <3>1, PoolElsewhere
  <2>2. QED
    BY <2>1 DEF PoolInv
<1>5. QED
  BY <1>3, <1>4 DEF Resize

LEMMA PoolTakeAttachment ==
    ASSUME Disciplined, ProtocolInv, ProtocolInv', PoolInv, NEW c \in Chains,
           NEW d \in Chains, TakeAttachmentFrom(c, d)
    PROVE  PoolInv'
<1>1. TypeOK
  BY DEF ProtocolInv
<1>2. /\ c # d
      /\ CanTake(c) /\ CanTake(d) /\ Live(c) /\ Live(d)
      /\ UNCHANGED <<pending, recycled, size, retired, held, texture, surfaceSize>>
  BY CallFindsBackBuffer DEF TakeAttachmentFrom
<1>3. ~(back[c] = "Attached" /\ back[d] = "Attached")
  BY <1>2 DEF ProtocolInv, OneCurrentBackBuffer, IsAttached
<1>4. TakeAttachmentOk(c, d)
  BY <1>2, <1>3 DEF TakeAttachmentFrom, TakeAttachmentUnbound, TakeAttachmentHalfway,
     TakeAttachmentRefused, TakeRefused, TakeFails, TakePanics, UnbindRefused, CanTake, IsTaken, Disciplined
<1>5. back' = [back EXCEPT ![c] = back[d], ![d] = back[c]]
  BY <1>4 DEF TakeAttachmentOk
<1>6. BackSurface(c)' = BackSurface(c) /\ BackSurface(d)' = BackSurface(d)
  BY <1>1, <1>2, <1>4, <1>5 DEF TakeAttachmentOk, BackSurface, CanTake, TypeOK
<1>7. ASSUME NEW e \in {c, d}
      PROVE  PoolOf(e)'
  <2>1. e \in Chains /\ Live(e) /\ CanTake(e) /\ BackSurface(e)' = BackSurface(e)
    BY <1>2, <1>6
  <2>2. Own(e) = {BackSurface(e)} \cup Rest(e)
    BY <2>1, OwnParts
  <2>3. Rest(e)' = Rest(e)
    BY <1>2 DEF Rest
  <2>4. back'[e] # "Absent"
    BY <1>1, <1>2, <1>5 DEF CanTake, TypeOK
  <2>5. PoolOf(e)
    BY <2>1 DEF PoolInv
  <2>6. QED
    BY <1>2, <2>1, <2>2, <2>3, <2>4, <2>5, PoolShrinks DEF PoolOf
<1>8. ASSUME NEW e \in Chains \ {c, d}
      PROVE  PoolOf(e)'
  <2>1. UNCHANGED <<back[e], detached[e]>>
    BY <1>1, <1>4, <1>5 DEF TakeAttachmentOk, TypeOK
  <2>2. Live(e) /\ back[e] = "Attached" => bound' = bound
    <3>1. Live(e) /\ back[e] = "Attached" => back[c] # "Attached" /\ back[d] # "Attached"
      BY <1>2 DEF ProtocolInv, OneCurrentBackBuffer, IsAttached
    <3>2. QED
      BY <1>4, <3>1 DEF TakeAttachmentOk
  <2>3. PoolOf(e)
    BY DEF PoolInv
  <2>4. QED
    BY <1>2, <2>1, <2>2, <2>3, PoolElsewhere
<1>9. QED
  BY <1>7, <1>8 DEF PoolInv

LEMMA PoolTexture ==
    ASSUME Disciplined, ProtocolInv, ProtocolInv', PoolInv, NEW c \in Chains,
           TakeSurfaceTexture(c) \/ RecycleSurfaceTexture(c)
    PROVE  PoolInv'
<1> USE NoSurfaceAssumption
<1>1. TypeOK /\ PoolOf(c)
  BY DEF ProtocolInv, PoolInv
<1>2. CASE TakeSurfaceTexture(c)
  <2>1. /\ Live(c) /\ CanTake(c)
        /\ ~TakeFails(c) /\ ~TakePanics(c) /\ ~BindRefused(c)
        /\ texture[c] = NoSurface
    BY <1>2, CallFindsBackBuffer DEF TakeSurfaceTexture
  <2>2. /\ back' = [back EXCEPT ![c] = IF back[c] = "Attached" THEN "TakenAttached"
                                                               ELSE "TakenDetached"]
        /\ bound' = IF back[c] = "Attached" THEN NoSurface ELSE bound
        /\ detached' = [detached EXCEPT ![c] = NoSurface]
        /\ texture' = [texture EXCEPT ![c] = BackSurface(c)]
        /\ UNCHANGED <<pending, recycled, size, retired, held, surfaceSize>>
    BY <1>2, <2>1 DEF TakeSurfaceTexture, Disciplined
  <2>3. back'[c] \in {"TakenAttached", "TakenDetached"} /\ texture'[c] = BackSurface(c)
    BY <1>1, <2>2 DEF TypeOK
  <2>4. Rest(c)' \subseteq {BackSurface(c)} \cup Rest(c)
    BY <2>2, <2>3 DEF Rest
  <2>5. Own(c) = {BackSurface(c)} \cup Rest(c)
    BY <2>1, OwnParts
  <2>6. ~CanTake(c)' /\ back'[c] # "Absent" /\ AtMost(held'[c], MaxHeld)
    BY <1>1, <2>2, <2>3 DEF CanTake, PoolOf
  <2>7. PoolOf(c)'
    BY <1>1, <2>1, <2>2, <2>4, <2>5, <2>6, PoolShrinks
  <2>8. \A d \in Chains \ {c} :
           /\ UNCHANGED <<back[d], detached[d], pending[d], recycled[d], held[d],
                          texture[d], size[d]>>
           /\ d \in retired => d \in retired'
    BY <1>1, <2>2 DEF TypeOK
  <2>9. bound' = bound \/ (Live(c) /\ IsAttached(c))
    BY <2>1, <2>2 DEF IsAttached
  <2>10. QED
    BY <2>2, <2>7, <2>8, <2>9, PoolOthers
<1>3. CASE RecycleSurfaceTexture(c)
  <2>1. texture[c] # NoSurface /\ IsTaken(c)
    BY <1>1, <1>3, OwnTexture DEF ProtocolInv, TextureKeepsSlot
  <2>2. Live(c)
    BY <2>1 DEF ProtocolInv, RetiredEmpty, Live, IsTaken
  <2>3. back[c] = "TakenAttached" => bound = NoSurface
    BY <2>1, <2>2 DEF ProtocolInv, OneCurrentBackBuffer, IsAttached
  <2>4. /\ back' = [back EXCEPT ![c] = IF back[c] = "TakenAttached" THEN "Attached"
                                                                    ELSE "Detached"]
        /\ bound' = IF back[c] = "TakenAttached" THEN texture[c] ELSE bound
        /\ texture' = [texture EXCEPT ![c] = NoSurface]
        /\ detached' = IF back[c] = "TakenAttached" THEN detached
                       ELSE [detached EXCEPT ![c] = texture[c]]
        /\ UNCHANGED <<pending, recycled, size, retired, held, surfaceSize>>
    BY <1>1, <1>3, <2>1, <2>3, OwnTexture DEF ProtocolInv, IsTaken
  <2>5. BackSurface(c)' = texture[c] /\ back'[c] # "Absent"
    BY <1>1, <2>1, <2>4 DEF BackSurface, IsTaken, TypeOK
  <2>6. texture'[c] = NoSurface
    BY <1>1, <2>4 DEF TypeOK
  <2>7. Rest(c)' \subseteq Rest(c) /\ texture[c] \in Rest(c)
    BY <2>1, <2>4, <2>6 DEF Rest
  <2>8. Rest(c) \subseteq Own(c)
    BY <2>2, OwnParts
  <2>9. AtMost(held'[c], MaxHeld)
    BY <1>1, <2>4 DEF PoolOf
  <2>10. PoolOf(c)'
    BY <1>1, <2>2, <2>4, <2>5, <2>7, <2>8, <2>9, PoolShrinks
  <2>11. \A d \in Chains \ {c} :
            /\ UNCHANGED <<back[d], detached[d], pending[d], recycled[d], held[d],
                           texture[d], size[d]>>
            /\ d \in retired => d \in retired'
    BY <1>1, <2>4 DEF TypeOK
  <2>12. bound' = bound \/ (Live(c) /\ IsAttached(c))
    BY <2>2, <2>4 DEF IsAttached
  <2>13. QED
    BY <2>4, <2>10, <2>11, <2>12, PoolOthers
<1>4. QED
  BY <1>2, <1>3

LEMMA PoolEnds ==
    ASSUME Disciplined, ProtocolInv, ProtocolInv', PoolInv, NEW c \in Chains,
           ClearSurface(c) \/ Destroy(c) \/ DropChain(c)
    PROVE  PoolInv'
<1>1. TypeOK /\ PoolOf(c)
  BY DEF ProtocolInv, PoolInv
<1>2. CASE ClearSurface(c)
  <2>1. CanTake(c)
    BY <1>2, CallFindsBackBuffer DEF ClearSurface
  <2>2. /\ UNCHANGED <<bound, back, detached, pending, recycled, size, retired, held,
                       texture, surfaceSize>>
    BY <1>2, <2>1 DEF ClearSurface, CanTake, IsAttached, Disciplined
  <2>3. ASSUME NEW d \in Chains
        PROVE  PoolOf(d)'
    <3>1. PoolOf(d)
      BY DEF PoolInv
    <3>2. QED
      BY <2>2, <3>1, PoolElsewhere
  <2>4. QED
    BY <2>3 DEF PoolInv
<1>3. CASE Destroy(c)
  <2>1. CanTake(c) /\ Live(c)
    BY <1>3, CallFindsBackBuffer DEF Destroy
  <2>2. /\ retired' = retired \cup {c}
        /\ pending' = [pending EXCEPT ![c] = NoSurface]
        /\ back' = [back EXCEPT ![c] = IF IsAttached(c) THEN "TakenAttached"
                                                       ELSE "TakenDetached"]
        /\ bound' = IF back[c] = "Attached" THEN NoSurface ELSE bound
        /\ detached' = [detached EXCEPT ![c] = NoSurface]
        /\ recycled' = Drained(c)
        /\ UNCHANGED <<size, held, texture, surfaceSize>>
    BY <1>3, <2>1, DestroyTakesBack DEF CanTake, IsAttached
  <2>3. ~Live(c)' /\ back'[c] # "Absent" /\ AtMost(held'[c], MaxHeld)
    BY <1>1, <2>2 DEF Live, TypeOK, PoolOf
  <2>4. PoolOf(c)'
    BY <2>3 DEF PoolOf
  <2>5. \A d \in Chains \ {c} :
           /\ UNCHANGED <<back[d], detached[d], pending[d], recycled[d], held[d],
                          texture[d], size[d]>>
           /\ d \in retired => d \in retired'
    BY <1>1, <2>2 DEF TypeOK, Drained
  <2>6. bound' = bound \/ (Live(c) /\ IsAttached(c))
    BY <2>1, <2>2 DEF IsAttached
  <2>7. QED
    BY <2>2, <2>4, <2>5, <2>6, PoolOthers
<1>4. CASE DropChain(c)
  <2>1. /\ held[c] = {} /\ texture[c] = NoSurface
        /\ back' = [back EXCEPT ![c] = "Absent"]
        /\ detached' = [detached EXCEPT ![c] = NoSurface]
        /\ pending' = [pending EXCEPT ![c] = NoSurface]
        /\ recycled' = Drained(c)
        /\ retired' = retired \ {c}
        /\ UNCHANGED <<bound, size, held, texture, surfaceSize>>
    BY <1>4 DEF DropChain
  <2>2. /\ back'[c] = "Absent" /\ detached'[c] = NoSurface /\ pending'[c] = NoSurface
        /\ recycled'[c] = <<>> /\ held'[c] = {} /\ texture'[c] = NoSurface
    BY <1>1, <2>1 DEF TypeOK, Drained
  <2>3. OwnedBy(c)' = {}
    BY <2>2 DEF OwnedBy, Range
  <2>4. AtMost(held'[c], MaxHeld) /\ ~Live(c)'
    BY <2>2, AtMostNone, MaxHeldAssumption DEF Live
  <2>5. PoolOf(c)'
    BY <2>3, <2>4 DEF PoolOf
  <2>6. \A d \in Chains \ {c} :
           /\ UNCHANGED <<back[d], detached[d], pending[d], recycled[d], held[d],
                          texture[d], size[d]>>
           /\ d \in retired => d \in retired'
    BY <1>1, <2>1 DEF TypeOK, Drained
  <2>7. QED
    BY <2>1, <2>5, <2>6, PoolOthers
<1>5. QED
  BY <1>2, <1>3, <1>4

LEMMA PoolConsumer ==
    ASSUME Disciplined, ProtocolInv, ProtocolInv', PoolInv, NEW c \in Chains, Consumer(c)
    PROVE  PoolInv'
<1> USE NoSurfaceAssumption
<1>1. TypeOK /\ PoolOf(c) /\ AtMost(held[c], MaxHeld) /\ recycled[c] \in Seq(Surfaces)
  BY DEF ProtocolInv, PoolInv, PoolOf, TypeOK
<1>2. /\ UNCHANGED <<bound, back, detached, size, retired, texture, surfaceSize>>
      /\ \A d \in Chains \ {c} : UNCHANGED <<pending[d], recycled[d], held[d]>>
  BY <1>1, DisciplinedCalls DEF Consumer, TakeSurface, TakePendingSurface, TypeOK
<1>3. Cardinality(held[c]) < MaxHeld => \A x : AtMost(held[c] \cup {x}, MaxHeld)
  <2>1. AtMost(held[c], MaxHeld) /\ MaxHeld \in Nat
    BY <1>1, MaxHeldAssumption
  <2>2. QED
    BY <2>1, AtMostOneLess
<1>4. /\ AtMost(held'[c], MaxHeld)
      /\ back[c] # "Absent"
      /\ Rest(c)' \subseteq Rest(c)
  <2>1. ASSUME pending[c] # NoSurface, Cardinality(held[c]) < MaxHeld,
               held' = [held EXCEPT ![c] = @ \cup {pending[c]}],
               pending' = [pending EXCEPT ![c] = NoSurface],
               UNCHANGED recycled
        PROVE  /\ AtMost(held'[c], MaxHeld)
               /\ back[c] # "Absent"
               /\ Rest(c)' \subseteq Rest(c)
    <3>1. held'[c] = held[c] \cup {pending[c]} /\ pending'[c] = NoSurface
      BY <1>1, <2>1 DEF TypeOK
    <3>2. AtMost(held'[c], MaxHeld)
      BY <1>3, <2>1, <3>1
    <3>3. back[c] # "Absent"
      BY <1>1, <2>1 DEF PoolOf, OwnedBy
    <3>4. Rest(c)' \subseteq Rest(c)
      BY <1>2, <2>1, <3>1 DEF Rest
    <3>5. QED
      BY <3>2, <3>3, <3>4
  <2>2. CASE TakePendingSurface(c)
    BY <2>1, <2>2 DEF TakePendingSurface
  <2>3. CASE TakeSurface(c)
    <3>1. CASE pending[c] # NoSurface
      BY <2>1, <2>3, <3>1 DEF TakeSurface
    <3>2. CASE pending[c] = NoSurface
      <4>1. /\ back[c] # "Absent" /\ recycled[c] # <<>>
            /\ Cardinality(held[c]) < MaxHeld
            /\ held'[c] = held[c] \cup {recycled[c][Len(recycled[c])]}
            /\ recycled'[c] = SubSeq(recycled[c], 1, Len(recycled[c]) - 1)
            /\ pending'[c] = pending[c]
        BY <1>1, <2>3, <3>2 DEF TakeSurface, TypeOK
      <4>2. /\ recycled[c][Len(recycled[c])] \in Range(recycled[c])
            /\ Range(recycled'[c]) \subseteq Range(recycled[c])
        BY <1>1, <4>1, PopTakes
      <4>3. AtMost(held'[c], MaxHeld)
        BY <1>3, <4>1
      <4>4. Rest(c)' \subseteq Rest(c)
        BY <1>2, <4>1, <4>2 DEF Rest
      <4>5. QED
        BY <4>1, <4>3, <4>4
    <3>3. QED
      BY <3>1, <3>2
  <2>4. CASE RecycleSurface(c)
    <3>1. PICK s \in held[c] :
             /\ held' = [held EXCEPT ![c] = @ \ {s}]
             /\ recycled' = [recycled EXCEPT ![c] = Append(@, s)]
      BY <2>4, DisciplinedCalls
    <3>2. /\ s \in Surfaces /\ held'[c] = held[c] \ {s}
          /\ recycled'[c] = Append(recycled[c], s)
          /\ pending'[c] = pending[c]
      BY <1>1, <2>4, <3>1 DEF RecycleSurface, TypeOK
    <3>3. Range(recycled'[c]) = Range(recycled[c]) \cup {s}
      BY <1>1, <3>2, AppendRange
    <3>4. AtMost(held'[c], MaxHeld)
      BY <1>1, <3>2, AtMostPart, MaxHeldAssumption
    <3>5. back[c] # "Absent"
      BY <1>1, <3>1 DEF PoolOf, OwnedBy
    <3>6. Rest(c)' \subseteq Rest(c)
      BY <1>2, <3>2, <3>3 DEF Rest
    <3>7. QED
      BY <3>4, <3>5, <3>6
  <2>5. QED
    BY <2>2, <2>3, <2>4 DEF Consumer
<1>5. Live(c)' => Live(c)
  BY <1>2 DEF Live
<1>6. ASSUME Live(c)
      PROVE  /\ Rest(c) \subseteq Own(c)
             /\ CanTake(c)' => BackSurface(c)' \in Own(c)
  <2>1. CanTake(c)' => CanTake(c) /\ BackSurface(c)' = BackSurface(c)
    BY <1>2 DEF CanTake, BackSurface
  <2>2. QED
    BY <1>6, <2>1, OwnParts
<1>7. PoolOf(c)'
  BY <1>1, <1>2, <1>4, <1>5, <1>6, PoolShrinks
<1>8. \A d \in Chains \ {c} :
         /\ UNCHANGED <<back[d], detached[d], pending[d], recycled[d], held[d],
                        texture[d], size[d]>>
         /\ d \in retired => d \in retired'
  BY <1>2
<1>9. QED
  BY <1>2, <1>7, <1>8, PoolOthers

\* Recycling bounds what a chain has of either size (the loop of swap_buffers that
\* looks for a surface of the right size before it creates one, and resize, which
\* destroys what has the old one), for a producer that keeps to the protocol, however
\* often it resizes, and whichever surfaces consumers hold meanwhile.
THEOREM PoolStaysBounded ==
    ASSUME Disciplined, "destroy" \notin Faults
    PROVE  Spec => []PoolBounded
<1>1. Init => PoolInv
  <2> SUFFICES ASSUME Init, NEW c \in Chains
               PROVE  PoolOf(c)
    BY DEF PoolInv
  <2>1. /\ back[c] = "Absent" /\ detached[c] = NoSurface /\ pending[c] = NoSurface
        /\ recycled[c] = <<>> /\ held[c] = {} /\ texture[c] = NoSurface
    BY DEF Init
  <2>2. OwnedBy(c) = {}
    BY <2>1 DEF OwnedBy, Range
  <2>3. QED
    BY <2>1, <2>2, AtMostNone, MaxHeldAssumption DEF PoolOf, Live
<1>2. ASSUME ProtocolInv, ProtocolInv', PoolInv, [Next]_vars
      PROVE  PoolInv'
  <2>1. CASE UNCHANGED vars
    <3>1. ASSUME NEW d \in Chains
          PROVE  PoolOf(d)'
      <4>1. PoolOf(d)
        BY <1>2 DEF PoolInv
      <4>2. QED
        BY <1>2, <2>1, <4>1, PoolElsewhere DEF vars, chainVars
    <3>2. QED
      BY <3>1 DEF PoolInv
  <2>2. CASE BindFirstSurface
    BY <1>2, <2>2, PoolCreate
  <2>3. ASSUME NEW c \in Chains, Producer(c)
        PROVE  PoolInv'
    BY <1>2, <2>3, DisciplinedCalls, PoolCreate, PoolSwap, PoolResize, PoolTakeAttachment, PoolTexture,
       PoolEnds DEF Producer
  <2>4. ASSUME NEW c \in Chains, Consumer(c) \/ DropChain(c)
        PROVE  PoolInv'
    BY <1>2, <2>4, PoolConsumer, PoolEnds
  <2>5. QED
    BY <1>2, <2>1, <2>2, <2>3, <2>4 DEF Next
<1>3. ProtocolInv /\ ProtocolInv' /\ PoolInv /\ [Next]_vars => PoolInv'
  BY <1>2
<1>4. PoolInv => PoolBounded
  <2> SUFFICES ASSUME PoolInv, NEW c \in Chains, Live(c)
               PROVE  /\ Cardinality(Fitting(c)) <= MaxHeld + 2
                      /\ Cardinality(Outgrown(c)) <= MaxHeld + 1
    BY DEF PoolBounded, Fitting, Outgrown, Own
  <2>1. QED
    BY DEF PoolInv, PoolOf, AtMost
<1>5. QED
  BY <1>1, <1>3, <1>4, ProtocolAlways, PTL DEF Spec

-----------------------------------------------------------------------------
(* Consumers that hold one surface at a time never go back. *)

LastOf(q) == q[Len(q)]

HistoryTypeOK ==
    /\ frames \in Nat
    /\ frame \in [Surfaces -> Nat] /\ \A s \in Surfaces : frame[s] <= frames
    /\ seen \in [Chains -> Nat] /\ \A c \in Chains : seen[c] <= frames

\* What the consumers hold, and what they would be given next, are no older than what
\* they saw last; deeper in the list anything may be.
Ahead(c) ==
    /\ pending[c] # NoSurface => seen[c] <= frame[pending[c]]
    /\ held[c] = {} \/ \E s \in Surfaces : held[c] = {s} /\ seen[c] <= frame[s]
    /\ held[c] = {} /\ pending[c] = NoSurface /\ recycled[c] # <<>> =>
          seen[c] <= frame[LastOf(recycled[c])]

HistoryInv == HistoryTypeOK /\ \A c \in Chains : Ahead(c)

\* What a step may do to the front buffer, the list and the hands of a chain.
Left(c) == UNCHANGED <<pending[c], recycled[c], held[c]>>
Emptied(c) ==
    /\ held'[c] = held[c] /\ recycled'[c] = <<>>
    /\ pending'[c] \in {pending[c], NoSurface}
FrontSwapped(c) == held'[c] = held[c] /\ pending'[c] # NoSurface
Pushed(c) ==
    /\ held'[c] = held[c] /\ pending[c] # NoSurface /\ pending'[c] = NoSurface
    /\ recycled'[c] = Append(recycled[c], pending[c])
FrontTaken(c) ==
    /\ held[c] = {} /\ held'[c] = {pending[c]}
    /\ pending[c] # NoSurface /\ pending'[c] = NoSurface /\ recycled'[c] = recycled[c]
LastTaken(c) ==
    /\ held[c] = {} /\ recycled[c] # <<>> /\ held'[c] = {LastOf(recycled[c])}
    /\ pending[c] = NoSurface /\ pending'[c] = NoSurface
Returned(c) ==
    /\ pending'[c] = pending[c] /\ held'[c] = {}
    /\ \E s \in held[c] : recycled'[c] = Append(recycled[c], s)

Passes(c) ==
    \/ Left(c) \/ Emptied(c) \/ FrontSwapped(c) \/ Pushed(c)
    \/ FrontTaken(c) \/ LastTaken(c) \/ Returned(c)

LEMMA LastOfPlaced ==
    TypeOK => \A c \in Chains : recycled[c] # <<>> =>
        LastOf(recycled[c]) \in Surfaces /\ LastOf(recycled[c]) \in Placed
<1> SUFFICES ASSUME TypeOK, NEW c \in Chains, recycled[c] # <<>>
             PROVE  LastOf(recycled[c]) \in Surfaces /\ LastOf(recycled[c]) \in Placed
  OBVIOUS
<1>1. recycled[c] \in Seq(Surfaces)
  BY DEF TypeOK
<1>2. LastOf(recycled[c]) \in Range(recycled[c])
  BY <1>1, PopTakes DEF LastOf
<1>3. LastOf(recycled[c]) \in Surfaces
  <2>1. Len(recycled[c]) \in 1..Len(recycled[c])
    BY <1>1, LenProperties, EmptySeq
  <2>2. QED
    BY <1>1, <2>1, ElementOfSeq DEF LastOf
<1>4. QED
  BY <1>2, <1>3 DEF Placed, OwnedBy

LEMMA LastOfPlacedNext ==
    TypeOK' => \A c \in Chains : recycled'[c] # <<>> =>
        LastOf(recycled[c])' \in Surfaces /\ LastOf(recycled[c])' \in Placed'
<1>1. (TypeOK => \A c \in Chains : recycled[c] # <<>> =>
        LastOf(recycled[c]) \in Surfaces /\ LastOf(recycled[c]) \in Placed)'
  BY LastOfPlaced, PTL
<1>2. QED
  BY <1>1

LEMMA LastOfAppend ==
    ASSUME NEW S, NEW q \in Seq(S), NEW s \in S
    PROVE  LastOf(Append(q, s)) = s
BY AppendProperties, LenProperties DEF LastOf

\* Frames only get newer in surfaces that are somewhere, and a swap makes the newest.
LEMMA FramesGrow ==
    ASSUME TypeOK', HistoryTypeOK, RecordFrames
    PROVE  /\ frames' \in Nat /\ frames <= frames'
           /\ frame' \in [Surfaces -> Nat]
           /\ \A s \in Surfaces : frame'[s] <= frames'
           /\ \A s \in Surfaces : s \in Placed' => frame[s] <= frame'[s]
           /\ \A c \in Chains : Published(c) => frame'[pending'[c]] = frames'
<1>1. /\ frames \in Nat /\ frames' \in Nat /\ frames <= frames'
      /\ \A s \in Surfaces : frame[s] \in Nat /\ frame[s] <= frames
      /\ \A s \in Surfaces : frame[s] <= frames'
  BY DEF HistoryTypeOK, RecordFrames
<1>2. \A s \in Surfaces : s \in Placed' => s \notin Free'
  BY DEF Free
<1>3. \A s \in Surfaces : frame'[s] \in {frames', 0, frame[s]}
  BY DEF RecordFrames
<1>4. \A s \in Surfaces : s \in Placed' => frame'[s] \in {frames', frame[s]}
  BY <1>2 DEF RecordFrames
<1>5. \A c \in Chains : Published(c) => pending'[c] \in Surfaces
  BY DEF Published, TypeOK, OptSurface
<1>6. frame' \in [Surfaces -> Nat]
  BY <1>1 DEF RecordFrames
<1>7. \A c \in Chains : Published(c) => frame'[pending'[c]] = frames'
  BY <1>5 DEF RecordFrames
<1>8. \A s \in Surfaces : frame'[s] <= frames'
  BY <1>1, <1>3
<1>9. \A s \in Surfaces : s \in Placed' => frame[s] <= frame'[s]
  BY <1>1, <1>4
<1>10. QED
  BY <1>1, <1>6, <1>7, <1>8, <1>9

\* Chains that pass surfaces in one of these ways see newer frames.
LEMMA AheadStep ==
    ASSUME TypeOK, TypeOK', HistoryInv, RecordFrames, RecordSeen,
           NEW c \in Chains, Passes(c)
    PROVE  /\ seen'[c] \in Nat /\ seen'[c] <= frames'
           /\ back'[c] # "Absent" => seen[c] <= seen'[c]
           /\ Ahead(c)'
<1> USE NoSurfaceAssumption
<1>1. /\ frames \in Nat /\ frames' \in Nat /\ frames <= frames'
      /\ seen[c] \in Nat /\ seen[c] <= frames
      /\ \A s \in Surfaces : frame[s] \in Nat /\ frame'[s] \in Nat /\ frame[s] <= frames
      /\ \A s \in Surfaces : s \in Placed' => frame[s] <= frame'[s]
      /\ Published(c) => frame'[pending'[c]] = frames'
  BY FramesGrow DEF HistoryInv, HistoryTypeOK
<1>2. \A x, y, z \in Nat : x <= y /\ y <= z => x <= z
  OBVIOUS
<1>3. Ahead(c) /\ pending[c] \in OptSurface /\ pending'[c] \in OptSurface
      /\ held'[c] \subseteq Surfaces
  BY DEF HistoryInv, TypeOK
<1>4. /\ pending'[c] # NoSurface => pending'[c] \in Placed'
      /\ held'[c] \subseteq Placed'
  BY DEF Placed, OwnedBy
<1>5. recycled'[c] # <<>> => LastOf(recycled[c])' \in Surfaces /\ LastOf(recycled[c])' \in Placed'
  BY LastOfPlacedNext
<1>6. CASE held'[c] \ held[c] = {}
  <2>1. seen'[c] = 0 \/ seen'[c] = seen[c]
    BY <1>6 DEF RecordSeen
  <2>2. seen'[c] \in Nat /\ seen'[c] <= seen[c]
    BY <1>1, <2>1
  <2>3. back'[c] # "Absent" => seen'[c] = seen[c]
    BY <1>6 DEF RecordSeen
  <2>4. \A s \in Surfaces : s \in Placed' /\ seen[c] <= frame[s] => seen'[c] <= frame'[s]
    BY <1>1, <2>2
  <2>5. pending'[c] # NoSurface => seen'[c] <= frame'[pending'[c]]
    <3>1. CASE pending'[c] = pending[c]
      BY <1>3, <1>4, <2>4, <3>1 DEF Ahead, OptSurface
    <3>2. CASE pending'[c] # pending[c]
      BY <1>1, <2>2, <3>2 DEF Published
    <3>3. QED
      BY <3>1, <3>2
  <2>6. held'[c] = {} \/ \E s \in Surfaces : held'[c] = {s} /\ seen'[c] <= frame'[s]
    <3>1. held'[c] = {} \/ held'[c] = held[c]
      BY <1>3, <1>6 DEF Ahead
    <3>2. QED
      BY <1>3, <1>4, <2>4, <3>1 DEF Ahead
  <2>7. ASSUME held'[c] = {}, pending'[c] = NoSurface, recycled'[c] # <<>>
        PROVE  seen'[c] <= frame'[LastOf(recycled[c])']
    <3>1. recycled[c] \in Seq(Surfaces) /\ held[c] \subseteq Surfaces
      BY DEF TypeOK
    <3>2. CASE Left(c)
      BY <1>3, <1>5, <2>4, <2>7, <3>2 DEF Left, Ahead, LastOf
    <3>3. CASE Pushed(c)
      <4>1. LastOf(recycled[c])' = pending[c]
        BY <1>3, <3>1, <3>3, LastOfAppend DEF Pushed, LastOf, OptSurface
      <4>2. QED
        BY <1>3, <1>5, <2>4, <2>7, <3>3, <4>1 DEF Pushed, Ahead
    <3>4. CASE Returned(c)
      <4>1. PICK s \in held[c] : recycled'[c] = Append(recycled[c], s)
        BY <3>4 DEF Returned
      <4>2. LastOf(recycled[c])' = s
        BY <3>1, <4>1, LastOfAppend DEF LastOf
      <4>3. QED
        BY <1>3, <1>5, <2>4, <2>7, <4>1, <4>2 DEF Ahead
    <3>5. QED
      BY <2>7, <3>2, <3>3, <3>4 DEF Passes, Emptied, FrontSwapped, FrontTaken, LastTaken
  <2>8. QED
    BY <1>1, <2>2, <2>3, <2>5, <2>6, <2>7 DEF Ahead
<1>7. CASE held'[c] \ held[c] # {}
  <2>1. FrontTaken(c) \/ LastTaken(c)
    BY <1>7 DEF Passes, Left, Emptied, FrontSwapped, Pushed, Returned
  <2>2. PICK s \in Surfaces : held[c] = {} /\ held'[c] = {s} /\ seen[c] <= frame[s]
    <3>1. CASE FrontTaken(c)
      BY <1>3, <3>1 DEF FrontTaken, Ahead, OptSurface
    <3>2. CASE LastTaken(c)
      BY <1>3, <3>2, LastOfPlaced DEF LastTaken, Ahead
    <3>3. QED
      BY <2>1, <3>1, <3>2
  <2>3. seen'[c] = IF back'[c] = "Absent" THEN 0 ELSE frame[s]
    <3>1. held'[c] \ held[c] = {s}
      BY <2>2
    <3>2. (CHOOSE x \in held'[c] \ held[c] : TRUE) = s
      BY <3>1
    <3>3. QED
      BY <1>7, <3>2 DEF RecordSeen
  <2>4. /\ seen'[c] \in Nat /\ seen'[c] <= frame[s] /\ frame[s] <= frame'[s]
        /\ s \in Placed'
    BY <1>1, <1>4, <2>2, <2>3
  <2>5. seen'[c] <= frame'[s] /\ seen'[c] <= frames'
    BY <1>1, <2>4
  <2>6. pending'[c] = NoSurface
    BY <2>1 DEF FrontTaken, LastTaken
  <2>7. Ahead(c)'
    BY <2>2, <2>5, <2>6 DEF Ahead
  <2>8. back'[c] # "Absent" => seen[c] <= seen'[c]
    BY <2>2, <2>3
  <2>9. QED
    BY <2>4, <2>5, <2>7, <2>8
<1>8. QED
  BY <1>6, <1>7

LEMMA LeftElsewhere ==
    ASSUME TypeOK, NEW c \in Chains, Passes(c), \A d \in Chains \ {c} : Left(d)
    PROVE  \A d \in Chains : Passes(d)
BY DEF Passes

\* Every step passes surfaces so, if consumers hold one at a time and the producer's
\* back buffer is in place whenever it swaps.
LEMMA ProducerPasses ==
    ASSUME Disciplined, ProtocolInv, NEW c \in Chains, Producer(c)
    PROVE  \A d \in Chains : Passes(d)
<1> USE NoSurfaceAssumption
<1>1. TypeOK
  BY DEF ProtocolInv
<1>2. CASE UNCHANGED <<pending, recycled, held>>
  BY <1>2 DEF Passes, Left
<1>3. CASE SwapBuffers(c)
  <2>1. /\ CanTake(c) /\ UNCHANGED held
        /\ ~TakeFails(c) /\ ~TakePanics(c) /\ ~BindRefused(c)
    BY <1>3, CallFindsBackBuffer DEF SwapBuffers
  <2>2. BackSurface(c) # NoSurface
    BY <1>1, <2>1 DEF CanTake, BackSurface, TypeOK
  <2>3. ASSUME NEW n, NEW rest, SwapIn(c, n, rest)
        PROVE  \A d \in Chains : Passes(d)
    <3>1. /\ pending' = [pending EXCEPT ![c] = BackSurface(c)]
          /\ recycled' = [recycled EXCEPT ![c] = rest]
      BY <2>1, <2>3 DEF SwapIn
    <3>2. FrontSwapped(c) /\ \A d \in Chains \ {c} : Left(d)
      BY <1>1, <2>1, <2>2, <3>1 DEF FrontSwapped, Left, TypeOK
    <3>3. QED
      BY <1>1, <3>2, LeftElsewhere DEF Passes
  <2>4. CASE /\ recycled' = [recycled EXCEPT ![c] = Pool(c)]
             /\ pending' = [pending EXCEPT ![c] = NoSurface]
    <3>1. /\ recycled'[c] = Pool(c) /\ pending'[c] = NoSurface
          /\ \A d \in Chains \ {c} : Left(d)
      BY <1>1, <2>1, <2>4 DEF Left, TypeOK
    <3>2. Left(c) \/ Pushed(c)
      BY <2>1, <3>1 DEF Pool, Left, Pushed
    <3>3. QED
      BY <1>1, <3>1, <3>2, LeftElsewhere DEF Passes
  <2>5. QED
    BY <1>3, <2>3, <2>4 DEF SwapBuffers
<1>4. CASE Resize(c)
  <2>1. UNCHANGED <<pending, held>> /\ (UNCHANGED recycled \/ recycled' = Drained(c))
    BY <1>4 DEF Resize, ResizeTo
  <2>2. CASE recycled' = Drained(c)
    <3>1. Emptied(c) /\ \A d \in Chains \ {c} : Left(d)
      BY <1>1, <2>1, <2>2 DEF Drained, Emptied, Left, TypeOK
    <3>2. QED
      BY <1>1, <3>1, LeftElsewhere DEF Passes
  <2>3. QED
    BY <1>2, <2>1, <2>2
<1>5. CASE Destroy(c)
  <2>1. ~TakePanics(c)
    BY <1>5, CallFindsBackBuffer DEF Destroy
  <2>2. /\ UNCHANGED held /\ recycled' = Drained(c)
        /\ pending' = [pending EXCEPT ![c] = NoSurface]
    BY <1>5, DestroyTakesBack
  <2>3. Emptied(c) /\ \A d \in Chains \ {c} : Left(d)
    BY <1>1, <2>2 DEF Drained, Emptied, Left, TypeOK
  <2>4. QED
    BY <1>1, <2>3, LeftElsewhere DEF Passes
<1>6. QED
  BY <1>2, <1>3, <1>4, <1>5, DisciplinedCalls, OwnTexture
     DEF Producer, ProtocolInv, CreateAttached, CreateDetached, TakeAttachmentFrom, TakeSurfaceTexture,
         ClearSurface

LEMMA ConsumerPasses ==
    ASSUME Disciplined, TypeOK, MaxHeld <= 1, NEW c \in Chains, Ahead(c), Consumer(c)
    PROVE  \A d \in Chains : Passes(d)
<1> USE NoSurfaceAssumption
<1>1. Cardinality(held[c]) < MaxHeld => held[c] = {}
  <2>1. \A s : Cardinality({s}) = 1
    BY FS_Singleton
  <2>2. held[c] = {} \/ Cardinality(held[c]) = 1
    BY <2>1 DEF Ahead
  <2>3. QED
    BY <2>2, MaxHeldAssumption
<1>2. \A d \in Chains \ {c} : Left(d)
  BY DisciplinedCalls DEF Consumer, TakeSurface, TakePendingSurface, Left, TypeOK
<1>3. CASE /\ Cardinality(held[c]) < MaxHeld /\ pending[c] # NoSurface
           /\ held' = [held EXCEPT ![c] = @ \cup {pending[c]}]
           /\ pending' = [pending EXCEPT ![c] = NoSurface]
           /\ UNCHANGED recycled
  BY <1>1, <1>2, <1>3, LeftElsewhere DEF Passes, FrontTaken, TypeOK
<1>4. CASE /\ Cardinality(held[c]) < MaxHeld /\ pending[c] = NoSurface
           /\ recycled[c] # <<>>
           /\ held' = [held EXCEPT ![c] = @ \cup {recycled[c][Len(recycled[c])]}]
           /\ UNCHANGED pending
  BY <1>1, <1>2, <1>4, LeftElsewhere DEF Passes, LastTaken, LastOf, TypeOK
<1>5. CASE RecycleSurface(c)
  <2>1. PICK s \in held[c] :
           /\ held' = [held EXCEPT ![c] = @ \ {s}]
           /\ recycled' = [recycled EXCEPT ![c] = Append(@, s)]
    BY <1>5, DisciplinedCalls
  <2>2. held'[c] = {} /\ recycled'[c] = Append(recycled[c], s) /\ pending'[c] = pending[c]
    BY <1>5, <2>1 DEF RecycleSurface, Ahead, TypeOK
  <2>3. QED
    BY <1>2, <2>1, <2>2, LeftElsewhere DEF Passes, Returned
<1>6. QED
  BY <1>3, <1>4, <1>5 DEF Consumer, TakeSurface, TakePendingSurface

LEMMA DropPasses ==
    ASSUME TypeOK, NEW c \in Chains, DropChain(c)
    PROVE  \A d \in Chains : Passes(d)
<1>1. Emptied(c) /\ \A d \in Chains \ {c} : Left(d)
  BY DEF DropChain, Drained, Emptied, Left, TypeOK
<1>2. QED
  BY <1>1, LeftElsewhere DEF Passes

LEMMA HistoryStep ==
    ASSUME Disciplined, MaxHeld <= 1, ProtocolInv, ProtocolInv', HistoryInv, [HNext]_hvars
    PROVE  /\ HistoryInv'
           /\ UNCHANGED hvars \/ \A c \in Chains : back'[c] # "Absent" => seen'[c] >= seen[c]
<1>1. CASE UNCHANGED hvars
  BY <1>1 DEF hvars, vars, chainVars, HistoryInv, HistoryTypeOK, Ahead
<1>2. CASE HNext
  <2>1. TypeOK /\ TypeOK' /\ RecordFrames /\ RecordSeen
    BY <1>2 DEF HNext, ProtocolInv
  <2>2. \A c \in Chains : Passes(c)
    <3>1. CASE BindFirstSurface
      BY <3>1 DEF BindFirstSurface, chainVars, Passes, Left
    <3>2. CASE \E c \in Chains : Producer(c) \/ Consumer(c) \/ DropChain(c)
      BY <2>1, <3>2, ProducerPasses, ConsumerPasses, DropPasses DEF HistoryInv
    <3>3. QED
      BY <1>2, <3>1, <3>2 DEF HNext, Next
  <2>3. \A c \in Chains : /\ seen'[c] \in Nat /\ seen'[c] <= frames'
                          /\ back'[c] # "Absent" => seen[c] <= seen'[c]
                          /\ Ahead(c)'
    BY <2>1, <2>2, AheadStep
  <2>4. HistoryTypeOK'
    <3>1. seen' = [c \in Chains |-> seen'[c]]
      BY <2>1 DEF RecordSeen
    <3>2. seen' \in [Chains -> Nat]
      BY <2>3, <3>1
    <3>3. QED
      BY <2>1, <2>3, <3>2, FramesGrow DEF HistoryTypeOK, HistoryInv
  <2>5. \A c \in Chains : seen[c] \in Nat /\ seen'[c] \in Nat
    BY <2>3 DEF HistoryInv, HistoryTypeOK
  <2>6. QED
    BY <2>3, <2>4, <2>5 DEF HistoryInv
<1>3. QED
  BY <1>1, <1>2

\* Under the protocol, and if consumers hold one surface at a time, none of them is ever
\* given an older frame than the one it saw before, for any number of chains, surfaces,
\* sizes and frames: swap_remove disorders the list, but leaves a newer front buffer to be
\* taken before it, which comes back to its end (swap_buffers, take_surface,
\* recycle_surface).
THEOREM ConsumersNeverGoBack ==
    ASSUME Disciplined, MaxHeld <= 1
    PROVE  HSpec => SeenNeverGoesBack
<1>1. HInit => Init /\ HistoryInv
  BY DEF HInit, Init, HistoryInv, HistoryTypeOK, Ahead
<1>2. [HNext]_hvars => [Next]_vars
  BY DEF HNext, hvars
<1>3. HSpec => Spec
  BY <1>1, <1>2, PTL DEF HSpec, Spec
<1>4. HSpec => []ProtocolInv
  BY <1>3, ProtocolAlways, PTL
<1>5. ProtocolInv /\ ProtocolInv' /\ HistoryInv /\ [HNext]_hvars =>
         /\ HistoryInv'
         /\ [\A c \in Chains : back'[c] # "Absent" => seen'[c] >= seen[c]]_hvars
  BY HistoryStep
<1>6. QED
  BY <1>1, <1>4, <1>5, PTL DEF HSpec, SeenNeverGoesBack
=============================================================================
