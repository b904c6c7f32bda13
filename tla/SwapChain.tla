----------------------------- MODULE SwapChain -----------------------------
(***************************************************************************)
(* The swap chains of one producer context (chains.rs).  A chain passes    *)
(* surfaces between the producer, which draws to the back buffer and swaps *)
(* it into the pending (front) slot, and consumers, which take a surface,  *)
(* show it and return it to the recycled list.                             *)
(*                                                                         *)
(* Every method holds the chain's mutex from its first line to its last    *)
(* (SwapChain::lock), so a method is one action.  Its early returns, the   *)
(* failures of the device calls it makes, and the panics of its unwrap()s  *)
(* are disjuncts of that action.  `alive' holds the surfaces that have been *)
(* created and not destroyed; where they are follows from the other        *)
(* variables, so a surface the code drops is alive and in no place.        *)
(*                                                                         *)
(* Beside some definitions stands a mistaken form of them, "Mistake: ...", *)
(* which no action uses: put in their place it breaks the property that    *)
(* guards against it.                                                      *)
(***************************************************************************)
EXTENDS Naturals, Sequences, FiniteSets, Functions

CONSTANTS
    Chains,      \* the swap chains whose producer is this context
    Surfaces,    \* identities of surfaces; the bound on how many exist at once
    NoSurface,   \* Option::None for a surface
    Sizes,       \* the surface sizes the producer may ask for
    MaxHeld,     \* bound: surfaces of one chain in the hands of consumers
    Faults,      \* device calls that may fail
    Misuse       \* calls the API accepts although the protocol in the
                 \* header of chains.rs does not foresee them

DeviceCalls == {"create", "bind", "unbind", "destroy", "texture"}

\* "texture_out": the producer goes on while the texture of a back buffer is
\* out; "attach_anytime": an attached chain is created while the context has one
\* already or has no surface bound;
\* "destroy_while_held": a chain destroyed before its consumers returned all;
\* "clear_unbound": a detached chain cleared while no surface is bound;
\* "use_destroyed": a clone of a destroyed chain used as before;
\* "return_elsewhere": a surface or a texture returned to another chain;
\* "other_context": a chain used with a context that is not its producer.
Misuses ==
    {"texture_out", "attach_anytime", "destroy_while_held", "clear_unbound",
     "use_destroyed", "return_elsewhere", "other_context"}

ASSUME NoSurfaceAssumption == NoSurface \notin Surfaces
ASSUME SizesAssumption == Sizes # {}
ASSUME MaxHeldAssumption == MaxHeld \in Nat
ASSUME FaultsAssumption == Faults \subseteq DeviceCalls
ASSUME MisuseAssumption == Misuse \subseteq Misuses

VARIABLES
    bound,       \* the surface bound to the producer context
    back,        \* chain -> state of its BackBuffer, "Absent" if no chain
    detached,    \* chain -> the surface inside BackBuffer::Detached
    pending,     \* chain -> pending_surface
    recycled,    \* chain -> recycled_surfaces, push and pop at the end
    size,        \* chain -> size
    retired,     \* chains on which destroy has been called
    held,        \* chain -> surfaces its consumers hold
    texture,     \* chain -> surface out as a SurfaceTexture for which its back
                 \* buffer waits
    surfaceSize, \* surface -> the size it was created with
    alive,       \* surfaces created and not destroyed
    result       \* outcome of the producer's last call

chainVars == <<back, detached, pending, recycled, size, retired, held, texture>>
vars == <<bound, chainVars, surfaceSize, alive, result>>

OptSurface == Surfaces \cup {NoSurface}

\* detached[c] is the payload of one variant of the enum BackBuffer, so it is
\* there exactly in that variant.
TypeOK ==
    /\ bound \in OptSurface
    /\ back \in [Chains -> {"Absent", "Attached", "Detached",
                            "TakenAttached", "TakenDetached"}]
    /\ detached \in [Chains -> OptSurface]
    /\ \A c \in Chains : back[c] = "Detached" <=> detached[c] # NoSurface
    /\ pending \in [Chains -> OptSurface]
    /\ recycled \in [Chains -> Seq(Surfaces)]
    /\ size \in [Chains -> Sizes]
    /\ retired \subseteq Chains
    /\ held \in [Chains -> SUBSET Surfaces]
    /\ texture \in [Chains -> OptSurface]
    /\ surfaceSize \in [Surfaces -> Sizes]
    /\ alive \subseteq Surfaces
    /\ result \in {"ok", "err", "panic"}

-----------------------------------------------------------------------------
(* Where surfaces are. *)

\* The surfaces a chain accounts for, the one bound to the context aside.
OwnedBy(c) == ({detached[c], pending[c], texture[c]} \ {NoSurface})
                 \cup Range(recycled[c]) \cup held[c]

Placed == ({bound} \ {NoSurface}) \cup UNION {OwnedBy(c) : c \in Chains}

\* A surface about to be created.
Free == Surfaces \ (alive \cup Placed)

IsAttached(c) == back[c] \in {"Attached", "TakenAttached"}
IsTaken(c) == back[c] \in {"TakenAttached", "TakenDetached"}

\* The surface BackBuffer::take_surface yields when it does not fail.
BackSurface(c) == IF back[c] = "Attached" THEN bound ELSE detached[c]

-----------------------------------------------------------------------------
(* Pieces the methods share. *)

\* A producer method runs on a chain that exists, and only while the producer
\* thread has not panicked.
MayCall(c) ==
    /\ back[c] # "Absent"
    /\ c \notin retired \/ "use_destroyed" \in Misuse
    /\ result # "panic"
    /\ "texture_out" \in Misuse \/ \A d \in Chains : texture[d] = NoSurface

\* Vec::swap_remove.
SwapRemove(q, i) ==
    [j \in 1..(Len(q) - 1) |-> IF j = i THEN q[Len(q)] ELSE q[j]]

\* `let _ = destroy_surface(surface);' for the surfaces of S.
DestroyIgnored(S) ==
    \/ alive' = alive \ S
    \/ "destroy" \in Faults /\ \E T \in SUBSET S : alive' = alive \ T

\* Mistake: the failures are ignored.
DestroyInOrderUnchecked(q) ==
    /\ \/ alive' = alive \ Range(q)
       \/ "destroy" \in Faults /\ \E k \in 1..Len(q) : alive' = alive \ {q[k]}
    /\ result' = "ok"

\* `for surface in q { destroy_surface(surface)?; }': the first failure leaves
\* that surface and every one after it undestroyed.
DestroyInOrder(q) ==
    \/ alive' = alive \ Range(q) /\ result' = "ok"
    \/ /\ "destroy" \in Faults
       /\ \E k \in 1..Len(q) : alive' = alive \ {q[j] : j \in 1..(k - 1)}
       /\ result' = "err"

\* Mistake: iter_mut() where drain(..) is meant.
NotDrained(c) == recycled

\* recycled_surfaces.drain(..): the list is emptied even if the loop stops early.
Drained(c) == [recycled EXCEPT ![c] = <<>>]

\* BackBuffer::take_surface followed by replace_surface(n), which swap_buffers
\* and resize both do.  Exchange: it works, and BackSurface(c) is what was taken.
CanTake(c) ==
    \/ back[c] = "Detached"
    \/ back[c] = "Attached" /\ bound # NoSurface

\* Mistake: the new state is not stored.
ExchangeLeavesTaken(c, n) ==
    /\ CanTake(c)
    /\ back' = [back EXCEPT ![c] = IF @ = "Attached" THEN "TakenAttached"
                                                    ELSE "TakenDetached"]
    /\ bound' = IF back[c] = "Attached" THEN n ELSE bound
    /\ detached' = [detached EXCEPT ![c] = NoSurface]

\* Mistake: the new surface is not bound.
ExchangeUnbound(c, n) ==
    /\ CanTake(c)
    /\ bound' = IF back[c] = "Attached" THEN NoSurface ELSE bound
    /\ detached' = IF back[c] = "Attached" THEN detached
                                           ELSE [detached EXCEPT ![c] = n]
    /\ UNCHANGED back

\* Mistake: a back buffer that is out is replaced all the same.
ExchangeUnchecked(c, n) ==
    /\ bound' = IF IsAttached(c) THEN n ELSE bound
    /\ detached' = IF IsAttached(c) THEN detached ELSE [detached EXCEPT ![c] = n]
    /\ back' = [back EXCEPT ![c] = IF IsAttached(c) THEN "Attached" ELSE "Detached"]

Exchange(c, n) ==
    /\ CanTake(c)
    /\ bound' = IF back[c] = "Attached" THEN n ELSE bound
    /\ detached' = IF back[c] = "Attached" THEN detached
                                           ELSE [detached EXCEPT ![c] = n]
    /\ UNCHANGED back

\* take_surface fails because the back buffer is out already.
TakeRefused(c) ==
    /\ IsTaken(c)
    /\ UNCHANGED <<back, bound, detached>>

\* unbind_surface_from_context returned Ok(None): unwrap() panics, and the
\* Taken state has been written already.
TakePanics(c) ==
    /\ back[c] = "Attached"
    /\ bound = NoSurface
    /\ back' = [back EXCEPT ![c] = "TakenAttached"]
    /\ UNCHANGED <<bound, detached>>

\* unbind_surface_from_context failed, when the state has been written already.  The
\* context keeps its surface, or the device has dropped it.
UnbindRefused(c) ==
    /\ "unbind" \in Faults
    /\ back[c] = "Attached"
    /\ back' = [back EXCEPT ![c] = "TakenAttached"]
    /\ bound' \in {bound, NoSurface}
    /\ UNCHANGED detached

\* The ways take_surface fails.
TakeFails(c) ==
    \/ TakeRefused(c) /\ result' = "err"
    \/ UnbindRefused(c) /\ result' = "err"
    \/ TakePanics(c) /\ result' = "panic"

\* The old surface has been unbound and taken, the new one cannot be bound.
BindRefused(c) ==
    /\ "bind" \in Faults
    /\ back[c] = "Attached"
    /\ bound # NoSurface
    /\ back' = [back EXCEPT ![c] = "TakenAttached"]
    /\ bound' = NoSurface
    /\ UNCHANGED detached

-----------------------------------------------------------------------------
(* Creation. *)

\* The application creates a surface and binds it to the context, as it must
\* before create_attached.
BindFirstSurface ==
    /\ bound = NoSurface
    /\ result # "panic"
    /\ \A c \in Chains : IsAttached(c) => c \in retired
    /\ \E s \in Free, z \in Sizes :
          /\ bound' = s
          /\ surfaceSize' = [surfaceSize EXCEPT ![s] = z]
          /\ alive' = alive \cup {s}
    /\ result' = "ok"
    /\ UNCHANGED chainVars

CreateAttached(c) ==
    /\ back[c] = "Absent"
    /\ result # "panic"
    /\ \/ "attach_anytime" \in Misuse
       \/ bound # NoSurface /\ \A d \in Chains : IsAttached(d) => d \in retired
    /\ \/ /\ bound # NoSurface
          /\ back' = [back EXCEPT ![c] = "Attached"]
          /\ size' = [size EXCEPT ![c] = surfaceSize[bound]]
          /\ result' = "ok"
       \/ /\ bound = NoSurface
          /\ result' = "panic"
          /\ UNCHANGED <<back, size>>
    /\ UNCHANGED <<bound, detached, pending, recycled, retired, held, texture,
                   surfaceSize, alive>>

CreateDetached(c) ==
    /\ back[c] = "Absent"
    /\ result # "panic"
    /\ \/ \E s \in Free, z \in Sizes :
             /\ back' = [back EXCEPT ![c] = "Detached"]
             /\ detached' = [detached EXCEPT ![c] = s]
             /\ size' = [size EXCEPT ![c] = z]
             /\ surfaceSize' = [surfaceSize EXCEPT ![s] = z]
             /\ alive' = alive \cup {s}
             /\ result' = "ok"
       \/ /\ "create" \in Faults
          /\ result' = "err"
          /\ UNCHANGED <<back, detached, size, surfaceSize, alive>>
    /\ UNCHANGED <<bound, pending, recycled, retired, held, texture>>

-----------------------------------------------------------------------------
(* The producer's methods. *)

\* Mistake: the front buffer is not pushed.
PoolWithoutFront(c) == recycled[c]

\* recycled_surfaces once swap_buffers has pushed the old front buffer.
Pool(c) == IF pending[c] = NoSurface THEN recycled[c]
                                     ELSE Append(recycled[c], pending[c])

\* Mistakes: any surface will do, or none does.
FitsAnySize(c) == {i \in 1..Len(Pool(c)) : i = 1}
FitsNever(c) == {}

\* The index `position' finds: the first surface of the chain's size, if any.
FirstFit(c) ==
    {i \in 1..Len(Pool(c)) :
        /\ surfaceSize[Pool(c)[i]] = size[c]
        /\ \A j \in 1..(i - 1) : surfaceSize[Pool(c)[j]] # size[c]}

\* swap_buffers once n is the new back buffer and `rest' is left to recycle.  The
\* front buffer has been recycled by then, and the old back buffer is dropped if
\* the new one cannot be bound.
SwapIn(c, n, rest) ==
    /\ recycled' = [recycled EXCEPT ![c] = rest]
    /\ \/ /\ Exchange(c, n)
          /\ pending' = [pending EXCEPT ![c] = BackSurface(c)]
          /\ alive' = alive \cup {n}
          /\ result' = "ok"
       \/ /\ TakeFails(c)
          /\ pending' = [pending EXCEPT ![c] = NoSurface]
          /\ alive' = alive \cup {n}
       \/ /\ BindRefused(c)
          /\ pending' = [pending EXCEPT ![c] = NoSurface]
          /\ \/ alive' = alive \ {n}
             \/ alive' = alive \cup {n} /\ "destroy" \in Faults
          /\ result' = "err"

SwapBuffers(c) ==
    /\ MayCall(c)
    /\ \/ \E i \in FirstFit(c) :
             /\ SwapIn(c, Pool(c)[i], SwapRemove(Pool(c), i))
             /\ UNCHANGED surfaceSize
       \/ /\ FirstFit(c) = {}
          /\ \E n \in Free :
                /\ SwapIn(c, n, Pool(c))
                /\ surfaceSize' = [surfaceSize EXCEPT ![n] = size[c]]
       \/ /\ FirstFit(c) = {}
          /\ "create" \in Faults
          /\ recycled' = [recycled EXCEPT ![c] = Pool(c)]
          /\ pending' = [pending EXCEPT ![c] = NoSurface]
          /\ result' = "err"
          /\ UNCHANGED <<bound, back, detached, surfaceSize, alive>>
    /\ UNCHANGED <<size, retired, held, texture>>

\* resize once the surface n of size z exists.
ResizeTo(c, n, z) ==
    \/ /\ Exchange(c, n)
       /\ \/ /\ alive' = (alive \cup {n}) \ ({BackSurface(c)} \cup Range(recycled[c]))
             /\ recycled' = Drained(c)
             /\ size' = [size EXCEPT ![c] = z]
             /\ result' = "ok"
          \/ /\ "destroy" \in Faults
             /\ \/ \* the old back buffer is not destroyed ...
                   alive' = alive \cup {n} /\ UNCHANGED recycled
                \/ \* ... or it is, and the k-th recycled surface is not
                   /\ \E k \in 1..Len(recycled[c]) :
                         alive' = (alive \cup {n}) \ ({BackSurface(c)} \cup
                                     {recycled[c][j] : j \in 1..(k - 1)})
                   /\ recycled' = Drained(c)
             /\ result' = "err"
             /\ UNCHANGED size
    \/ /\ TakeFails(c)
       /\ alive' = alive \cup {n}
       /\ UNCHANGED <<recycled, size>>
    \/ /\ BindRefused(c)
       /\ \/ UNCHANGED alive
          \/ alive' = alive \cup {n} /\ "destroy" \in Faults
       /\ result' = "err"
       /\ UNCHANGED <<recycled, size>>

Resize(c) ==
    /\ MayCall(c)
    /\ \/ \E n \in Free, z \in Sizes :
             /\ ResizeTo(c, n, z)
             /\ surfaceSize' = [surfaceSize EXCEPT ![n] = z]
       \/ /\ "create" \in Faults
          /\ result' = "err"
          /\ UNCHANGED <<bound, back, detached, recycled, size, surfaceSize, alive>>
    /\ UNCHANGED <<pending, retired, held, texture>>

\* c.take_attachment_from(d).  Once both surfaces are taken the states change
\* hands, and each chain puts its own surface back under the other's state.
TakeBoth(c, d) ==
    /\ CanTake(c)
    /\ CanTake(d)
    /\ ~(back[c] = "Attached" /\ back[d] = "Attached")

\* Mistakes: the surfaces change hands along with the states, or stay where they
\* are.
TakeAttachmentWithSurface(c, d) ==
    /\ TakeBoth(c, d)
    /\ back' = [back EXCEPT ![c] = back[d], ![d] = back[c]]
    /\ detached' = [detached EXCEPT ![c] = detached[d], ![d] = detached[c]]
    /\ result' = "ok"
    /\ UNCHANGED <<bound, alive>>

TakeAttachmentStatesOnly(c, d) ==
    /\ TakeBoth(c, d)
    /\ back' = [back EXCEPT ![c] = back[d], ![d] = back[c]]
    /\ result' = "ok"
    /\ UNCHANGED <<bound, detached, alive>>

TakeAttachmentOk(c, d) ==
    /\ TakeBoth(c, d)
    /\ back' = [back EXCEPT ![c] = back[d], ![d] = back[c]]
    /\ \/ /\ back[c] = "Detached" /\ back[d] = "Attached"
          /\ bound' = detached[c]
          /\ detached' = [detached EXCEPT ![c] = NoSurface, ![d] = bound]
       \/ /\ back[c] = "Attached" /\ back[d] = "Detached"
          /\ bound' = detached[d]
          /\ detached' = [detached EXCEPT ![c] = bound, ![d] = NoSurface]
       \/ /\ back[c] = "Detached" /\ back[d] = "Detached"
          /\ UNCHANGED <<bound, detached>>
    /\ result' = "ok"
    /\ UNCHANGED alive

\* The surface that is to be bound is refused and destroyed.  If it was c's the
\* call stops there and drops d's; if it was d's, c has its own back already.
TakeAttachmentUnbound(c, d) ==
    /\ TakeBoth(c, d)
    /\ "bind" \in Faults
    /\ bound' = NoSurface
    /\ \/ /\ back[c] = "Detached" /\ back[d] = "Attached"
          /\ back' = [back EXCEPT ![c] = "TakenAttached", ![d] = "TakenDetached"]
          /\ detached' = [detached EXCEPT ![c] = NoSurface]
          /\ DestroyIgnored({detached[c]})
       \/ /\ back[c] = "Attached" /\ back[d] = "Detached"
          /\ back' = [back EXCEPT ![c] = "Detached", ![d] = "TakenAttached"]
          /\ detached' = [detached EXCEPT ![c] = bound, ![d] = NoSurface]
          /\ DestroyIgnored({detached[d]})
    /\ result' = "err"

\* c's surface has been taken and d's cannot be: c's is dropped and c stays Taken.
TakeAttachmentHalfway(c, d) ==
    /\ CanTake(c)
    /\ \/ IsTaken(d) /\ result' = "err"
       \/ back[d] = "Attached" /\ "unbind" \in Faults /\ result' = "err"
       \/ /\ back[d] = "Attached"
          /\ back[c] = "Attached" \/ bound = NoSurface
          /\ result' = "panic"
    /\ back' = [e \in Chains |->
                   CASE e = c /\ back[c] = "Attached" -> "TakenAttached"
                     [] e = c /\ back[c] = "Detached" -> "TakenDetached"
                     [] e = d /\ back[d] = "Attached" -> "TakenAttached"
                     [] OTHER -> back[e]]
    /\ \/ bound' = IF back[c] = "Attached" THEN NoSurface ELSE bound
       \/ back[d] = "Attached" /\ "unbind" \in Faults /\ bound' = NoSurface
    /\ detached' = [detached EXCEPT ![c] = NoSurface]
    /\ UNCHANGED alive

TakeAttachmentRefused(c) == TakeFails(c) /\ UNCHANGED alive

\* A chain's own mutex is not reentrant: c # d, or the call never returns.
TakeAttachmentFrom(c, d) ==
    /\ c # d
    /\ MayCall(c) /\ MayCall(d)
    /\ \/ TakeAttachmentOk(c, d)
       \/ TakeAttachmentUnbound(c, d)
       \/ TakeAttachmentHalfway(c, d)
       \/ TakeAttachmentRefused(c)
    /\ UNCHANGED <<pending, recycled, size, retired, held, texture, surfaceSize>>

TakeSurfaceTexture(c) ==
    /\ MayCall(c)
    /\ \/ /\ CanTake(c)
          /\ back' = [back EXCEPT ![c] = IF back[c] = "Attached"
                                         THEN "TakenAttached"
                                         ELSE "TakenDetached"]
          /\ bound' = IF back[c] = "Attached" THEN NoSurface ELSE bound
          /\ detached' = [detached EXCEPT ![c] = NoSurface]
          /\ texture' = [texture EXCEPT ![c] = BackSurface(c)]
          /\ result' = "ok"
          /\ UNCHANGED alive
       \/ \* create_surface_texture fails, the surface is put back ...
          /\ CanTake(c)
          /\ "texture" \in Faults
          /\ result' = "err"
          /\ UNCHANGED <<back, bound, detached, texture, alive>>
       \/ \* ... or cannot be bound again, and is destroyed
          /\ BindRefused(c)
          /\ "texture" \in Faults
          /\ DestroyIgnored({bound})
          /\ result' = "err"
          /\ UNCHANGED texture
       \/ TakeFails(c) /\ UNCHANGED <<texture, alive>>
    /\ UNCHANGED <<pending, recycled, size, retired, held, surfaceSize>>

\* destroy_surface_texture, then replace_surface.  Binding is refused when the
\* context has a surface already, whatever the device.  Nothing says whose texture
\* it is: the one of d fills the slot of c, and what was out for c is then out for d.
RecycleSurfaceTexture(c) ==
    /\ result # "panic"
    /\ back[c] # "Absent"
    /\ \E d \in Chains :
          /\ d = c \/ "return_elsewhere" \in Misuse
          /\ texture[d] # NoSurface
          /\ \/ /\ \/ /\ back[c] = "TakenAttached" /\ bound = NoSurface
                      /\ back' = [back EXCEPT ![c] = "Attached"]
                      /\ bound' = texture[d]
                      /\ UNCHANGED detached
                   \/ /\ back[c] = "TakenDetached"
                      /\ back' = [back EXCEPT ![c] = "Detached"]
                      /\ detached' = [detached EXCEPT ![c] = texture[d]]
                      /\ UNCHANGED bound
                /\ texture' = [texture EXCEPT ![d] = texture[c], ![c] = NoSurface]
                /\ result' = "ok"
                /\ UNCHANGED alive
             \/ /\ \/ /\ back[c] = "TakenAttached"
                      /\ bound # NoSurface \/ "bind" \in Faults
                      /\ DestroyIgnored({texture[d]})
                   \/ /\ \/ ~IsTaken(c)
                         \/ "texture" \in Faults
                         \/ "other_context" \in Misuse
                      /\ UNCHANGED alive
                /\ texture' = [texture EXCEPT ![d] = NoSurface]
                /\ result' = "err"
                /\ UNCHANGED <<back, bound, detached>>
    /\ UNCHANGED <<pending, recycled, size, retired, held, surfaceSize>>

\* clear_surface binds a detached chain's surface for the time it clears it, and
\* binds the surface it displaced again; it never puts the chain's own surface
\* back when it displaced none.
ClearSurface(c) ==
    /\ MayCall(c)
    /\ IsAttached(c) \/ bound # NoSurface \/ "clear_unbound" \in Misuse
    /\ \/ /\ IsAttached(c)
          /\ result' = IF bound = NoSurface THEN "panic" ELSE "ok"
          /\ UNCHANGED <<back, bound, detached, alive>>
       \/ /\ back[c] = "Detached" /\ bound # NoSurface
          /\ result' = "ok"
          /\ UNCHANGED <<back, bound, detached, alive>>
       \/ /\ back[c] = "Detached" /\ bound = NoSurface
          /\ back' = [back EXCEPT ![c] = "TakenDetached"]
          /\ bound' = detached[c]
          /\ detached' = [detached EXCEPT ![c] = NoSurface]
          /\ result' = "ok"
          /\ UNCHANGED alive
       \/ \* either bind is refused: both surfaces are destroyed
          /\ "bind" \in Faults
          /\ back[c] = "Detached"
          /\ back' = [back EXCEPT ![c] = "TakenDetached"]
          /\ bound' = NoSurface
          /\ detached' = [detached EXCEPT ![c] = NoSurface]
          /\ DestroyIgnored({bound, detached[c]})
          /\ result' = "err"
       \/ \* either unbind is: the chain's surface is dropped, or the one that it
          \* displaced
          /\ "unbind" \in Faults
          /\ back[c] = "Detached"
          /\ back' = [back EXCEPT ![c] = "TakenDetached"]
          /\ \/ bound' \in {bound, NoSurface}
             \/ bound # NoSurface /\ bound' = detached[c]
          /\ detached' = [detached EXCEPT ![c] = NoSurface]
          /\ result' = "err"
          /\ UNCHANGED alive
       \/ /\ back[c] = "TakenDetached"
          /\ result' = "err"
          /\ UNCHANGED <<back, bound, detached, alive>>
    /\ UNCHANGED <<pending, recycled, size, retired, held, texture, surfaceSize>>

\* The surfaces destroy destroys, in its order: pending, back, recycled.
Doomed(c, rear) ==
    (IF pending[c] = NoSurface THEN <<>> ELSE <<pending[c]>>) \o rear \o recycled[c]

\* The error of take_surface is dropped: a back buffer that is out, or that the
\* context does not give up, is skipped.
Destroy(c) ==
    /\ MayCall(c)
    /\ "destroy_while_held" \in Misuse \/ held[c] = {}
    /\ retired' = retired \cup {c}
    /\ pending' = [pending EXCEPT ![c] = NoSurface]
    /\ \/ /\ CanTake(c)
          /\ back' = [back EXCEPT ![c] = IF @ = "Attached" THEN "TakenAttached"
                                                           ELSE "TakenDetached"]
          /\ bound' = IF back[c] = "Attached" THEN NoSurface ELSE bound
          /\ detached' = [detached EXCEPT ![c] = NoSurface]
          /\ recycled' = Drained(c)
          /\ DestroyInOrder(Doomed(c, <<BackSurface(c)>>))
       \/ /\ TakeRefused(c) \/ UnbindRefused(c)
          /\ recycled' = Drained(c)
          /\ DestroyInOrder(Doomed(c, <<>>))
       \/ /\ TakePanics(c)
          /\ result' = "panic"
          /\ UNCHANGED <<recycled, alive>>
    /\ UNCHANGED <<size, held, texture, surfaceSize>>

\* validate_context fails.  An application that gives up a texture in such a call
\* has lost it: see RecycleSurfaceTexture.
IncompatibleContext(c) ==
    /\ MayCall(c)
    /\ "other_context" \in Misuse
    /\ result' = "err"
    /\ UNCHANGED <<bound, chainVars, surfaceSize, alive>>

-----------------------------------------------------------------------------
(* The consumers' methods. *)

\* Mistake: the front buffer if there is one, else the start of the recycled list.
TakeOldestSurface(c) ==
    /\ back[c] # "Absent"
    /\ Cardinality(held[c]) < MaxHeld
    /\ \/ /\ pending[c] # NoSurface
          /\ held' = [held EXCEPT ![c] = @ \cup {pending[c]}]
          /\ pending' = [pending EXCEPT ![c] = NoSurface]
          /\ UNCHANGED recycled
       \/ /\ pending[c] = NoSurface
          /\ recycled[c] # <<>>
          /\ held' = [held EXCEPT ![c] = @ \cup {Head(recycled[c])}]
          /\ recycled' = [recycled EXCEPT ![c] = Tail(@)]
          /\ UNCHANGED pending
    /\ UNCHANGED <<bound, back, detached, size, retired, texture, surfaceSize,
                   alive, result>>

\* The front buffer if there is one, else the end of the recycled list.
TakeSurface(c) ==
    /\ back[c] # "Absent"
    /\ Cardinality(held[c]) < MaxHeld
    /\ \/ /\ pending[c] # NoSurface
          /\ held' = [held EXCEPT ![c] = @ \cup {pending[c]}]
          /\ pending' = [pending EXCEPT ![c] = NoSurface]
          /\ UNCHANGED recycled
       \/ /\ pending[c] = NoSurface
          /\ recycled[c] # <<>>
          /\ held' = [held EXCEPT ![c] = @ \cup {recycled[c][Len(recycled[c])]}]
          /\ recycled' = [recycled EXCEPT ![c] = SubSeq(@, 1, Len(@) - 1)]
          /\ UNCHANGED pending
    /\ UNCHANGED <<bound, back, detached, size, retired, texture, surfaceSize,
                   alive, result>>

TakePendingSurface(c) ==
    /\ back[c] # "Absent"
    /\ Cardinality(held[c]) < MaxHeld
    /\ pending[c] # NoSurface
    /\ held' = [held EXCEPT ![c] = @ \cup {pending[c]}]
    /\ pending' = [pending EXCEPT ![c] = NoSurface]
    /\ UNCHANGED <<bound, back, detached, recycled, size, retired, texture,
                   surfaceSize, alive, result>>

RecycleSurface(c) ==
    /\ back[c] # "Absent"
    /\ \E d \in Chains :
          /\ d = c \/ "return_elsewhere" \in Misuse
          /\ \E s \in held[d] :
                /\ held' = [held EXCEPT ![d] = @ \ {s}]
                /\ recycled' = [recycled EXCEPT ![c] = Append(@, s)]
    /\ UNCHANGED <<bound, back, detached, pending, size, retired, texture,
                   surfaceSize, alive, result>>

\* The last clone of a destroyed chain goes: what is still in it is dropped.
DropChain(c) ==
    /\ c \in retired
    /\ held[c] = {}
    /\ texture[c] = NoSurface
    /\ back' = [back EXCEPT ![c] = "Absent"]
    /\ detached' = [detached EXCEPT ![c] = NoSurface]
    /\ pending' = [pending EXCEPT ![c] = NoSurface]
    /\ recycled' = Drained(c)
    /\ retired' = retired \ {c}
    /\ UNCHANGED <<bound, size, held, texture, surfaceSize, alive, result>>

-----------------------------------------------------------------------------
\* The size of what does not exist yet does not matter.
AnySize == CHOOSE z \in Sizes : TRUE

Init ==
    /\ bound = NoSurface
    /\ back = [c \in Chains |-> "Absent"]
    /\ detached = [c \in Chains |-> NoSurface]
    /\ pending = [c \in Chains |-> NoSurface]
    /\ recycled = [c \in Chains |-> <<>>]
    /\ size = [c \in Chains |-> AnySize]
    /\ retired = {}
    /\ held = [c \in Chains |-> {}]
    /\ texture = [c \in Chains |-> NoSurface]
    /\ surfaceSize = [s \in Surfaces |-> AnySize]
    /\ alive = {}
    /\ result = "ok"

Producer(c) ==
    \/ CreateAttached(c)
    \/ CreateDetached(c)
    \/ SwapBuffers(c)
    \/ Resize(c)
    \/ \E d \in Chains : TakeAttachmentFrom(c, d)
    \/ TakeSurfaceTexture(c)
    \/ RecycleSurfaceTexture(c)
    \/ ClearSurface(c)
    \/ Destroy(c)
    \/ IncompatibleContext(c)

Consumer(c) ==
    \/ TakeSurface(c)
    \/ TakePendingSurface(c)
    \/ RecycleSurface(c)

Next ==
    \/ BindFirstSurface
    \/ \E c \in Chains : Producer(c) \/ Consumer(c) \/ DropChain(c)

Spec == Init /\ [][Next]_vars

-----------------------------------------------------------------------------
(* Properties. *)

Live(c) == back[c] # "Absent" /\ c \notin retired

\* The header of chains.rs: each producer context has one attached swap chain,
\* whose back buffer is the current surface of the context.  No two chains are
\* attached, and the attached one's back buffer is the bound surface unless the
\* producer has it as a texture, when nothing else may be bound in its place.
OneCurrentBackBuffer ==
    /\ \A c, d \in Chains :
          Live(c) /\ Live(d) /\ IsAttached(c) /\ IsAttached(d) => c = d
    /\ \A c \in Chains :
          Live(c) /\ IsAttached(c) => (back[c] = "Attached" <=> bound # NoSurface)

\* `size' is "the size of the back buffer": whatever was swapped, resized,
\* reattached or recycled since, the surface that the producer draws to has the
\* size the chain reports.
BackBufferSized ==
    \A c \in Chains :
        Live(c) /\ CanTake(c) => surfaceSize[BackSurface(c)] = size[c]

\* A chain's back buffer is out only while the producer has it as a texture, so
\* every live chain can be given its back buffer again.
BackBufferComesBack ==
    \A c \in Chains : Live(c) /\ IsTaken(c) => texture[c] # NoSurface

\* Surfaces are destroyed explicitly; one that is dropped leaks its GPU memory,
\* and panics in Drop where the platform checks.  Whatever is alive can be reached.
NothingLost == alive \subseteq Placed

\* No unwrap() in the swap chain is reached with None.
NoPanic == result # "panic"

\* The producer can always go on: whatever it did, in whatever order, and whatever
\* could not be created, its chains can have their back buffers again, and none of
\* the swap chain's many unwrap()s stops it.
ProducerGoesOn == BackBufferComesBack /\ NoPanic

\* Recycling is what keeps a chain from allocating without end: of the current
\* size there are at most a back buffer, a front buffer and what consumers hold,
\* and of older sizes what was in front or held when the chain was last resized.
PoolBounded ==
    \A c \in Chains :
        Live(c) =>
          LET own == OwnedBy(c) \cup (IF back[c] = "Attached" THEN {bound} ELSE {})
              current == {s \in own : surfaceSize[s] = size[c]}
          IN  /\ Cardinality(current) <= MaxHeld + 2
              /\ Cardinality(own \ current) <= MaxHeld + 1

\* For each back buffer that is out as a texture a chain waits with an empty slot,
\* though nothing says which texture is whose: no other surface comes in its place,
\* whatever fails and whatever else is called.
TextureKeepsSlot ==
    \A c \in Chains : texture[c] # NoSurface => IsTaken(c)

\* However calls fail, a producer call that drops a surface reports an error or
\* panics: no call loses a surface and returns Ok, but for destroy, which ignores
\* that the context does not give up the back buffer of an attached chain, and
\* forgets no other.
NoSilentLoss ==
    [][\A c \in Chains :
          Producer(c) /\ result' = "ok" =>
              \/ (alive \ Placed)' \subseteq alive \ Placed
              \/ /\ Destroy(c) /\ back[c] = "Attached"
                 /\ (alive \ Placed)' \subseteq (alive \ Placed) \cup {bound}]_vars
=============================================================================
