---------------------- MODULE SwapChainExchangeProofs ----------------------
(***************************************************************************)
(* The swap chains implement SurfaceExchange, and a call that returns Ok   *)
(* loses no surface, unless it is a destroy from which the back buffer is  *)
(* withheld, for every set of chains, surfaces and sizes, with every       *)
(* device call failing and every misuse of Misuses going on.               *)
(*                                                                         *)
(* The abstract place of a surface is the slot, the list or the hand that  *)
(* holds it, which is well defined only as long as there is one.  So the   *)
(* invariant is that every surface is alone in its place, Placement, and   *)
(* no recycled list holds a surface twice.  For each method a lemma says   *)
(* surface by surface where it was and where it is; that gives both the    *)
(* invariant after the step and the abstract move.                         *)
(***************************************************************************)
EXTENDS SwapChainExchange, SwapChainProofs

-----------------------------------------------------------------------------
(* Lists without repetition. *)

\* What swap_remove leaves of such a list is such a list again, and no longer
\* has the surface removed.
LEMMA SwapRemoveOnce ==
    ASSUME NEW S, NEW q \in Seq(S), IsInjective(q), NEW i \in 1..Len(q)
    PROVE  /\ IsInjective(SwapRemove(q, i))
           /\ q[i] \notin Range(SwapRemove(q, i))
<1>1. Len(q) \in Nat \ {0} /\ DOMAIN q = 1..Len(q)
  BY LenProperties
<1>2. DOMAIN SwapRemove(q, i) = 1..(Len(q) - 1)
  BY DEF SwapRemove
<1>3. /\ \A j, k \in 1..Len(q) : q[j] = q[k] => j = k
      /\ Len(q) \in 1..Len(q) /\ Len(q) \notin 1..(Len(q) - 1)
      /\ \A j \in 1..(Len(q) - 1) : j \in 1..Len(q)
  BY <1>1 DEF IsInjective
<1>4. \A j \in 1..(Len(q) - 1) :
          SwapRemove(q, i)[j] = IF j = i THEN q[Len(q)] ELSE q[j]
  BY DEF SwapRemove
<1>5. ASSUME NEW j \in 1..(Len(q) - 1), NEW k \in 1..(Len(q) - 1),
             SwapRemove(q, i)[j] = SwapRemove(q, i)[k]
      PROVE  j = k
  BY <1>3, <1>4, <1>5
<1>6. ASSUME NEW j \in 1..(Len(q) - 1)
      PROVE  SwapRemove(q, i)[j] # q[i]
  BY <1>3, <1>4
<1>7. QED
  BY <1>2, <1>5, <1>6 DEF IsInjective, Range

LEMMA AppendOnce ==
    ASSUME NEW S, NEW q \in Seq(S), IsInjective(q), NEW s \in S, s \notin Range(q)
    PROVE  IsInjective(Append(q, s))
<1>1. /\ Len(q) \in Nat /\ DOMAIN q = 1..Len(q)
      /\ DOMAIN Append(q, s) = 1..(Len(q) + 1)
      /\ \A j \in 1..Len(q) : Append(q, s)[j] = q[j]
      /\ Append(q, s)[Len(q) + 1] = s
  BY AppendProperties, LenProperties
<1>2. \A j \in 1..(Len(q) + 1) : j # Len(q) + 1 => j \in 1..Len(q)
  BY <1>1
<1>3. \A j \in 1..Len(q) : q[j] # s
  BY <1>1 DEF Range
<1>4. QED
  BY <1>1, <1>2, <1>3 DEF IsInjective

\* Vec::pop leaves the list without the surface it takes.
LEMMA PopOnce ==
    ASSUME NEW S, NEW q \in Seq(S), IsInjective(q), q # <<>>
    PROVE  LET rest == SubSeq(q, 1, Len(q) - 1)
           IN  /\ q[Len(q)] \in S
               /\ IsInjective(rest)
               /\ q[Len(q)] \notin Range(rest)
               /\ Range(q) = Range(rest) \cup {q[Len(q)]}
<1> DEFINE rest == SubSeq(q, 1, Len(q) - 1)
<1>1. Len(q) \in Nat \ {0} /\ DOMAIN q = 1..Len(q) /\ q[Len(q)] \in S
  BY LenProperties, EmptySeq, ElementOfSeq
<1>2. /\ Len(rest) = Len(q) - 1
      /\ rest \in Seq(S)
      /\ \A j \in 1..(Len(q) - 1) : rest[j] = q[j]
  BY <1>1, SubSeqProperties, ElementOfSeq
<1>3. DOMAIN rest = 1..(Len(q) - 1)
  BY <1>2, LenProperties
<1> HIDE DEF rest
<1>4. /\ 1..Len(q) = 1..(Len(q) - 1) \cup {Len(q)}
      /\ Len(q) \notin 1..(Len(q) - 1)
  BY <1>1
<1>5. IsInjective(rest) /\ q[Len(q)] \notin Range(rest)
  BY <1>1, <1>2, <1>3, <1>4 DEF IsInjective, Range
<1>6. Range(q) = Range(rest) \cup {q[Len(q)]}
  BY <1>1, <1>2, <1>3, <1>4 DEF Range
<1>7. QED
  BY <1>1, <1>5, <1>6 DEF rest

LEMMA EmptyOnce == IsInjective(<<>>) /\ Range(<<>>) = {}
  BY DEF IsInjective, Range

\* destroy is about nothing but what is in front, behind or in the pool.
LEMMA DoomedOnly ==
    ASSUME TypeOK, NEW c \in Chains, NEW rear \in Seq(Surfaces),
           NEW s \in Range(Doomed(c, rear))
    PROVE  s = pending[c] \/ s \in Range(rear) \/ s \in Range(recycled[c])
  BY DoomedRange

-----------------------------------------------------------------------------
(* The invariant. *)

\* The producer's surfaces: bound, in a detached back buffer, or out as a texture.
OnHand(s) ==
    \/ bound = s
    \/ \E c \in Chains : detached[c] = s \/ texture[c] = s

\* On the way to the consumers of c and back.
Passing(s, c) ==
    \/ pending[c] = s
    \/ s \in Range(recycled[c])
    \/ s \in held[c]

Nowhere(s) == ~OnHand(s) /\ \A c \in Chains : ~Passing(s, c)

OnceOnHand(s) ==
    /\ \A c \in Chains :
          /\ bound = s => detached[c] # s /\ texture[c] # s
          /\ \A d \in Chains :
                /\ ~(detached[c] = s /\ texture[d] = s)
                /\ detached[c] = s /\ detached[d] = s => c = d
                /\ texture[c] = s /\ texture[d] = s => c = d

OncePassing(s) ==
    \A c \in Chains :
        /\ pending[c] = s => s \notin Range(recycled[c]) /\ s \notin held[c]
        /\ s \in Range(recycled[c]) => s \notin held[c]
        /\ \A d \in Chains : Passing(s, c) /\ Passing(s, d) => c = d

Apart(s) == OnHand(s) => \A c \in Chains : ~Passing(s, c)

\* A surface is in one place at most, and is not destroyed while it is in it.
Placement(s) ==
    /\ OnceOnHand(s)
    /\ OncePassing(s)
    /\ Apart(s)
    /\ s \in alive \/ Nowhere(s)

Listed == \A c \in Chains : IsInjective(recycled[c])

\* Only a chain that exists has been destroyed.
RetiredExist == \A c \in retired : back[c] # "Absent"

ExchangeInv ==
    /\ TypeOK
    /\ \A s \in Surfaces : Placement(s)
    /\ Listed
    /\ RetiredExist

-----------------------------------------------------------------------------
(* The abstract place of a surface. *)

LEMMA PlacesDiffer ==
    ASSUME NEW c, NEW d
    PROVE  /\ Abstract!Front(c) # Abstract!Drawn /\ Abstract!Pool(c) # Abstract!Drawn
           /\ Abstract!Shown(c) # Abstract!Drawn
           /\ Abstract!Front(c) # Abstract!Pool(d) /\ Abstract!Front(c) # Abstract!Shown(d)
           /\ Abstract!Pool(c) # Abstract!Shown(d)
           /\ Abstract!Front(c) = Abstract!Front(d) => c = d
           /\ Abstract!Pool(c) = Abstract!Pool(d) => c = d
           /\ Abstract!Shown(c) = Abstract!Shown(d) => c = d
           /\ \A e \in Abstract!Ended :
                 /\ e # Abstract!Drawn /\ e # Abstract!Front(c)
                 /\ e # Abstract!Pool(c) /\ e # Abstract!Shown(c)
           /\ Abstract!Lost # Abstract!Gone
  BY DEF Abstract!Front, Abstract!Pool, Abstract!Shown, Abstract!Drawn, Abstract!Ended,
     Abstract!Lost, Abstract!Gone, Abstract!At

LEMMA OnePlace ==
    ASSUME NEW s \in Surfaces, s \in alive, NEW p, PlacesOf(s) = {p}
    PROVE  PlaceOf(s) = p
  BY DEF PlaceOf

LEMMA PlaceWhenNowhere ==
    ASSUME NEW s \in Surfaces, Nowhere(s)
    PROVE  PlaceOf(s) = IF s \in alive THEN Abstract!Lost ELSE Abstract!Gone
<1>1. PlacesOf(s) = {}
  BY DEF PlacesOf, Nowhere, OnHand, Passing
<1>2. QED
  BY <1>1 DEF PlaceOf, Abstract!Lost, Abstract!Gone, Abstract!At

LEMMA PlaceOnHand ==
    ASSUME NEW s \in Surfaces, Placement(s), OnHand(s)
    PROVE  PlaceOf(s) = Abstract!Drawn
<1>1. s \in alive /\ \A c \in Chains : ~Passing(s, c)
  BY DEF Placement, Apart, Nowhere
<1>2. PlacesOf(s) = {[at |-> "drawn", of |-> NoSurface]}
  BY <1>1 DEF PlacesOf, OnHand, Passing
<1>3. QED
  BY <1>1, <1>2, OnePlace DEF Abstract!Drawn, Abstract!At

LEMMA PlacePassing ==
    ASSUME NEW s \in Surfaces, Placement(s), NEW c \in Chains, Passing(s, c)
    PROVE  /\ pending[c] = s => PlaceOf(s) = Abstract!Front(c)
           /\ s \in Range(recycled[c]) => PlaceOf(s) = Abstract!Pool(c)
           /\ s \in held[c] => PlaceOf(s) = Abstract!Shown(c)
<1>1. s \in alive /\ ~OnHand(s) /\ \A d \in Chains : Passing(s, d) => d = c
  BY DEF Placement, Apart, OncePassing, Nowhere
<1>2. CASE pending[c] = s
  <2>1. /\ {d \in Chains : pending[d] = s} = {c}
        /\ {d \in Chains : s \in Range(recycled[d])} = {}
        /\ {d \in Chains : s \in held[d]} = {}
    BY <1>1, <1>2 DEF Passing, Placement, OncePassing
  <2>2. PlacesOf(s) = {[at |-> "front", of |-> c]}
    BY <1>1, <2>1 DEF PlacesOf, OnHand
  <2>3. PlaceOf(s) = Abstract!Front(c)
    BY <1>1, <2>2, OnePlace DEF Abstract!Front, Abstract!At
  <2>4. QED
    BY <1>2, <2>3 DEF Placement, OncePassing
<1>3. CASE s \in Range(recycled[c])
  <2>1. /\ {d \in Chains : pending[d] = s} = {}
        /\ {d \in Chains : s \in Range(recycled[d])} = {c}
        /\ {d \in Chains : s \in held[d]} = {}
    BY <1>1, <1>3 DEF Passing, Placement, OncePassing
  <2>2. PlacesOf(s) = {[at |-> "pool", of |-> c]}
    BY <1>1, <2>1 DEF PlacesOf, OnHand
  <2>3. PlaceOf(s) = Abstract!Pool(c)
    BY <1>1, <2>2, OnePlace DEF Abstract!Pool, Abstract!At
  <2>4. QED
    BY <1>3, <2>3 DEF Placement, OncePassing
<1>4. CASE s \in held[c]
  <2>1. /\ {d \in Chains : pending[d] = s} = {}
        /\ {d \in Chains : s \in Range(recycled[d])} = {}
        /\ {d \in Chains : s \in held[d]} = {c}
    BY <1>1, <1>4 DEF Passing, Placement, OncePassing
  <2>2. PlacesOf(s) = {[at |-> "shown", of |-> c]}
    BY <1>1, <2>1 DEF PlacesOf, OnHand
  <2>3. PlaceOf(s) = Abstract!Shown(c)
    BY <1>1, <2>2, OnePlace DEF Abstract!Shown, Abstract!At
  <2>4. QED
    BY <1>4, <2>3 DEF Placement, OncePassing
<1>5. QED
  BY <1>2, <1>3, <1>4 DEF Passing

\* Where a surface is, in the words of both specifications.
PlaceAgrees(s) ==
    /\ PlaceOf(s) \in Abstract!Places
    /\ PlaceOf(s) = Abstract!Drawn <=> OnHand(s)
    /\ PlaceOf(s) = Abstract!Lost <=> Nowhere(s) /\ s \in alive
    /\ PlaceOf(s) = Abstract!Gone <=> Nowhere(s) /\ s \notin alive
    /\ \A c \in Chains :
          /\ PlaceOf(s) = Abstract!Front(c) <=> pending[c] = s
          /\ PlaceOf(s) = Abstract!Pool(c) <=> s \in Range(recycled[c])
          /\ PlaceOf(s) = Abstract!Shown(c) <=> s \in held[c]

LEMMA PlacesAgree ==
    ASSUME NEW s \in Surfaces, Placement(s)
    PROVE  PlaceAgrees(s)
<1>1. Abstract!Lost \in Abstract!Ended /\ Abstract!Gone \in Abstract!Ended
  BY DEF Abstract!Ended
<1>2. CASE OnHand(s)
  <2>1. PlaceOf(s) = Abstract!Drawn
    BY <1>2, PlaceOnHand
  <2>2. ~Nowhere(s) /\ \A c \in Chains : ~Passing(s, c)
    BY <1>2 DEF Placement, Apart, Nowhere
  <2>3. Abstract!Drawn \in Abstract!Places
    BY DEF Abstract!Places
  <2>4. QED
    BY <1>1, <1>2, <2>1, <2>2, <2>3, PlacesDiffer DEF PlaceAgrees, Passing
<1>3. CASE Nowhere(s)
  <2>1. PlaceOf(s) = IF s \in alive THEN Abstract!Lost ELSE Abstract!Gone
    BY <1>3, PlaceWhenNowhere
  <2>2. ~OnHand(s) /\ \A c \in Chains : ~Passing(s, c)
    BY <1>3 DEF Nowhere
  <2>3. PlaceOf(s) \in Abstract!Places
    BY <1>1, <2>1 DEF Abstract!Places
  <2>4. QED
    BY <1>1, <1>3, <2>1, <2>2, <2>3, PlacesDiffer DEF PlaceAgrees, Passing
<1>4. ASSUME NEW c \in Chains, Passing(s, c)
      PROVE  PlaceAgrees(s)
  <2>1. /\ ~OnHand(s) /\ ~Nowhere(s)
        /\ \A d \in Chains : Passing(s, d) => d = c
        /\ pending[c] = s => s \notin Range(recycled[c]) /\ s \notin held[c]
        /\ s \in Range(recycled[c]) => s \notin held[c]
    BY <1>4 DEF Placement, Apart, OncePassing, Nowhere
  <2>2. PlaceOf(s) \in {Abstract!Front(c), Abstract!Pool(c), Abstract!Shown(c)}
    BY <1>4, PlacePassing DEF Passing
  <2>3. PlaceOf(s) \in Abstract!Places
    BY <2>2 DEF Abstract!Places
  <2>4. /\ PlaceOf(s) # Abstract!Drawn
        /\ PlaceOf(s) # Abstract!Lost /\ PlaceOf(s) # Abstract!Gone
    BY <1>1, <2>2, PlacesDiffer
  <2>5. ASSUME NEW d \in Chains
        PROVE  /\ PlaceOf(s) = Abstract!Front(d) <=> pending[d] = s
               /\ PlaceOf(s) = Abstract!Pool(d) <=> s \in Range(recycled[d])
               /\ PlaceOf(s) = Abstract!Shown(d) <=> s \in held[d]
    <3>1. /\ pending[d] = s => PlaceOf(s) = Abstract!Front(d)
          /\ s \in Range(recycled[d]) => PlaceOf(s) = Abstract!Pool(d)
          /\ s \in held[d] => PlaceOf(s) = Abstract!Shown(d)
      BY PlacePassing DEF Passing
    <3>2. PlaceOf(s) \in {Abstract!Front(d), Abstract!Pool(d), Abstract!Shown(d)} => d = c
      BY <2>2, PlacesDiffer
    <3>3. CASE d = c
      BY <1>4, <3>1, <3>3, PlacesDiffer DEF Passing
    <3>4. CASE d # c
      BY <2>1, <3>1, <3>2, <3>4 DEF Passing
    <3>5. QED
      BY <3>3, <3>4
  <2>6. QED
    BY <2>1, <2>3, <2>4, <2>5 DEF PlaceAgrees
<1>5. QED
  BY <1>2, <1>3, <1>4 DEF Nowhere

LEMMA PlacesAgreeNext == \A s \in Surfaces : Placement(s)' => PlaceAgrees(s)'
<1>1. \A s \in Surfaces : Placement(s) => PlaceAgrees(s)
  BY PlacesAgree
<1>2. (\A s \in Surfaces : Placement(s) => PlaceAgrees(s))'
  BY <1>1, PTL
<1>3. QED
  BY <1>2

-----------------------------------------------------------------------------
(* Steps of one surface. *)

\* The step leaves s where it is, and as it is.
Same(s) ==
    /\ bound' = s <=> bound = s
    /\ s \in alive' <=> s \in alive
    /\ \A c \in Chains :
          /\ detached'[c] = s <=> detached[c] = s
          /\ texture'[c] = s <=> texture[c] = s
          /\ pending'[c] = s <=> pending[c] = s
          /\ s \in Range(recycled'[c]) <=> s \in Range(recycled[c])
          /\ s \in held'[c] <=> s \in held[c]

LEMMA SamePlace ==
    ASSUME NEW s \in Surfaces, Same(s)
    PROVE  /\ Placement(s) => Placement(s)'
           /\ PlaceOf(s)' = PlaceOf(s)
<1>1. /\ OnHand(s)' <=> OnHand(s)
      /\ \A c \in Chains : Passing(s, c)' <=> Passing(s, c)
      /\ s \in alive' <=> s \in alive
  BY DEF Same, OnHand, Passing
<1>2. OnceOnHand(s) => OnceOnHand(s)'
  BY DEF Same, OnceOnHand
<1>3. OncePassing(s) => OncePassing(s)'
  BY <1>1 DEF Same, OncePassing
<1>4. Placement(s) => Placement(s)'
  BY <1>1, <1>2, <1>3 DEF Placement, Apart, Nowhere
<1>5. /\ \A c \in Chains : s \in {detached[c], texture[c]}' <=> s \in {detached[c], texture[c]}
      /\ {d \in Chains : pending[d] = s}' = {d \in Chains : pending[d] = s}
      /\ {d \in Chains : s \in Range(recycled[d])}' = {d \in Chains : s \in Range(recycled[d])}
      /\ {d \in Chains : s \in held[d]}' = {d \in Chains : s \in held[d]}
      /\ (s = bound') <=> (s = bound)
  BY DEF Same
<1>6. PlacesOf(s)' = PlacesOf(s)
  BY <1>5 DEF PlacesOf
<1>7. QED
  BY <1>1, <1>4, <1>6 DEF PlaceOf

LEMMA FreeNowhere ==
    ASSUME TypeOK, NEW s \in Free
    PROVE  s \in Surfaces /\ Nowhere(s) /\ s \notin alive
<1>1. ASSUME NEW c \in Chains
      PROVE  s \notin OwnedBy(c)
  BY <1>1 DEF Free, Placed
<1>2. s \in Surfaces /\ s # bound /\ s \notin alive
  BY NoSurfaceAssumption DEF Free, Placed
<1>3. QED
  BY <1>1, <1>2, NoSurfaceAssumption DEF OwnedBy, Nowhere, OnHand, Passing

\* Only what is to be destroyed is.
LEMMA OthersLive ==
    ASSUME NEW S, DestroyIgnored(S), NEW s, s \notin S
    PROVE  s \in alive' <=> s \in alive
  BY DEF DestroyIgnored

LEMMA MovesAlong ==
    ASSUME NEW ways,
           \A s \in Surfaces :
               /\ Placement(s)'
               /\ PlaceOf(s)' = PlaceOf(s) \/ <<PlaceOf(s), PlaceOf(s)'>> \in ways
    PROVE  Abstract!Moves(ways)
<1>1. ASSUME NEW s \in Surfaces
      PROVE  PlaceOf(s)' \in Abstract!Places
  <2>1. Placement(s)' => PlaceAgrees(s)'
    BY PlacesAgreeNext
  <2>2. QED
    BY <2>1 DEF PlaceAgrees
<1>2. QED
  BY <1>1 DEF Abstract!Moves

\* The producer's own surface goes from one of its hands to another, or ends; a new
\* one is created, or nothing comes of it.
DrawnOn(s) ==
    /\ s \in Free \/ OnHand(s)
    /\ OnHand(s)' \/ Nowhere(s)'

LEMMA DrawnOnMoves ==
    ASSUME TypeOK, NEW s \in Surfaces, Placement(s), Placement(s)', DrawnOn(s)
    PROVE  \/ PlaceOf(s)' = PlaceOf(s)
           \/ <<PlaceOf(s), PlaceOf(s)'>> \in Abstract!Creates \cup Abstract!Disposes
<1>1. PlaceAgrees(s)
  BY PlacesAgree
<1>2. Placement(s)' => PlaceAgrees(s)'
  BY PlacesAgreeNext
<1>3. PlaceOf(s)' \in {Abstract!Drawn, Abstract!Lost, Abstract!Gone}
  BY <1>2 DEF DrawnOn, PlaceAgrees
<1>4. CASE s \in Free
  <2>1. PlaceOf(s) = Abstract!Gone
    BY <1>1, <1>4, FreeNowhere DEF PlaceAgrees
  <2>2. QED
    BY <1>3, <2>1 DEF Abstract!Creates
<1>5. CASE OnHand(s)
  <2>1. PlaceOf(s) = Abstract!Drawn
    BY <1>1, <1>5 DEF PlaceAgrees
  <2>2. QED
    BY <1>3, <2>1 DEF Abstract!Disposes, Abstract!Ended
<1>6. QED
  BY <1>4, <1>5 DEF DrawnOn

\* What a step shows of a surface that goes from hand to hand.
Handled(s) ==
    \/ Same(s)
    \/ /\ s \in Free \/ OnHand(s)
       /\ OnceOnHand(s)'
       /\ OnHand(s)' => s \in alive'

OpenStays == \A c \in Chains : back'[c] = "Absent" <=> back[c] = "Absent"

\* A call that leaves the chains' lists and the consumers' hands alone.
LEMMA HandStep ==
    ASSUME ExchangeInv, TypeOK', RetiredExist',
           UNCHANGED <<pending, recycled, held>>,
           \A s \in Surfaces : Handled(s)
    PROVE  /\ ExchangeInv'
           /\ \A s \in Surfaces : Same(s) \/ DrawnOn(s)
<1>1. ASSUME NEW s \in Surfaces
      PROVE  Placement(s)' /\ (Same(s) \/ DrawnOn(s))
  <2>1. CASE Same(s)
    BY <2>1, SamePlace DEF ExchangeInv
  <2>2. CASE ~Same(s)
    <3>1. \A c \in Chains : ~Passing(s, c)
      BY <2>2, FreeNowhere DEF Handled, ExchangeInv, Placement, Apart, Nowhere
    <3>2. \A c \in Chains : ~Passing(s, c)'
      BY <3>1 DEF Passing
    <3>3. OncePassing(s)'
      BY <3>2 DEF OncePassing, Passing
    <3>4. QED
      BY <2>2, <3>2, <3>3 DEF Placement, Apart, Nowhere, DrawnOn, Handled
  <2>3. QED
    BY <2>1, <2>2
<1>2. QED
  BY <1>1 DEF ExchangeInv, Listed

\* A call that concerns the producer's own surfaces.
LEMMA DrawStep ==
    ASSUME ExchangeInv, TypeOK', RetiredExist', OpenStays,
           UNCHANGED <<pending, recycled, held>>,
           \A s \in Surfaces : Handled(s)
    PROVE  ExchangeInv' /\ Abstract!Draw
<1>1. ExchangeInv' /\ \A s \in Surfaces : Same(s) \/ DrawnOn(s)
  BY HandStep
<1>2. \A s \in Surfaces :
          \/ PlaceOf(s)' = PlaceOf(s)
          \/ <<PlaceOf(s), PlaceOf(s)'>> \in Abstract!Creates \cup Abstract!Disposes
  BY <1>1, SamePlace, DrawnOnMoves DEF ExchangeInv
<1>3. Abstract!Moves(Abstract!Creates \cup Abstract!Disposes)
  BY <1>1, <1>2, MovesAlong DEF ExchangeInv
<1>4. {c \in Chains : back[c] # "Absent"}' = {c \in Chains : back[c] # "Absent"}
  BY DEF OpenStays
<1>5. QED
  BY <1>1, <1>3, <1>4 DEF Abstract!Draw

-----------------------------------------------------------------------------
(* The producer's calls that concern its own surfaces. *)

LEMMA OpenKept ==
    ASSUME ExchangeInv, UNCHANGED retired,
           \A c \in Chains : back'[c] = "Absent" <=> back[c] = "Absent"
    PROVE  OpenStays /\ RetiredExist'
  BY DEF OpenStays, ExchangeInv, RetiredExist, TypeOK

\* What s was and is, for a step that leaves the chains' lists and hands alone.
LEMMA SameHand ==
    ASSUME NEW s \in Surfaces, UNCHANGED <<pending, recycled, held>>,
           bound' = s <=> bound = s,
           \A c \in Chains :
               /\ detached'[c] = s <=> detached[c] = s
               /\ texture'[c] = s <=> texture[c] = s,
           s \in alive' <=> s \in alive
    PROVE  Same(s)
  BY DEF Same

LEMMA HandFacts ==
    ASSUME ExchangeInv, NEW s \in Surfaces, OnHand(s)
    PROVE  s \in alive /\ OnceOnHand(s)
  BY DEF ExchangeInv, Placement, Nowhere

LEMMA BindFirstDraws ==
    ASSUME ExchangeInv, BindFirstSurface
    PROVE  ExchangeInv' /\ Abstract!Draw
<1>1. TypeOK'
  BY CreateType DEF ExchangeInv
<1>2. OpenStays /\ RetiredExist'
  BY OpenKept DEF BindFirstSurface, chainVars
<1>3. PICK n \in Free : bound' = n /\ alive' = alive \cup {n}
  BY DEF BindFirstSurface
<1>4. /\ bound = NoSurface
      /\ UNCHANGED <<detached, pending, recycled, held, texture>>
  BY DEF BindFirstSurface, chainVars
<1>5. n \in Surfaces /\ Nowhere(n)
  BY FreeNowhere DEF ExchangeInv
<1>6. OnceOnHand(n)'
  BY <1>4, <1>5 DEF OnceOnHand, Nowhere, OnHand
<1>7. ASSUME NEW s \in Surfaces, s # n
      PROVE  Same(s)
  BY <1>3, <1>4, <1>7, SameHand, NoSurfaceAssumption
<1>8. QED
  BY <1>1, <1>2, <1>3, <1>4, <1>6, <1>7, DrawStep DEF Handled

LEMMA TakeAttachmentDraws ==
    ASSUME ExchangeInv, NEW c \in Chains, NEW d \in Chains, TakeAttachmentFrom(c, d)
    PROVE  ExchangeInv' /\ Abstract!Draw
<1> USE NoSurfaceAssumption
<1>1. TypeOK'
  BY TakeAttachmentType DEF ExchangeInv
<1>2. /\ c # d
      /\ back[c] # "Absent" /\ back[d] # "Absent"
      /\ UNCHANGED <<pending, recycled, retired, held, texture>>
  BY DEF TakeAttachmentFrom, MayCall
<1>3. OpenStays /\ RetiredExist'
  <2>1. \A e \in Chains : back'[e] = "Absent" <=> back[e] = "Absent"
    BY <1>2 DEF TakeAttachmentFrom, TakeAttachmentOk, TakeAttachmentUnbound,
       TakeAttachmentHalfway, TakeAttachmentRefused, TakeRefused, TakeFails, TakePanics, UnbindRefused,
       ExchangeInv, TypeOK
  <2>2. QED
    BY <1>2, <2>1, OpenKept
<1>4. ASSUME TakeAttachmentOk(c, d)
      PROVE  \A s \in Surfaces : Handled(s)
  <2>1. UNCHANGED alive
    BY <1>4 DEF TakeAttachmentOk
  <2>2. \/ /\ bound' = detached[c]
           /\ detached' = [detached EXCEPT ![c] = NoSurface, ![d] = bound]
        \/ /\ bound' = detached[d]
           /\ detached' = [detached EXCEPT ![c] = bound, ![d] = NoSurface]
        \/ UNCHANGED <<bound, detached>>
    BY <1>4 DEF TakeAttachmentOk
  <2>3. detached \in [Chains -> OptSurface]
    BY DEF ExchangeInv, TypeOK
  <2>4. ASSUME NEW s \in Surfaces, OnHand(s)
        PROVE  OnceOnHand(s)'
    BY <1>2, <2>2, <2>3, <2>4, HandFacts DEF OnceOnHand
  <2>5. ASSUME NEW s \in Surfaces, ~OnHand(s)
        PROVE  Same(s)
    BY <1>2, <2>1, <2>2, <2>3, <2>5, SameHand DEF OnHand
  <2>6. QED
    BY <2>1, <2>4, <2>5, HandFacts DEF Handled
<1>5. ASSUME TakeAttachmentUnbound(c, d)
      PROVE  \A s \in Surfaces : Handled(s)
  <2>1. detached \in [Chains -> OptSurface]
    BY DEF ExchangeInv, TypeOK
  <2>2. \/ /\ bound' = NoSurface
           /\ detached' = [detached EXCEPT ![c] = NoSurface]
           /\ DestroyIgnored({detached[c]})
        \/ /\ bound' = NoSurface
           /\ detached' = [detached EXCEPT ![c] = bound, ![d] = NoSurface]
           /\ DestroyIgnored({detached[d]})
    BY <1>5 DEF TakeAttachmentUnbound
  <2>3. ASSUME NEW s \in Surfaces, ~OnHand(s)
        PROVE  Same(s)
    <3>1. s # detached[c] /\ s # detached[d] /\ s # bound
      BY <2>3 DEF OnHand
    <3>2. s \in alive' <=> s \in alive
      BY <2>2, <3>1, OthersLive
    <3>3. QED
      BY <1>2, <2>1, <2>2, <2>3, <3>1, <3>2, SameHand DEF OnHand
  <2>4. ASSUME NEW s \in Surfaces, OnHand(s)
        PROVE  OnceOnHand(s)' /\ (OnHand(s)' => s \in alive')
    <3>1. OnceOnHand(s) /\ s \in alive
      BY <2>4, HandFacts
    <3>2. OnceOnHand(s)'
      BY <1>2, <2>1, <2>2, <3>1 DEF OnceOnHand
    <3>3. ASSUME OnHand(s)'
          PROVE  s \in alive'
      <4>1. CASE /\ bound' = NoSurface
                 /\ detached' = [detached EXCEPT ![c] = NoSurface]
                 /\ DestroyIgnored({detached[c]})
        <5>1. s # detached[c]
          BY <1>2, <2>1, <3>1, <3>3, <4>1 DEF OnHand, OnceOnHand
        <5>2. QED
          BY <3>1, <4>1, <5>1, OthersLive
      <4>2. CASE /\ bound' = NoSurface
                 /\ detached' = [detached EXCEPT ![c] = bound, ![d] = NoSurface]
                 /\ DestroyIgnored({detached[d]})
        <5>1. s # detached[d]
          BY <1>2, <2>1, <3>1, <3>3, <4>2 DEF OnHand, OnceOnHand
        <5>2. QED
          BY <3>1, <4>2, <5>1, OthersLive
      <4>3. QED
        BY <2>2, <4>1, <4>2
    <3>4. QED
      BY <3>2, <3>3
  <2>5. QED
    BY <2>3, <2>4 DEF Handled
<1>6. ASSUME TakeAttachmentHalfway(c, d) \/ TakeAttachmentRefused(c)
      PROVE  \A s \in Surfaces : Handled(s)
  <2>1. /\ UNCHANGED alive
        /\ bound' \in {bound, NoSurface}
        /\ detached' = [detached EXCEPT ![c] = NoSurface] \/ UNCHANGED detached
        /\ detached \in [Chains -> OptSurface]
    BY <1>6 DEF TakeAttachmentHalfway, TakeAttachmentRefused, TakeRefused, TakeFails, TakePanics, UnbindRefused,
       ExchangeInv, TypeOK
  <2>2. ASSUME NEW s \in Surfaces, OnHand(s)
        PROVE  OnceOnHand(s)'
    BY <1>2, <2>1, <2>2, HandFacts DEF OnceOnHand
  <2>3. ASSUME NEW s \in Surfaces, ~OnHand(s)
        PROVE  Same(s)
    BY <1>2, <2>1, <2>3, SameHand DEF OnHand
  <2>4. QED
    BY <2>1, <2>2, <2>3, HandFacts DEF Handled
<1>7. \A s \in Surfaces : Handled(s)
  BY <1>4, <1>5, <1>6 DEF TakeAttachmentFrom
<1>8. QED
  BY <1>1, <1>2, <1>3, <1>7, DrawStep

\* The surfaces in S, which the producer has no more, are destroyed or meant to be.
LEMMA HandsEmptied ==
    ASSUME ExchangeInv, NEW S,
           UNCHANGED <<pending, recycled, held>>,
           alive' = alive \/ DestroyIgnored(S),
           \A s \in Surfaces :
               \/ /\ s \notin S
                  /\ bound' = s <=> bound = s
                  /\ \A c \in Chains : /\ detached'[c] = s <=> detached[c] = s
                                       /\ texture'[c] = s <=> texture[c] = s
               \/ /\ OnHand(s)
                  /\ OnceOnHand(s)'
                  /\ OnHand(s)' => s \notin S
    PROVE  \A s \in Surfaces : Handled(s)
<1> SUFFICES ASSUME NEW s \in Surfaces
             PROVE  Handled(s)
  OBVIOUS
<1>1. s \notin S => (s \in alive' <=> s \in alive)
  BY OthersLive
<1>2. OnHand(s) => s \in alive
  BY HandFacts
<1>3. CASE /\ s \notin S
           /\ bound' = s <=> bound = s
           /\ \A c \in Chains : /\ detached'[c] = s <=> detached[c] = s
                                /\ texture'[c] = s <=> texture[c] = s
  BY <1>1, <1>3, SameHand DEF Handled
<1>4. CASE /\ OnHand(s)
           /\ OnceOnHand(s)'
           /\ OnHand(s)' => s \notin S
  BY <1>1, <1>2, <1>4 DEF Handled
<1>5. QED
  BY <1>3, <1>4

LEMMA TakeTextureDraws ==
    ASSUME ExchangeInv, NEW c \in Chains, TakeSurfaceTexture(c)
    PROVE  ExchangeInv' /\ Abstract!Draw
<1> USE NoSurfaceAssumption
<1>1. TypeOK'
  BY TextureType DEF ExchangeInv
<1>2. /\ back[c] # "Absent"
      /\ detached \in [Chains -> OptSurface] /\ texture \in [Chains -> OptSurface]
      /\ UNCHANGED <<pending, recycled, retired, held>>
  BY DEF TakeSurfaceTexture, MayCall, ExchangeInv, TypeOK
<1>3. OpenStays /\ RetiredExist'
  <2>1. \A e \in Chains : back'[e] = "Absent" <=> back[e] = "Absent"
    BY <1>2 DEF TakeSurfaceTexture, BindRefused, TakeRefused, TakeFails, TakePanics, UnbindRefused, ExchangeInv,
       TypeOK
  <2>2. QED
    BY <1>2, <2>1, OpenKept
<1>4. CASE CanTake(c) /\ result' = "ok"
  <2>1. /\ bound' = IF back[c] = "Attached" THEN NoSurface ELSE bound
        /\ detached' = [detached EXCEPT ![c] = NoSurface]
        /\ texture' = [texture EXCEPT ![c] = BackSurface(c)]
        /\ UNCHANGED alive
    BY <1>4 DEF TakeSurfaceTexture, TakeFails
  <2>2. /\ BackSurface(c) \in Surfaces
        /\ back[c] = "Attached" => BackSurface(c) = bound /\ detached[c] = NoSurface
        /\ back[c] # "Attached" => BackSurface(c) = detached[c]
    BY <1>4, BackSurfaceHeld DEF ExchangeInv
  <2>3. ASSUME NEW s \in Surfaces, OnHand(s)
        PROVE  OnceOnHand(s)'
    BY <1>2, <2>1, <2>2, <2>3, HandFacts DEF OnceOnHand
  <2>4. ASSUME NEW s \in Surfaces, ~OnHand(s)
        PROVE  /\ bound' = s <=> bound = s
               /\ \A e \in Chains : /\ detached'[e] = s <=> detached[e] = s
                                    /\ texture'[e] = s <=> texture[e] = s
    BY <1>2, <2>1, <2>2, <2>4 DEF OnHand
  <2>5. \A s \in Surfaces : Handled(s)
    BY <1>2, <2>1, <2>3, <2>4, SameHand, HandFacts DEF Handled
  <2>6. QED
    BY <1>1, <1>2, <1>3, <2>5, DrawStep
<1>5. CASE BindRefused(c) /\ UNCHANGED texture /\ DestroyIgnored({bound})
  <2>1. bound' = NoSurface /\ UNCHANGED detached
    BY <1>5 DEF BindRefused
  <2>2. ASSUME NEW s \in Surfaces, s = bound
        PROVE  OnHand(s) /\ OnceOnHand(s)' /\ ~OnHand(s)'
    <3>1. OnHand(s) /\ OnceOnHand(s)
      BY <2>2, HandFacts DEF OnHand
    <3>2. QED
      BY <1>5, <2>1, <2>2, <3>1 DEF OnceOnHand, OnHand
  <2>3. \A s \in Surfaces : Handled(s)
    BY <1>2, <1>5, <2>1, <2>2, HandsEmptied
  <2>4. QED
    BY <1>1, <1>2, <1>3, <2>3, DrawStep
<1>6. CASE UNCHANGED <<bound, detached, texture, alive>>
  <2>1. \A s \in Surfaces : Handled(s)
    BY <1>2, <1>6, SameHand DEF Handled
  <2>2. QED
    BY <1>1, <1>2, <1>3, <2>1, DrawStep
<1>7. CASE UnbindRefused(c) /\ UNCHANGED <<texture, alive>>
  <2>1. bound' \in {bound, NoSurface} /\ UNCHANGED detached
    BY <1>7 DEF UnbindRefused
  <2>2. ASSUME NEW s \in Surfaces, OnHand(s)
        PROVE  OnceOnHand(s)'
    BY <1>7, <2>1, <2>2, HandFacts DEF OnceOnHand
  <2>3. ASSUME NEW s \in Surfaces, ~OnHand(s)
        PROVE  Same(s)
    BY <1>2, <1>7, <2>1, <2>3, SameHand DEF OnHand
  <2>4. \A s \in Surfaces : Handled(s)
    BY <1>7, <2>2, <2>3, HandFacts DEF Handled
  <2>5. QED
    BY <1>1, <1>2, <1>3, <2>4, DrawStep
<1>8. TakeRefused(c) \/ TakePanics(c) => UNCHANGED <<bound, detached>>
  BY DEF TakeRefused, TakePanics
<1>9. QED
  BY <1>4, <1>5, <1>6, <1>7, <1>8 DEF TakeSurfaceTexture, TakeFails

LEMMA RecycleTextureDraws ==
    ASSUME ExchangeInv, NEW c \in Chains, RecycleSurfaceTexture(c)
    PROVE  ExchangeInv' /\ Abstract!Draw
<1> USE NoSurfaceAssumption
<1>1. TypeOK'
  BY TextureType DEF ExchangeInv
<1>2. /\ detached \in [Chains -> OptSurface] /\ texture \in [Chains -> OptSurface]
      /\ UNCHANGED <<pending, recycled, retired, held>>
      /\ back[c] = "TakenDetached" => detached[c] = NoSurface
  BY DEF RecycleSurfaceTexture, ExchangeInv, TypeOK
<1>3. OpenStays /\ RetiredExist'
  <2>1. \A e \in Chains : back'[e] = "Absent" <=> back[e] = "Absent"
    BY <1>2 DEF RecycleSurfaceTexture, ExchangeInv, TypeOK
  <2>2. QED
    BY <1>2, <2>1, OpenKept
<1>4. PICK d \in Chains :
          /\ texture[d] # NoSurface
          /\ \/ /\ \/ /\ bound = NoSurface
                      /\ bound' = texture[d]
                      /\ UNCHANGED detached
                   \/ /\ back[c] = "TakenDetached"
                      /\ detached' = [detached EXCEPT ![c] = texture[d]]
                      /\ UNCHANGED bound
                /\ texture' = [texture EXCEPT ![d] = texture[c], ![c] = NoSurface]
                /\ UNCHANGED alive
             \/ /\ DestroyIgnored({texture[d]}) \/ UNCHANGED alive
                /\ texture' = [texture EXCEPT ![d] = NoSurface]
                /\ UNCHANGED <<bound, detached>>
  BY DEF RecycleSurfaceTexture
<1>5. PICK t \in Surfaces : t = texture[d]
  <2>1. texture[d] \in OptSurface
    BY <1>2
  <2>2. texture[d] # NoSurface
    BY <1>4
  <2>3. QED
    BY <2>1, <2>2 DEF OptSurface
<1>6. CASE /\ bound = NoSurface /\ bound' = t /\ UNCHANGED <<detached, alive>>
           /\ texture' = [texture EXCEPT ![d] = texture[c], ![c] = NoSurface]
  <2>1. ASSUME NEW s \in Surfaces, OnHand(s)
        PROVE  OnceOnHand(s)'
    BY <1>2, <1>5, <1>6, <2>1, HandFacts DEF OnceOnHand
  <2>2. ASSUME NEW s \in Surfaces, ~OnHand(s)
        PROVE  Same(s)
    BY <1>2, <1>5, <1>6, <2>2, SameHand DEF OnHand
  <2>3. \A s \in Surfaces : Handled(s)
    BY <1>6, <2>1, <2>2, HandFacts DEF Handled
  <2>4. QED
    BY <1>1, <1>2, <1>3, <2>3, DrawStep
<1>7. CASE /\ back[c] = "TakenDetached" /\ UNCHANGED <<bound, alive>>
           /\ detached' = [detached EXCEPT ![c] = t]
           /\ texture' = [texture EXCEPT ![d] = texture[c], ![c] = NoSurface]
  <2>1. ASSUME NEW s \in Surfaces, OnHand(s)
        PROVE  OnceOnHand(s)'
    BY <1>2, <1>5, <1>7, <2>1, HandFacts DEF OnceOnHand
  <2>2. ASSUME NEW s \in Surfaces, ~OnHand(s)
        PROVE  Same(s)
    BY <1>2, <1>5, <1>7, <2>2, SameHand DEF OnHand
  <2>3. \A s \in Surfaces : Handled(s)
    BY <1>7, <2>1, <2>2, HandFacts DEF Handled
  <2>4. QED
    BY <1>1, <1>2, <1>3, <2>3, DrawStep
<1>8. CASE /\ DestroyIgnored({t}) \/ UNCHANGED alive
           /\ texture' = [texture EXCEPT ![d] = NoSurface]
           /\ UNCHANGED <<bound, detached>>
  <2>1. OnHand(t) /\ OnceOnHand(t)
    BY <1>5, HandFacts DEF OnHand
  <2>2. OnceOnHand(t)' /\ ~OnHand(t)'
    BY <1>2, <1>5, <1>8, <2>1 DEF OnceOnHand, OnHand
  <2>3. ASSUME NEW s \in Surfaces, s # t
        PROVE  /\ bound' = s <=> bound = s
               /\ \A e \in Chains : /\ detached'[e] = s <=> detached[e] = s
                                    /\ texture'[e] = s <=> texture[e] = s
    BY <1>2, <1>5, <1>8, <2>3
  <2>4. \A s \in Surfaces : Handled(s)
    BY <1>2, <1>8, <2>1, <2>2, <2>3, HandsEmptied
  <2>5. QED
    BY <1>1, <1>2, <1>3, <2>4, DrawStep
<1>9. QED
  BY <1>4, <1>5, <1>6, <1>7, <1>8

LEMMA ClearDraws ==
    ASSUME ExchangeInv, NEW c \in Chains, ClearSurface(c)
    PROVE  ExchangeInv' /\ Abstract!Draw
<1> USE NoSurfaceAssumption
<1>1. TypeOK'
  BY ClearType DEF ExchangeInv
<1>2. /\ back[c] # "Absent"
      /\ detached \in [Chains -> OptSurface]
      /\ UNCHANGED <<pending, recycled, retired, held, texture>>
  BY DEF ClearSurface, MayCall, ExchangeInv, TypeOK
<1>3. OpenStays /\ RetiredExist'
  <2>1. \A e \in Chains : back'[e] = "Absent" <=> back[e] = "Absent"
    BY <1>2 DEF ClearSurface, ExchangeInv, TypeOK
  <2>2. QED
    BY <1>2, <2>1, OpenKept
<1>4. CASE UNCHANGED <<bound, detached, alive>>
  <2>1. \A s \in Surfaces : Handled(s)
    BY <1>2, <1>4, SameHand DEF Handled
  <2>2. QED
    BY <1>1, <1>2, <1>3, <2>1, DrawStep
<1>5. CASE /\ bound' \in {bound, NoSurface, detached[c]}
           /\ detached' = [detached EXCEPT ![c] = NoSurface]
           /\ UNCHANGED alive
  <2>1. ASSUME NEW s \in Surfaces, OnHand(s)
        PROVE  OnceOnHand(s)'
    BY <1>2, <1>5, <2>1, HandFacts DEF OnceOnHand
  <2>2. ASSUME NEW s \in Surfaces, ~OnHand(s)
        PROVE  Same(s)
    BY <1>2, <1>5, <2>2, SameHand DEF OnHand
  <2>3. \A s \in Surfaces : Handled(s)
    BY <1>5, <2>1, <2>2, HandFacts DEF Handled
  <2>4. QED
    BY <1>1, <1>2, <1>3, <2>3, DrawStep
<1>6. CASE /\ bound' = NoSurface
           /\ detached' = [detached EXCEPT ![c] = NoSurface]
           /\ DestroyIgnored({bound, detached[c]})
  <2>1. ASSUME NEW s \in Surfaces, s \in {bound, detached[c]}
        PROVE  OnHand(s) /\ OnceOnHand(s)' /\ ~OnHand(s)'
    <3>1. OnHand(s) /\ OnceOnHand(s)
      BY <2>1, HandFacts DEF OnHand
    <3>2. QED
      BY <1>2, <1>6, <2>1, <3>1 DEF OnceOnHand, OnHand
  <2>2. ASSUME NEW s \in Surfaces, s \notin {bound, detached[c]}
        PROVE  /\ bound' = s <=> bound = s
               /\ \A e \in Chains : /\ detached'[e] = s <=> detached[e] = s
                                    /\ texture'[e] = s <=> texture[e] = s
    BY <1>2, <1>6, <2>2
  <2>3. \A s \in Surfaces : Handled(s)
    BY <1>2, <1>6, <2>1, <2>2, HandsEmptied
  <2>4. QED
    BY <1>1, <1>2, <1>3, <2>3, DrawStep
<1>7. QED
  BY <1>4, <1>5, <1>6 DEF ClearSurface

-----------------------------------------------------------------------------
(* Creation. *)

LEMMA OpenStep ==
    ASSUME ExchangeInv, TypeOK', NEW c \in Chains, NEW x, x # "Absent",
           back[c] = "Absent", back' = [back EXCEPT ![c] = x],
           UNCHANGED <<pending, recycled, held, retired>>,
           \A s \in Surfaces :
               \/ Same(s)
               \/ s \in Free /\ OnHand(s)' /\ OnceOnHand(s)' /\ s \in alive'
    PROVE  ExchangeInv' /\ Abstract!Open(c)
<1>1. back \in [Chains -> {"Absent", "Attached", "Detached",
                           "TakenAttached", "TakenDetached"}]
      /\ retired \subseteq Chains /\ c \notin retired
  BY DEF ExchangeInv, TypeOK, RetiredExist
<1>2. RetiredExist'
  BY <1>1 DEF ExchangeInv, RetiredExist
<1>3. \A s \in Surfaces : Handled(s)
  BY DEF Handled
<1>4. ExchangeInv'
  BY <1>2, <1>3, HandStep
<1>5. ASSUME NEW s \in Surfaces
      PROVE  \/ PlaceOf(s)' = PlaceOf(s)
             \/ <<PlaceOf(s), PlaceOf(s)'>> \in {<<Abstract!Gone, Abstract!Drawn>>}
  <2>1. CASE Same(s)
    BY <2>1, SamePlace
  <2>2. CASE s \in Free /\ OnHand(s)'
    <3>1. PlaceAgrees(s) /\ Nowhere(s) /\ s \notin alive
      BY <2>2, FreeNowhere, PlacesAgree DEF ExchangeInv
    <3>2. Placement(s)' => PlaceAgrees(s)'
      BY PlacesAgreeNext
    <3>3. QED
      BY <1>4, <2>2, <3>1, <3>2 DEF ExchangeInv, PlaceAgrees
  <2>3. QED
    BY <2>1, <2>2
<1>6. Abstract!Moves({<<Abstract!Gone, Abstract!Drawn>>})
  BY <1>4, <1>5, MovesAlong DEF ExchangeInv
<1>7. {d \in Chains : back[d] # "Absent"}' = {d \in Chains : back[d] # "Absent"} \cup {c}
  BY <1>1
<1>8. c \notin {d \in Chains : back[d] # "Absent"}
  OBVIOUS
<1>9. QED
  BY <1>4, <1>6, <1>7, <1>8 DEF Abstract!Open

LEMMA CreateOpens ==
    ASSUME ExchangeInv, NEW c \in Chains, CreateAttached(c) \/ CreateDetached(c)
    PROVE  ExchangeInv' /\ (Abstract!Open(c) \/ Abstract!Draw)
<1>1. TypeOK'
  BY CreateType DEF ExchangeInv
<1>2. back[c] = "Absent" /\ UNCHANGED <<bound, pending, recycled, retired, held, texture>>
  BY DEF CreateAttached, CreateDetached
<1>3. CASE UNCHANGED <<back, detached, alive>>
  <2>1. OpenStays /\ RetiredExist'
    BY <1>2, <1>3, OpenKept
  <2>2. \A s \in Surfaces : Handled(s)
    BY <1>2, <1>3, SameHand DEF Handled
  <2>3. QED
    BY <1>1, <1>2, <2>1, <2>2, DrawStep
<1>4. CASE back' = [back EXCEPT ![c] = "Attached"] /\ UNCHANGED <<detached, alive>>
  <2>1. \A s \in Surfaces : Same(s)
    BY <1>2, <1>4, SameHand
  <2>2. QED
    BY <1>1, <1>2, <1>4, <2>1, OpenStep
<1>5. CASE /\ back' = [back EXCEPT ![c] = "Detached"]
           /\ \E n \in Free : /\ detached' = [detached EXCEPT ![c] = n]
                              /\ alive' = alive \cup {n}
  <2>1. PICK n \in Free : /\ detached' = [detached EXCEPT ![c] = n]
                          /\ alive' = alive \cup {n}
    BY <1>5
  <2>2. /\ n \in Surfaces /\ Nowhere(n)
        /\ detached \in [Chains -> OptSurface] /\ detached[c] = NoSurface
    BY <1>2, FreeNowhere DEF ExchangeInv, TypeOK
  <2>3. OnHand(n)' /\ OnceOnHand(n)' /\ n \in alive'
    BY <1>2, <2>1, <2>2 DEF OnHand, OnceOnHand, Nowhere
  <2>4. ASSUME NEW s \in Surfaces, s # n
        PROVE  Same(s)
    BY <1>2, <2>1, <2>2, <2>4, SameHand, NoSurfaceAssumption
  <2>5. QED
    BY <1>1, <1>2, <1>5, <2>3, <2>4, OpenStep
<1>6. QED
  BY <1>3, <1>4, <1>5 DEF CreateAttached, CreateDetached

-----------------------------------------------------------------------------
(* The consumers' calls: one surface x of chain d goes to a place of chain c. *)

LEMMA PassStep ==
    ASSUME ExchangeInv, TypeOK', Listed',
           UNCHANGED <<bound, back, detached, retired, texture, alive>>,
           NEW c \in Chains, NEW d \in Chains, NEW x \in Surfaces, Passing(x, d),
           \A e \in Chains \ {c} : ~Passing(x, e)',
           \/ x \in Range(recycled'[c]) /\ x # pending'[c] /\ x \notin held'[c]
           \/ x \notin Range(recycled'[c]) /\ x # pending'[c] /\ x \in held'[c],
           \A s \in Surfaces \ {x}, e \in Chains :
               /\ pending'[e] = s <=> pending[e] = s
               /\ s \in Range(recycled'[e]) <=> s \in Range(recycled[e])
               /\ s \in held'[e] <=> s \in held[e]
    PROVE  /\ ExchangeInv'
           /\ UNCHANGED {e \in Chains : back[e] # "Absent"}
           /\ x \in held'[c] => Abstract!MoveOne(x, Abstract!Shown(c))
           /\ x \notin held'[c] => Abstract!MoveOne(x, Abstract!Pool(c))
<1>1. Placement(x) /\ x \in alive /\ ~OnHand(x)
  BY DEF ExchangeInv, Placement, Nowhere, Apart
<1>2. OnceOnHand(x)' /\ ~OnHand(x)'
  BY <1>1 DEF OnceOnHand, OnHand, Placement
<1>3. OncePassing(x)'
  BY DEF OncePassing, Passing
<1>4. Placement(x)'
  BY <1>1, <1>2, <1>3 DEF Placement, Apart
<1>5. ASSUME NEW s \in Surfaces \ {x}
      PROVE  Same(s)
  BY <1>5 DEF Same
<1>6. ExchangeInv'
  BY <1>4, <1>5, SamePlace DEF ExchangeInv, RetiredExist
<1>7. Placement(x)' => PlaceAgrees(x)'
  BY PlacesAgreeNext
<1>8. /\ x \in held'[c] => PlaceOf(x)' = Abstract!Shown(c)
      /\ x \notin held'[c] => PlaceOf(x)' = Abstract!Pool(c)
  BY <1>4, <1>7 DEF PlaceAgrees
<1>9. \A s \in Surfaces \ {x} : PlaceOf(s)' = PlaceOf(s)
  BY <1>5, SamePlace
<1>10. QED
  BY <1>6, <1>8, <1>9 DEF Abstract!MoveOne

\* A surface of one chain has no business in another.
LEMMA NotElsewhere ==
    ASSUME ExchangeInv, NEW c \in Chains, NEW x \in Surfaces, Passing(x, c)
    PROVE  \A e \in Chains \ {c} : ~Passing(x, e)
  BY DEF ExchangeInv, Placement, OncePassing

LEMMA TakePendingTakes ==
    ASSUME ExchangeInv, NEW c \in Chains, back[c] # "Absent", pending[c] # NoSurface,
           held' = [held EXCEPT ![c] = @ \cup {pending[c]}],
           pending' = [pending EXCEPT ![c] = NoSurface],
           UNCHANGED <<bound, back, detached, recycled, retired, texture, alive>>,
           TypeOK'
    PROVE  ExchangeInv' /\ Abstract!Take(c)
<1>1. PICK x \in Surfaces : x = pending[c]
  BY DEF ExchangeInv, TypeOK, OptSurface
<1>2. Passing(x, c) /\ Placement(x) /\ Listed'
  BY <1>1 DEF Passing, ExchangeInv, Listed
<1>3. x \notin Range(recycled'[c])
  BY <1>1, <1>2 DEF Placement, OncePassing
<1>4. /\ held' = [held EXCEPT ![c] = held[c] \cup {x}]
      /\ held \in [Chains -> SUBSET Surfaces] /\ pending \in [Chains -> OptSurface]
  BY <1>1 DEF ExchangeInv, TypeOK
<1>5. /\ x \in held'[c] /\ x # pending'[c]
      /\ \A e \in Chains \ {c} : ~Passing(x, e)'
      /\ \A s \in Surfaces \ {x}, e \in Chains :
            /\ pending'[e] = s <=> pending[e] = s
            /\ s \in Range(recycled'[e]) <=> s \in Range(recycled[e])
            /\ s \in held'[e] <=> s \in held[e]
  BY <1>1, <1>2, <1>4, NoSurfaceAssumption, NotElsewhere DEF Passing
<1>6. /\ ExchangeInv'
      /\ UNCHANGED {d \in Chains : back[d] # "Absent"}
      /\ Abstract!MoveOne(x, Abstract!Shown(c))
  BY <1>2, <1>3, <1>5, PassStep
<1>7. PlaceOf(x) = Abstract!Front(c)
  BY <1>1, <1>2, PlacePassing
<1>8. QED
  BY <1>6, <1>7 DEF Abstract!Take

LEMMA TakesStep ==
    ASSUME ExchangeInv, NEW c \in Chains, TakeSurface(c) \/ TakePendingSurface(c)
    PROVE  ExchangeInv' /\ Abstract!Take(c)
<1>1. TypeOK' /\ UNCHANGED <<bound, back, detached, retired, texture, alive>>
  BY ConsumerType DEF ExchangeInv, Consumer, TakeSurface, TakePendingSurface
<1> back[c] # "Absent"
  BY DEF TakeSurface, TakePendingSurface
<1>2. CASE pending[c] # NoSurface
  <2>1. /\ held' = [held EXCEPT ![c] = @ \cup {pending[c]}]
        /\ pending' = [pending EXCEPT ![c] = NoSurface]
        /\ UNCHANGED recycled
    BY <1>2 DEF TakeSurface, TakePendingSurface
  <2>2. QED
    BY <1>1, <1>2, <2>1, TakePendingTakes
<1>3. CASE pending[c] = NoSurface
  <2>1. /\ recycled[c] # <<>>
        /\ held' = [held EXCEPT ![c] = @ \cup {recycled[c][Len(recycled[c])]}]
        /\ recycled' = [recycled EXCEPT ![c] = SubSeq(@, 1, Len(@) - 1)]
        /\ UNCHANGED pending
    BY <1>3 DEF TakeSurface, TakePendingSurface
  <2>2. /\ recycled \in [Chains -> Seq(Surfaces)] /\ recycled[c] \in Seq(Surfaces)
        /\ IsInjective(recycled[c])
        /\ held \in [Chains -> SUBSET Surfaces]
    BY DEF ExchangeInv, TypeOK, Listed
  <2> DEFINE rest == SubSeq(recycled[c], 1, Len(recycled[c]) - 1)
  <2>3. PICK x \in Surfaces : x = recycled[c][Len(recycled[c])]
    BY <2>1, <2>2, PopOnce
  <2>4. /\ IsInjective(rest) /\ x \notin Range(rest)
        /\ Range(recycled[c]) = Range(rest) \cup {x}
    BY <2>1, <2>2, <2>3, PopOnce
  <2>5. /\ recycled' = [recycled EXCEPT ![c] = rest]
        /\ held' = [held EXCEPT ![c] = held[c] \cup {x}]
    BY <2>1, <2>3
  <2> HIDE DEF rest
  <2>6. Passing(x, c)
    BY <2>4 DEF Passing
  <2>7. Listed'
    BY <2>2, <2>4, <2>5 DEF ExchangeInv, Listed
  <2>8. /\ x \in held'[c] /\ x # pending'[c] /\ x \notin Range(recycled'[c])
    BY <1>3, <2>1, <2>2, <2>4, <2>5, NoSurfaceAssumption
  <2>9. ASSUME NEW e \in Chains \ {c}
         PROVE  UNCHANGED <<pending[e], recycled[e], held[e]>>
    BY <2>1, <2>2, <2>5
  <2>10. \A e \in Chains \ {c} : ~Passing(x, e)'
    BY <2>6, <2>9, NotElsewhere DEF Passing
  <2>11. ASSUME NEW s \in Surfaces \ {x}
         PROVE  /\ s \in Range(recycled'[c]) <=> s \in Range(recycled[c])
                /\ s \in held'[c] <=> s \in held[c]
    BY <2>2, <2>4, <2>5
  <2>12. \A s \in Surfaces \ {x}, e \in Chains :
            /\ pending'[e] = s <=> pending[e] = s
            /\ s \in Range(recycled'[e]) <=> s \in Range(recycled[e])
            /\ s \in held'[e] <=> s \in held[e]
    BY <2>1, <2>9, <2>11
  <2>13. /\ ExchangeInv'
        /\ UNCHANGED {d \in Chains : back[d] # "Absent"}
        /\ Abstract!MoveOne(x, Abstract!Shown(c))
    BY <1>1, <2>6, <2>7, <2>8, <2>10, <2>12, PassStep
  <2>14. PlaceOf(x) = Abstract!Pool(c)
    BY <2>4, <2>6, PlacePassing DEF ExchangeInv
  <2>15. Abstract!InFront(c) = {}
    <3>1. ASSUME NEW s \in Surfaces
          PROVE  PlaceOf(s) # Abstract!Front(c)
      BY <1>3, PlacesAgree, NoSurfaceAssumption DEF ExchangeInv, PlaceAgrees
    <3>2. QED
      BY <3>1 DEF Abstract!InFront
  <2>16. QED
    BY <2>13, <2>14, <2>15 DEF Abstract!Take
<1>4. QED
  BY <1>2, <1>3

LEMMA RecycleReturns ==
    ASSUME ExchangeInv, NEW c \in Chains, RecycleSurface(c)
    PROVE  ExchangeInv' /\ Abstract!Return(c)
<1>1. /\ TypeOK' /\ back[c] # "Absent"
      /\ UNCHANGED <<bound, back, detached, pending, retired, texture, alive>>
  BY ConsumerType DEF ExchangeInv, Consumer, RecycleSurface
<1> PICK d \in Chains : \E x \in held[d] :
                            /\ held' = [held EXCEPT ![d] = @ \ {x}]
                            /\ recycled' = [recycled EXCEPT ![c] = Append(@, x)]
  BY DEF RecycleSurface
<1>2. PICK x \in held[d] : /\ held' = [held EXCEPT ![d] = @ \ {x}]
                           /\ recycled' = [recycled EXCEPT ![c] = Append(@, x)]
  OBVIOUS
<1>3. /\ recycled \in [Chains -> Seq(Surfaces)] /\ recycled[c] \in Seq(Surfaces)
      /\ IsInjective(recycled[c])
      /\ held \in [Chains -> SUBSET Surfaces] /\ x \in Surfaces
  BY DEF ExchangeInv, TypeOK, Listed
<1>4. Passing(x, d) /\ Placement(x)
  BY <1>3 DEF Passing, ExchangeInv
<1>5. /\ x \notin Range(recycled[d]) /\ x # pending[d]
      /\ \A e \in Chains \ {d} : ~Passing(x, e)
  BY <1>4, <1>3, NotElsewhere DEF Placement, OncePassing
<1>6. x \notin Range(recycled[c]) /\ x # pending[c]
  BY <1>5 DEF Passing
<1>7. /\ Range(Append(recycled[c], x)) = Range(recycled[c]) \cup {x}
      /\ IsInjective(Append(recycled[c], x))
  BY <1>3, <1>6, AppendRange, AppendOnce
<1>8. Listed'
  BY <1>2, <1>3, <1>7 DEF ExchangeInv, Listed
<1>9. \A e \in Chains : x \notin held'[e]
  BY <1>2, <1>3, <1>5 DEF Passing
<1>10. \A e \in Chains \ {c} : ~Passing(x, e)'
  BY <1>1, <1>2, <1>3, <1>5, <1>9 DEF Passing
<1>11. /\ x # pending'[c] /\ x \in Range(recycled'[c])
       /\ \A s \in Surfaces \ {x}, e \in Chains :
             /\ pending'[e] = s <=> pending[e] = s
             /\ s \in Range(recycled'[e]) <=> s \in Range(recycled[e])
             /\ s \in held'[e] <=> s \in held[e]
  BY <1>1, <1>2, <1>3, <1>6, <1>7
<1>12. /\ ExchangeInv'
       /\ UNCHANGED {e \in Chains : back[e] # "Absent"}
       /\ Abstract!MoveOne(x, Abstract!Pool(c))
  BY <1>1, <1>3, <1>4, <1>8, <1>9, <1>10, <1>11, PassStep
<1>13. PlaceOf(x) = Abstract!Shown(d)
  BY <1>2, <1>3, <1>4, PlacePassing
<1>14. QED
  BY <1>1, <1>3, <1>12, <1>13 DEF Abstract!Return

-----------------------------------------------------------------------------
(* The end of a chain. *)

\* The producer's surfaces, and those in front and in the pool of c, may end.
LEMMA EndStep ==
    ASSUME ExchangeInv, NEW c \in Chains, NEW s \in Surfaces,
           \/ Same(s)
           \/ /\ Nowhere(s)'
              /\ OnHand(s) \/ pending[c] = s \/ s \in Range(recycled[c])
    PROVE  /\ Placement(s)'
           /\ \/ PlaceOf(s)' = PlaceOf(s)
              \/ /\ PlaceOf(s) \in {Abstract!Drawn, Abstract!Front(c), Abstract!Pool(c)}
                 /\ PlaceOf(s)' \in Abstract!Ended
                 /\ s \in alive' => PlaceOf(s)' = Abstract!Lost
<1>1. CASE Same(s)
  BY <1>1, SamePlace DEF ExchangeInv
<1>2. CASE /\ Nowhere(s)'
           /\ OnHand(s) \/ pending[c] = s \/ s \in Range(recycled[c])
  <2>1. Placement(s)'
    BY <1>2 DEF Placement, OnceOnHand, OncePassing, Apart, Nowhere, OnHand, Passing
  <2>2. PlaceAgrees(s)' /\ PlaceAgrees(s)
    BY <2>1, PlacesAgree, PlacesAgreeNext DEF ExchangeInv
  <2>3. PlaceOf(s) \in {Abstract!Drawn, Abstract!Front(c), Abstract!Pool(c)}
    BY <1>2, <2>2 DEF PlaceAgrees
  <2>4. /\ PlaceOf(s)' \in Abstract!Ended
        /\ s \in alive' => PlaceOf(s)' = Abstract!Lost
    BY <1>2, <2>2 DEF PlaceAgrees, Abstract!Ended
  <2>5. QED
    BY <2>1, <2>3, <2>4
<1>3. QED
  BY <1>1, <1>2

\* Nothing is left of c but what its consumers show.
LEMMA ChainEmptied ==
    ASSUME ExchangeInv, NEW c \in Chains, NEW s \in Surfaces,
           pending' = [pending EXCEPT ![c] = NoSurface],
           recycled' = [recycled EXCEPT ![c] = <<>>],
           UNCHANGED <<held, texture>>,
           pending[c] = s \/ s \in Range(recycled[c])
    PROVE  /\ ~OnHand(s)
           /\ \A d \in Chains : ~Passing(s, d)'
<1>1. Passing(s, c) /\ Placement(s)
  BY DEF Passing, ExchangeInv
<1>2. /\ pending \in [Chains -> OptSurface] /\ recycled \in [Chains -> Seq(Surfaces)]
      /\ s \notin held[c]
  BY <1>1 DEF ExchangeInv, TypeOK, Placement, OncePassing
<1>3. ASSUME NEW d \in Chains
      PROVE  ~Passing(s, d)'
  BY <1>1, <1>2, EmptyOnce, NoSurfaceAssumption DEF Passing, Placement, OncePassing
<1>4. QED
  BY <1>1, <1>3 DEF Placement, Apart

LEMMA DropDrops ==
    ASSUME ExchangeInv, NEW c \in Chains, DropChain(c)
    PROVE  ExchangeInv' /\ Abstract!Drop(c)
<1> USE NoSurfaceAssumption
<1>1. TypeOK'
  BY DropType DEF ExchangeInv
<1>2. /\ c \in retired /\ held[c] = {} /\ texture[c] = NoSurface
      /\ back' = [back EXCEPT ![c] = "Absent"]
      /\ detached' = [detached EXCEPT ![c] = NoSurface]
      /\ pending' = [pending EXCEPT ![c] = NoSurface]
      /\ recycled' = [recycled EXCEPT ![c] = <<>>]
      /\ retired' = retired \ {c}
      /\ UNCHANGED <<bound, held, texture, alive>>
  BY DEF DropChain, Drained
<1>3. /\ detached \in [Chains -> OptSurface] /\ pending \in [Chains -> OptSurface]
      /\ recycled \in [Chains -> Seq(Surfaces)] /\ retired \subseteq Chains
      /\ back \in [Chains -> {"Absent", "Attached", "Detached",
                              "TakenAttached", "TakenDetached"}]
  BY DEF ExchangeInv, TypeOK
<1>4. Listed' /\ RetiredExist'
  BY <1>2, <1>3, EmptyOnce DEF ExchangeInv, Listed, RetiredExist
<1>5. ASSUME NEW s \in Surfaces
      PROVE  \/ Same(s)
             \/ /\ Nowhere(s)'
                /\ OnHand(s) \/ pending[c] = s \/ s \in Range(recycled[c])
  <2>1. CASE pending[c] = s \/ s \in Range(recycled[c])
    <3>1. ~OnHand(s) /\ \A d \in Chains : ~Passing(s, d)'
      BY <1>2, <2>1, ChainEmptied
    <3>2. ~OnHand(s)'
      BY <1>2, <1>3, <3>1 DEF OnHand
    <3>3. QED
      BY <2>1, <3>1, <3>2 DEF Nowhere
  <2>2. CASE detached[c] = s
    <3>1. OnHand(s) /\ OnceOnHand(s) /\ \A d \in Chains : ~Passing(s, d)
      BY <2>2 DEF OnHand, ExchangeInv, Placement, Apart
    <3>2. ~OnHand(s)'
      BY <1>2, <1>3, <2>2, <3>1 DEF OnHand, OnceOnHand
    <3>3. \A d \in Chains : ~Passing(s, d)'
      BY <1>2, <1>3, <3>1, EmptyOnce DEF Passing
    <3>4. QED
      BY <3>1, <3>2, <3>3 DEF Nowhere
  <2>3. CASE ~(pending[c] = s \/ s \in Range(recycled[c]) \/ detached[c] = s)
    BY <1>2, <1>3, <2>3, EmptyOnce DEF Same
  <2>4. QED
    BY <2>1, <2>2, <2>3
<1>6. ExchangeInv'
  BY <1>1, <1>4, <1>5, EndStep DEF ExchangeInv
<1>7. ASSUME NEW s \in Surfaces
      PROVE  \/ PlaceOf(s)' = PlaceOf(s)
             \/ <<PlaceOf(s), PlaceOf(s)'>> \in
                    {Abstract!Drawn, Abstract!Front(c),
                         Abstract!Pool(c)} \X {Abstract!Lost}
  <2>1. CASE Same(s)
    BY <2>1, SamePlace
  <2>2. CASE ~Same(s)
    <3>1. s \in alive
      BY <1>5, <2>2 DEF ExchangeInv, Placement, Nowhere, Passing
    <3>2. QED
      BY <1>2, <1>5, <3>1, EndStep
  <2>3. QED
    BY <2>1, <2>2
<1>8. Abstract!Moves({Abstract!Drawn, Abstract!Front(c),
     Abstract!Pool(c)} \X {Abstract!Lost})
  BY <1>6, <1>7, MovesAlong DEF ExchangeInv
<1>9. ASSUME NEW s \in Surfaces
      PROVE  /\ PlaceOf(s) # Abstract!Shown(c)
             /\ PlaceOf(s)' \notin {Abstract!Front(c), Abstract!Pool(c)}
  <2>1. PlaceAgrees(s) /\ PlaceAgrees(s)'
    BY <1>6, PlacesAgree, PlacesAgreeNext DEF ExchangeInv
  <2>2. pending'[c] = NoSurface /\ Range(recycled'[c]) = {}
    BY <1>2, <1>3, EmptyOnce
  <2>3. QED
    BY <1>2, <2>1, <2>2 DEF PlaceAgrees
<1>10. /\ c \in {d \in Chains : back[d] # "Absent"}
       /\ {d \in Chains : back[d] # "Absent"}' = {d \in Chains : back[d] # "Absent"} \ {c}
  BY <1>2, <1>3 DEF ExchangeInv, RetiredExist
<1>11. QED
  BY <1>6, <1>8, <1>9, <1>10 DEF Abstract!Drop

\* destroy destroys surfaces of its own list only.
LEMMA DoomedOnlyDie ==
    ASSUME TypeOK, NEW c \in Chains, NEW rear \in Seq(Surfaces),
           DestroyInOrder(Doomed(c, rear)), NEW s \in Surfaces,
           s # pending[c], s \notin Range(rear), s \notin Range(recycled[c])
    PROVE  s \in alive' <=> s \in alive
<1> DEFINE q == Doomed(c, rear)
<1>1. s \notin Range(q)
  BY DoomedOnly
<1>2. q \in Seq(Surfaces)
  BY DoomedType
<1>3. DestroyInOrder(q)
  OBVIOUS
<1> HIDE DEF q
<1>4. /\ Len(q) \in Nat /\ DOMAIN q = 1..Len(q)
      /\ \A k \in 1..Len(q) : \A j \in 1..(k - 1) : j \in 1..Len(q)
  BY <1>2, LenProperties
<1>5. \A j \in 1..Len(q) : q[j] # s
  BY <1>1, <1>4 DEF Range
<1>6. QED
  BY <1>1, <1>3, <1>4, <1>5 DEF DestroyInOrder

\* What becomes of the pool and the front of c in a call of destroy that empties
\* them, and of everything the call is not about.
LEMMA DestroyEnds ==
    ASSUME ExchangeInv, NEW c \in Chains, NEW rear \in Seq(Surfaces),
           pending' = [pending EXCEPT ![c] = NoSurface],
           recycled' = [recycled EXCEPT ![c] = <<>>],
           UNCHANGED <<held, texture>>,
           DestroyInOrder(Doomed(c, rear)), NEW s \in Surfaces,
           \/ /\ bound' = s <=> bound = s
              /\ \A d \in Chains : detached'[d] = s <=> detached[d] = s
              /\ s \notin Range(rear)
           \/ OnHand(s) /\ ~OnHand(s)'
    PROVE  \/ Same(s)
           \/ /\ Nowhere(s)'
              /\ OnHand(s) \/ pending[c] = s \/ s \in Range(recycled[c])
<1>1. pending \in [Chains -> OptSurface] /\ recycled \in [Chains -> Seq(Surfaces)]
  BY DEF ExchangeInv, TypeOK
<1>2. CASE OnHand(s) /\ ~OnHand(s)'
  <2>1. \A d \in Chains : ~Passing(s, d)
    BY <1>2 DEF ExchangeInv, Placement, Apart
  <2>2. \A d \in Chains : ~Passing(s, d)'
    BY <1>1, <2>1, EmptyOnce, NoSurfaceAssumption DEF Passing
  <2>3. QED
    BY <1>2, <2>2 DEF Nowhere
<1>3. CASE /\ bound' = s <=> bound = s
           /\ \A d \in Chains : detached'[d] = s <=> detached[d] = s
           /\ s \notin Range(rear)
  <2>1. CASE pending[c] = s \/ s \in Range(recycled[c])
    <3>1. ~OnHand(s) /\ \A d \in Chains : ~Passing(s, d)'
      BY <2>1, ChainEmptied
    <3>2. ~OnHand(s)'
      BY <1>3, <3>1 DEF OnHand
    <3>3. QED
      BY <2>1, <3>1, <3>2 DEF Nowhere
  <2>2. CASE ~(pending[c] = s \/ s \in Range(recycled[c]))
    <3>1. s \in alive' <=> s \in alive
      BY <1>3, <2>2, DoomedOnlyDie DEF ExchangeInv
    <3>2. QED
      BY <1>1, <1>3, <2>2, <3>1, EmptyOnce, NoSurfaceAssumption DEF Same
  <2>3. QED
    BY <2>1, <2>2
<1>4. QED
  BY <1>2, <1>3

LEMMA DestroyCloses ==
    ASSUME ExchangeInv, NEW c \in Chains, Destroy(c)
    PROVE  ExchangeInv' /\ Abstract!Close(c)
<1> USE NoSurfaceAssumption
<1>1. TypeOK'
  BY DestroyType DEF ExchangeInv
<1>2. /\ back[c] # "Absent"
      /\ pending' = [pending EXCEPT ![c] = NoSurface]
      /\ retired' = retired \cup {c}
      /\ UNCHANGED <<held, texture>>
  BY DEF Destroy, MayCall
<1>3. /\ detached \in [Chains -> OptSurface] /\ pending \in [Chains -> OptSurface]
      /\ recycled \in [Chains -> Seq(Surfaces)] /\ retired \subseteq Chains
      /\ back \in [Chains -> {"Absent", "Attached", "Detached",
                              "TakenAttached", "TakenDetached"}]
  BY DEF ExchangeInv, TypeOK
<1>4. /\ back' = [back EXCEPT ![c] = back'[c]] /\ back'[c] # "Absent"
      /\ recycled' = [recycled EXCEPT ![c] = <<>>] \/ UNCHANGED recycled
  <2>1. recycled' = [recycled EXCEPT ![c] = <<>>] \/ UNCHANGED recycled
    BY DEF Destroy, Drained
  <2>2. CASE CanTake(c) /\ back' = [back EXCEPT ![c] = IF @ = "Attached"
                                                       THEN "TakenAttached"
                                                       ELSE "TakenDetached"]
    <3>1. back'[c] \in {"TakenAttached", "TakenDetached"}
      BY <1>3, <2>2
    <3>2. back' = [back EXCEPT ![c] = back'[c]]
      BY <1>3, <2>2
    <3>3. QED
      BY <2>1, <3>1, <3>2
  <2>3. CASE TakeRefused(c)
    BY <1>2, <1>3, <2>3, <2>1 DEF TakeRefused
  <2>4. CASE back' = [back EXCEPT ![c] = "TakenAttached"]
    BY <1>3, <2>1, <2>4
  <2>5. QED
    BY <2>2, <2>3, <2>1, <2>4 DEF Destroy, UnbindRefused, TakePanics
<1>5. Listed' /\ RetiredExist'
  BY <1>2, <1>3, <1>4, EmptyOnce DEF ExchangeInv, Listed, RetiredExist
<1>6. ASSUME NEW s \in Surfaces
      PROVE  \/ Same(s)
             \/ /\ Nowhere(s)'
                /\ OnHand(s) \/ pending[c] = s \/ s \in Range(recycled[c])
  <2>1. CASE /\ CanTake(c)
             /\ bound' = IF back[c] = "Attached" THEN NoSurface ELSE bound
             /\ detached' = [detached EXCEPT ![c] = NoSurface]
             /\ recycled' = Drained(c)
             /\ DestroyInOrder(Doomed(c, <<BackSurface(c)>>))
    <3>1. PICK b \in Surfaces : b = BackSurface(c)
      BY <2>1, BackSurfaceHeld DEF ExchangeInv
    <3>2. /\ <<b>> \in Seq(Surfaces) /\ Range(<<b>>) = {b}
          /\ DestroyInOrder(Doomed(c, <<b>>))
          /\ recycled' = [recycled EXCEPT ![c] = <<>>]
      BY <2>1, <3>1, RearType, RearRange DEF ExchangeInv, Drained
    <3>3. /\ back[c] = "Attached" => b = bound /\ detached[c] = NoSurface
          /\ back[c] # "Attached" => b = detached[c]
      BY <2>1, <3>1, BackSurfaceHeld DEF ExchangeInv
    <3>4. CASE s = b
      <4>1. OnHand(s) /\ OnceOnHand(s)
        BY <3>3, <3>4, HandFacts DEF OnHand
      <4>2. ~OnHand(s)'
        BY <1>2, <1>3, <2>1, <3>3, <3>4, <4>1 DEF OnHand, OnceOnHand
      <4>3. QED
        BY <1>2, <3>2, <4>1, <4>2, DestroyEnds
    <3>5. CASE s # b
      <4>1. /\ bound' = s <=> bound = s
            /\ \A d \in Chains : detached'[d] = s <=> detached[d] = s
        BY <1>3, <2>1, <3>3, <3>5
      <4>2. QED
        BY <1>2, <3>2, <3>5, <4>1, DestroyEnds
    <3>6. QED
      BY <3>4, <3>5
  <2>2. CASE /\ TakeRefused(c) \/ UnbindRefused(c)
             /\ recycled' = Drained(c)
             /\ DestroyInOrder(Doomed(c, <<>>))
    <3>1. /\ bound' \in {bound, NoSurface} /\ UNCHANGED detached
          /\ <<>> \in Seq(Surfaces) /\ Range(<<>>) = {}
          /\ recycled' = [recycled EXCEPT ![c] = <<>>]
      BY <2>2, RearType, EmptyOnce DEF ExchangeInv, Drained, TakeRefused, UnbindRefused
    <3>2. CASE s = bound /\ bound' = NoSurface
      <4>1. OnHand(s) /\ OnceOnHand(s)
        BY <3>2, HandFacts DEF OnHand
      <4>2. ~OnHand(s)'
        BY <1>2, <3>1, <3>2, <4>1 DEF OnHand, OnceOnHand
      <4>3. QED
        BY <1>2, <2>2, <3>1, <4>1, <4>2, DestroyEnds
    <3>3. CASE s # bound \/ bound' = bound
      <4>1. /\ bound' = s <=> bound = s
            /\ \A d \in Chains : detached'[d] = s <=> detached[d] = s
        BY <3>1, <3>3
      <4>2. QED
        BY <1>2, <2>2, <3>1, <4>1, DestroyEnds
    <3>4. QED
      BY <3>1, <3>2, <3>3
  <2>3. CASE TakePanics(c) /\ UNCHANGED <<recycled, alive>>
    <3>1. UNCHANGED <<bound, detached, recycled, alive>>
      BY <2>3 DEF TakePanics
    <3>2. CASE pending[c] = s
      <4>1. Passing(s, c) /\ Placement(s)
        BY <3>2 DEF Passing, ExchangeInv
      <4>2. ~OnHand(s) /\ s \notin Range(recycled[c]) /\ s \notin held[c]
        BY <3>2, <4>1 DEF Placement, Apart, OncePassing
      <4>3. \A d \in Chains : d # c => ~Passing(s, d)
        BY <4>1 DEF Placement, OncePassing
      <4>4. QED
        BY <1>2, <1>3, <3>1, <3>2, <4>2, <4>3 DEF Nowhere, OnHand, Passing
    <3>3. CASE pending[c] # s
      BY <1>2, <1>3, <3>1, <3>3 DEF Same
    <3>4. QED
      BY <3>2, <3>3
  <2>4. QED
    BY <2>1, <2>2, <2>3 DEF Destroy
<1>7. ExchangeInv'
  BY <1>1, <1>5, <1>6, EndStep DEF ExchangeInv
<1>8. ASSUME NEW s \in Surfaces
      PROVE  \/ PlaceOf(s)' = PlaceOf(s)
             \/ <<PlaceOf(s), PlaceOf(s)'>> \in Abstract!Disposes \cup
                    ({Abstract!Front(c), Abstract!Pool(c)} \X Abstract!Ended)
  BY <1>6, EndStep DEF Abstract!Disposes
<1>9. Abstract!Moves(Abstract!Disposes \cup
                        ({Abstract!Front(c), Abstract!Pool(c)} \X Abstract!Ended))
  BY <1>7, <1>8, MovesAlong DEF ExchangeInv
<1>10. /\ c \in {d \in Chains : back[d] # "Absent"}
       /\ UNCHANGED {d \in Chains : back[d] # "Absent"}
  BY <1>2, <1>3, <1>4
<1>11. QED
  BY <1>7, <1>9, <1>10 DEF Abstract!Close

-----------------------------------------------------------------------------
(* What a swap and a resize do to the producer's hands. *)

HandKept(s) ==
    /\ bound' = s <=> bound = s
    /\ \A d \in Chains :
          /\ detached'[d] = s <=> detached[d] = s
          /\ texture'[d] = s <=> texture[d] = s

LEMMA KeptOnHand ==
    ASSUME NEW s \in Surfaces, HandKept(s)
    PROVE  OnHand(s)' <=> OnHand(s)
  BY DEF HandKept, OnHand

\* The back buffer of c becomes n, which was in no hand.
LEMMA HandsExchanged ==
    ASSUME ExchangeInv, NEW c \in Chains, NEW n \in Surfaces, ~OnHand(n),
           NEW b \in Surfaces, b = BackSurface(c), Exchange(c, n), UNCHANGED texture
    PROVE  /\ OnHand(n)' /\ OnceOnHand(n)'
           /\ OnHand(b) /\ ~OnHand(b)'
           /\ \A s \in Surfaces \ {n, b} : HandKept(s)
<1> USE NoSurfaceAssumption
<1>1. /\ back[c] = "Attached" => b = bound /\ detached[c] = NoSurface
      /\ back[c] # "Attached" => b = detached[c]
      /\ bound' = IF back[c] = "Attached" THEN n ELSE bound
      /\ detached' = IF back[c] = "Attached" THEN detached
                                             ELSE [detached EXCEPT ![c] = n]
      /\ detached \in [Chains -> OptSurface]
  BY BackSurfaceHeld DEF Exchange, ExchangeInv, TypeOK
<1>2. OnHand(b) /\ OnceOnHand(b) /\ b # n
  BY <1>1, HandFacts DEF OnHand
<1>3. OnHand(n)' /\ OnceOnHand(n)'
  BY <1>1 DEF OnHand, OnceOnHand
<1>4. ~OnHand(b)'
  BY <1>1, <1>2 DEF OnHand, OnceOnHand
<1>5. ASSUME NEW s \in Surfaces \ {n, b}
      PROVE  HandKept(s)
  BY <1>1, <1>5 DEF HandKept
<1>6. QED
  BY <1>2, <1>3, <1>4, <1>5

\* The old back buffer is out, and the new one is refused.
LEMMA HandRefused ==
    ASSUME ExchangeInv, NEW c \in Chains, BindRefused(c), UNCHANGED texture,
           NEW b \in Surfaces, b = bound
    PROVE  /\ OnHand(b) /\ ~OnHand(b)'
           /\ \A s \in Surfaces \ {b} : HandKept(s)
<1> USE NoSurfaceAssumption
<1>1. bound' = NoSurface /\ UNCHANGED detached
  BY DEF BindRefused
<1>2. OnHand(b) /\ OnceOnHand(b)
  BY HandFacts DEF OnHand
<1>3. ~OnHand(b)'
  BY <1>1, <1>2 DEF OnHand, OnceOnHand
<1>4. QED
  BY <1>1, <1>2, <1>3 DEF HandKept

\* The old back buffer cannot be had; it may be gone from the context all the same.
LEMMA HandWithheld ==
    ASSUME ExchangeInv, NEW c \in Chains, TakeFails(c), UNCHANGED texture,
           NEW s \in Surfaces
    PROVE  HandKept(s) \/ (OnHand(s) /\ ~OnHand(s)')
<1> USE NoSurfaceAssumption
<1>1. bound' \in {bound, NoSurface} /\ UNCHANGED detached
  BY DEF TakeFails, TakeRefused, UnbindRefused, TakePanics
<1>2. CASE s = bound /\ bound' = NoSurface
  <2>1. OnHand(s) /\ OnceOnHand(s)
    BY <1>2, HandFacts DEF OnHand
  <2>2. ~OnHand(s)'
    BY <1>1, <1>2, <2>1 DEF OnHand, OnceOnHand
  <2>3. QED
    BY <2>1, <2>2
<1>3. CASE s # bound \/ bound' = bound
  <2>1. bound' = s <=> bound = s
    BY <1>1, <1>3
  <2>2. QED
    BY <1>1, <2>1 DEF HandKept
<1>4. QED
  BY <1>1, <1>2, <1>3

\* A swap or a resize leaves open what is open.
LEMMA OpenExchange ==
    ASSUME ExchangeInv, NEW c \in Chains, NEW n, back[c] # "Absent", UNCHANGED retired,
           \/ Exchange(c, n) \/ TakeFails(c) \/ BindRefused(c)
    PROVE  OpenStays /\ RetiredExist'
<1>1. \A d \in Chains : back'[d] = "Absent" <=> back[d] = "Absent"
  BY DEF Exchange, TakeRefused, TakeFails, TakePanics, UnbindRefused, BindRefused, ExchangeInv, TypeOK
<1>2. QED
  BY <1>1, OpenKept

\* How a surface is found alone in its place after a step.
LEMMA PlacedNowhere ==
    ASSUME NEW s \in Surfaces, Nowhere(s)'
    PROVE  Placement(s)'
  BY DEF Placement, OnceOnHand, OncePassing, Apart, Nowhere, OnHand, Passing

LEMMA PlacedOnHand ==
    ASSUME NEW s \in Surfaces, OnceOnHand(s)', s \in alive',
           \A d \in Chains : ~Passing(s, d)'
    PROVE  Placement(s)'
  BY DEF Placement, OncePassing, Apart, Passing

LEMMA PlacedPassing ==
    ASSUME NEW s \in Surfaces, NEW c \in Chains, ~OnHand(s)', s \in alive',
           \A d \in Chains \ {c} : ~Passing(s, d)',
           s \notin held'[c],
           ~(pending'[c] = s /\ s \in Range(recycled'[c]))
    PROVE  Placement(s)'
<1>1. OnceOnHand(s)'
  BY DEF OnceOnHand, OnHand
<1>2. OncePassing(s)'
  BY DEF OncePassing, Passing
<1>3. QED
  BY <1>1, <1>2 DEF Placement, Apart

-----------------------------------------------------------------------------
(* Resize. *)

\* A surface of the producer's, or of c's pool, in a resize.
Resized(s, c) ==
    \/ Same(s)
    \/ DrawnOn(s)
    \/ s \in Range(recycled[c]) /\ Nowhere(s)'

LEMMA ResizeStep ==
    ASSUME ExchangeInv, TypeOK', Listed', RetiredExist', OpenStays,
           NEW c \in Chains, back[c] # "Absent",
           \A s \in Surfaces : Placement(s)' /\ Resized(s, c)
    PROVE  ExchangeInv' /\ Abstract!Resize(c)
<1>1. ExchangeInv'
  BY DEF ExchangeInv
<1>2. ASSUME NEW s \in Surfaces
      PROVE  \/ PlaceOf(s)' = PlaceOf(s)
             \/ <<PlaceOf(s), PlaceOf(s)'>> \in Abstract!Creates \cup Abstract!Disposes
                    \cup ({Abstract!Pool(c)} \X Abstract!Ended)
  <2>1. CASE Same(s)
    BY <2>1, SamePlace
  <2>2. CASE DrawnOn(s)
    BY <2>2, DrawnOnMoves DEF ExchangeInv
  <2>3. CASE s \in Range(recycled[c]) /\ Nowhere(s)'
    <3>1. PlaceAgrees(s) /\ PlaceAgrees(s)'
      BY PlacesAgree, PlacesAgreeNext DEF ExchangeInv
    <3>2. QED
      BY <2>3, <3>1 DEF PlaceAgrees, Abstract!Ended
  <2>4. QED
    BY <2>1, <2>2, <2>3 DEF Resized
<1>3. Abstract!Moves(Abstract!Creates \cup Abstract!Disposes
                        \cup ({Abstract!Pool(c)} \X Abstract!Ended))
  BY <1>1, <1>2, MovesAlong DEF ExchangeInv
<1>4. {d \in Chains : back[d] # "Absent"}' = {d \in Chains : back[d] # "Absent"}
  BY DEF OpenStays
<1>5. QED
  BY <1>1, <1>3, <1>4 DEF Abstract!Resize

LEMMA ResizeToResizes ==
    ASSUME ExchangeInv, TypeOK', NEW c \in Chains, MayCall(c), NEW n \in Free, NEW z,
           ResizeTo(c, n, z), UNCHANGED <<pending, retired, held, texture>>
    PROVE  ExchangeInv' /\ Abstract!Resize(c)
<1>1. n \in Surfaces /\ Nowhere(n) /\ n \notin alive
  BY FreeNowhere DEF ExchangeInv
<1>2. ~OnHand(n) /\ \A d \in Chains : ~Passing(n, d)
  BY <1>1 DEF Nowhere
<1>3. back[c] # "Absent"
  BY DEF MayCall
<1>4. OpenStays /\ RetiredExist'
  BY <1>3, OpenExchange DEF ResizeTo
<1>5. /\ recycled \in [Chains -> Seq(Surfaces)]
      /\ recycled' = [recycled EXCEPT ![c] = <<>>] \/ UNCHANGED recycled
  BY DEF ExchangeInv, TypeOK, ResizeTo, Drained
<1>6. Listed'
  BY <1>5, EmptyOnce DEF ExchangeInv, Listed
<1>7. \A s \in Surfaces, d \in Chains : ~Passing(s, d) => ~Passing(s, d)'
  BY <1>5, EmptyOnce DEF Passing
<1>8. ASSUME Exchange(c, n), NEW s \in Surfaces,
             s \notin Range(recycled[c]) => (s = n => s \in alive'),
             s \notin Range(recycled[c]) /\ s # n /\ s # BackSurface(c)
                => (s \in alive' <=> s \in alive),
             \/ recycled' = [recycled EXCEPT ![c] = <<>>]
             \/ UNCHANGED recycled /\ alive' = alive \cup {n}
      PROVE  Placement(s)' /\ Resized(s, c)
  <2>1. PICK b \in Surfaces : b = BackSurface(c)
    BY <1>8, BackSurfaceHeld DEF Exchange, ExchangeInv
  <2>2. /\ OnHand(n)' /\ OnceOnHand(n)'
        /\ OnHand(b) /\ ~OnHand(b)'
        /\ \A t \in Surfaces \ {n, b} : HandKept(t)
    BY <1>1, <1>2, <1>8, <2>1, HandsExchanged
  <2>3. CASE s = n
    <3>1. s \in alive' /\ \A d \in Chains : ~Passing(s, d)'
      BY <1>1, <1>2, <1>7, <1>8, <2>3 DEF Passing
    <3>2. QED
      BY <2>2, <2>3, <3>1, PlacedOnHand DEF Resized, DrawnOn
  <2>4. CASE s = b
    <3>1. \A d \in Chains : ~Passing(s, d)'
      BY <1>7, <2>2, <2>4 DEF ExchangeInv, Placement, Apart
    <3>2. Nowhere(s)'
      BY <2>2, <2>4, <3>1 DEF Nowhere
    <3>3. QED
      BY <2>2, <2>4, <3>2, PlacedNowhere DEF Resized, DrawnOn
  <2>5. CASE s # n /\ s # b /\ s \in Range(recycled[c])
             /\ recycled' = [recycled EXCEPT ![c] = <<>>]
    <3>1. Passing(s, c) /\ Placement(s)
      BY <2>5 DEF Passing, ExchangeInv
    <3>2. ~OnHand(s) /\ s # pending[c] /\ s \notin held[c]
      BY <2>5, <3>1 DEF Placement, Apart, OncePassing
    <3>3. ~OnHand(s)'
      BY <2>2, <2>5, <3>2, KeptOnHand
    <3>4. \A d \in Chains \ {c} : ~Passing(s, d)'
      BY <1>7, <3>1 DEF Placement, OncePassing
    <3>5. ~Passing(s, c)'
      BY <1>5, <2>5, <3>2, EmptyOnce DEF Passing
    <3>6. Nowhere(s)'
      BY <3>3, <3>4, <3>5 DEF Nowhere
    <3>7. QED
      BY <2>5, <3>6, PlacedNowhere DEF Resized
  <2>6. CASE s # n /\ s # b /\ s \notin Range(recycled[c])
    <3>1. HandKept(s) /\ (s \in alive' <=> s \in alive)
      BY <1>8, <2>1, <2>2, <2>6
    <3>2. Same(s)
      BY <1>5, <2>6, <3>1, EmptyOnce DEF Same, HandKept
    <3>3. QED
      BY <3>2, SamePlace DEF Resized, ExchangeInv
  <2>7. CASE s # n /\ s # b /\ UNCHANGED recycled /\ alive' = alive \cup {n}
    <3>1. Same(s)
      BY <2>2, <2>7 DEF Same, HandKept
    <3>2. QED
      BY <3>1, SamePlace DEF Resized, ExchangeInv
  <2>8. QED
    BY <1>8, <2>3, <2>4, <2>5, <2>6, <2>7
<1>9. ASSUME Exchange(c, n), NEW s \in Surfaces,
             ~(TakeFails(c) \/ BindRefused(c))
      PROVE  Placement(s)' /\ Resized(s, c)
  <2>1. n # BackSurface(c) /\ n \notin Range(recycled[c])
    BY <1>1, <1>2, <1>9, BackSurfaceHeld DEF Exchange, OnHand, Passing, ExchangeInv
  <2>2. \A k \in 1..Len(recycled[c]) :
            {recycled[c][j] : j \in 1..(k - 1)} \subseteq Range(recycled[c])
    BY <1>5, LenProperties DEF Range
  <2>3. /\ s \notin Range(recycled[c]) => (s = n => s \in alive')
        /\ s \notin Range(recycled[c]) /\ s # n /\ s # BackSurface(c)
              => (s \in alive' <=> s \in alive)
        /\ \/ recycled' = [recycled EXCEPT ![c] = <<>>]
           \/ UNCHANGED recycled /\ alive' = alive \cup {n}
    <3>1. CASE alive' = alive \cup {n} /\ UNCHANGED recycled
      BY <2>1, <3>1
    <3>2. CASE /\ recycled' = [recycled EXCEPT ![c] = <<>>]
               /\ alive' = (alive \cup {n}) \ ({BackSurface(c)} \cup Range(recycled[c]))
      BY <2>1, <3>2
    <3>3. CASE /\ recycled' = [recycled EXCEPT ![c] = <<>>]
               /\ \E k \in 1..Len(recycled[c]) :
                     alive' = (alive \cup {n}) \ ({BackSurface(c)} \cup
                                 {recycled[c][j] : j \in 1..(k - 1)})
      <4>1. PICK k \in 1..Len(recycled[c]) :
                     alive' = (alive \cup {n}) \ ({BackSurface(c)} \cup
                                 {recycled[c][j] : j \in 1..(k - 1)})
        BY <3>3
      <4> DEFINE dead == {recycled[c][j] : j \in 1..(k - 1)}
      <4>2. dead \subseteq Range(recycled[c])
      /\ alive' = (alive \cup {n}) \ ({BackSurface(c)} \cup dead)
        BY <2>2, <4>1
      <4> HIDE DEF dead
      <4>3. QED
        BY <2>1, <3>3, <4>2
    <3>4. QED
      BY <1>9, <3>1, <3>2, <3>3 DEF ResizeTo, Drained
  <2>4. QED
    BY <1>8, <1>9, <2>3
<1>10. ASSUME TakeFails(c), alive' = alive \cup {n}, UNCHANGED recycled,
              NEW s \in Surfaces
       PROVE  Placement(s)' /\ Resized(s, c)
  <2>1. HandKept(s) \/ (OnHand(s) /\ ~OnHand(s)')
    BY <1>10, HandWithheld
  <2>2. CASE s = n
    <3>1. Nowhere(s)'
      BY <1>1, <1>2, <1>7, <2>1, <2>2, KeptOnHand DEF Nowhere
    <3>2. QED
      BY <2>2, <3>1, PlacedNowhere DEF Resized, DrawnOn
  <2>3. CASE s # n /\ HandKept(s)
    <3>1. Same(s)
      BY <1>10, <2>3 DEF Same, HandKept
    <3>2. QED
      BY <3>1, SamePlace DEF Resized, ExchangeInv
  <2>4. CASE OnHand(s) /\ ~OnHand(s)'
    <3>1. \A d \in Chains : ~Passing(s, d)
      BY <2>4 DEF ExchangeInv, Placement, Apart
    <3>2. Nowhere(s)'
      BY <1>7, <2>4, <3>1 DEF Nowhere
    <3>3. QED
      BY <2>4, <3>2, PlacedNowhere DEF Resized, DrawnOn
  <2>5. QED
    BY <2>1, <2>2, <2>3, <2>4
<1>11. ASSUME BindRefused(c), alive' = alive \/ alive' = alive \cup {n},
              UNCHANGED recycled,
              NEW s \in Surfaces
       PROVE  Placement(s)' /\ Resized(s, c)
  <2>1. PICK b \in Surfaces : b = bound
    BY <1>11 DEF BindRefused, ExchangeInv, TypeOK, OptSurface
  <2>2. OnHand(b) /\ ~OnHand(b)' /\ \A t \in Surfaces \ {b} : HandKept(t)
    BY <1>11, <2>1, HandRefused
  <2>3. CASE s = n \/ s = b
    <3>1. ~OnHand(s)'
      BY <1>1, <1>2, <2>2, <2>3, KeptOnHand
    <3>2. \A d \in Chains : ~Passing(s, d)
      BY <1>2, <2>2, <2>3 DEF ExchangeInv, Placement, Apart
    <3>3. Nowhere(s)'
      BY <1>7, <3>1, <3>2 DEF Nowhere
    <3>4. QED
      BY <2>2, <2>3, <3>3, PlacedNowhere DEF Resized, DrawnOn
  <2>4. CASE s # n /\ s # b
    <3>1. Same(s)
      BY <1>11, <2>2, <2>4 DEF Same, HandKept
    <3>2. QED
      BY <3>1, SamePlace DEF Resized, ExchangeInv
  <2>5. QED
    BY <2>3, <2>4
<1>12. \A s \in Surfaces : Placement(s)' /\ Resized(s, c)
  <2>1. CASE Exchange(c, n)
    <3>1. ~TakeFails(c)
      BY <2>1 DEF Exchange, CanTake, TakeRefused, TakeFails, TakePanics, UnbindRefused,
         IsTaken, ExchangeInv, TypeOK
    <3>2. ~BindRefused(c)
      BY <1>1, <2>1, NoSurfaceAssumption DEF Exchange, BindRefused
    <3>3. QED
      BY <2>1, <3>1, <3>2, <1>9
  <2>2. CASE ~Exchange(c, n)
    BY <2>2, <1>10, <1>11 DEF ResizeTo
  <2>3. QED
    BY <2>1, <2>2
<1>13. QED
  BY <1>3, <1>4, <1>6, <1>12, ResizeStep

LEMMA ResizeResizes ==
    ASSUME ExchangeInv, NEW c \in Chains, Resize(c)
    PROVE  ExchangeInv' /\ Abstract!Resize(c)
<1>1. TypeOK' /\ MayCall(c) /\ UNCHANGED <<pending, retired, held, texture>>
  BY ResizeType DEF ExchangeInv, Resize
<1>2. CASE \E n \in Free, z \in Sizes : ResizeTo(c, n, z)
  BY <1>1, <1>2, ResizeToResizes
<1>3. CASE UNCHANGED <<bound, back, detached, recycled, alive>>
  <2>1. \A s \in Surfaces : Same(s)
    BY <1>1, <1>3 DEF Same
  <2>2. \A s \in Surfaces : Placement(s)' /\ Resized(s, c)
    BY <2>1, SamePlace DEF ExchangeInv, Resized
  <2>3. OpenStays /\ RetiredExist' /\ Listed' /\ back[c] # "Absent"
    BY <1>1, <1>3, OpenKept DEF ExchangeInv, Listed, MayCall
  <2>4. QED
    BY <1>1, <2>2, <2>3, ResizeStep
<1>4. QED
  BY <1>2, <1>3 DEF Resize

-----------------------------------------------------------------------------
(* Swap. *)

LEMMA PoolOnce ==
    ASSUME ExchangeInv, NEW c \in Chains
    PROVE  /\ Pool(c) \in Seq(Surfaces)
           /\ IsInjective(Pool(c))
           /\ Range(Pool(c)) = Range(recycled[c]) \cup ({pending[c]} \ {NoSurface})
<1>1. Pool(c) \in Seq(Surfaces) /\ recycled[c] \in Seq(Surfaces)
/\ IsInjective(recycled[c])
  BY PoolType DEF ExchangeInv, TypeOK, Listed
<1>2. CASE pending[c] = NoSurface
  BY <1>1, <1>2 DEF Pool
<1>3. CASE pending[c] # NoSurface
  <2>1. PICK p \in Surfaces : p = pending[c]
    BY <1>3 DEF ExchangeInv, TypeOK, OptSurface
  <2>2. p \notin Range(recycled[c])
    BY <2>1 DEF ExchangeInv, Placement, OncePassing
  <2>3. /\ Range(Append(recycled[c], p)) = Range(recycled[c]) \cup {p}
        /\ IsInjective(Append(recycled[c], p))
    BY <1>1, <2>2, AppendRange, AppendOnce
  <2>4. QED
    BY <1>1, <1>3, <2>1, <2>3 DEF Pool
<1>4. QED
  BY <1>2, <1>3

LEMMA PoolPasses ==
    ASSUME ExchangeInv, NEW c \in Chains, NEW s \in Surfaces, s \in Range(Pool(c))
    PROVE  /\ ~OnHand(s) /\ s \in alive /\ s \notin held[c]
           /\ pending[c] = s \/ s \in Range(recycled[c])
           /\ \A d \in Chains \ {c} : ~Passing(s, d)
<1>1. pending[c] = s \/ s \in Range(recycled[c])
  BY PoolOnce
<1>2. Passing(s, c) /\ Placement(s)
  BY <1>1 DEF Passing, ExchangeInv
<1>3. QED
  BY <1>1, <1>2 DEF Placement, Apart, OncePassing, Nowhere

\* A surface in a swap of c that takes n out of the pool, if it is there.
Swapped(s, c, n) ==
    \/ Same(s)
    \/ DrawnOn(s)
    \/ OnHand(s) /\ pending'[c] = s
    \/ pending[c] = s /\ s \in Range(recycled'[c])
    \/ /\ s = n
       /\ pending[c] = s \/ s \in Range(recycled[c])
       /\ OnHand(s)' \/ Nowhere(s)'

LEMMA SwapStep ==
    ASSUME ExchangeInv, TypeOK', Listed', RetiredExist', OpenStays,
           NEW c \in Chains, back[c] # "Absent", NEW n,
           \A s \in Surfaces : /\ Placement(s)' /\ Swapped(s, c, n)
                               /\ pending[c] = s => pending'[c] # s
    PROVE  ExchangeInv' /\ Abstract!Swap(c)
<1> DEFINE Ways == Abstract!Creates \cup Abstract!Disposes \cup
             {<<Abstract!Drawn, Abstract!Front(c)>>, <<Abstract!Front(c),
                  Abstract!Pool(c)>>,
              <<Abstract!Front(c), Abstract!Drawn>>, <<Abstract!Pool(c), Abstract!Drawn>>,
              <<Abstract!Front(c), Abstract!Lost>>, <<Abstract!Pool(c), Abstract!Lost>>,
              <<Abstract!Front(c), Abstract!Gone>>, <<Abstract!Pool(c), Abstract!Gone>>}
<1>1. ExchangeInv'
  BY DEF ExchangeInv
<1>2. \A s \in Surfaces : PlaceAgrees(s) /\ PlaceAgrees(s)'
  BY PlacesAgree, PlacesAgreeNext DEF ExchangeInv
<1>3. ASSUME NEW s \in Surfaces
      PROVE  \/ PlaceOf(s)' = PlaceOf(s)
             \/ <<PlaceOf(s), PlaceOf(s)'>> \in Ways
  <2>1. CASE Same(s)
    BY <2>1, SamePlace
  <2>2. CASE DrawnOn(s)
    <3>1. \/ PlaceOf(s)' = PlaceOf(s)
          \/ <<PlaceOf(s), PlaceOf(s)'>> \in Abstract!Creates \cup Abstract!Disposes
      BY <2>2, DrawnOnMoves DEF ExchangeInv
    <3>2. QED
      BY <3>1
  <2>3. CASE OnHand(s) /\ pending'[c] = s
    <3>1. PlaceOf(s) = Abstract!Drawn /\ PlaceOf(s)' = Abstract!Front(c)
      BY <1>2, <2>3 DEF PlaceAgrees
    <3>2. QED
      BY <3>1
  <2>4. CASE pending[c] = s /\ s \in Range(recycled'[c])
    <3>1. PlaceOf(s) = Abstract!Front(c) /\ PlaceOf(s)' = Abstract!Pool(c)
      BY <1>2, <2>4 DEF PlaceAgrees
    <3>2. QED
      BY <3>1
  <2>5. CASE /\ pending[c] = s \/ s \in Range(recycled[c])
             /\ OnHand(s)' \/ Nowhere(s)'
    <3>1. /\ PlaceOf(s) \in {Abstract!Front(c), Abstract!Pool(c)}
          /\ PlaceOf(s)' \in {Abstract!Drawn, Abstract!Lost, Abstract!Gone}
      BY <1>2, <2>5 DEF PlaceAgrees
    <3>2. QED
      BY <3>1
  <2>6. QED
    BY <2>1, <2>2, <2>3, <2>4, <2>5 DEF Swapped
<1>4. Abstract!Moves(Ways)
  <2> HIDE DEF Ways
  <2>1. QED
    BY <1>1, <1>3, MovesAlong DEF ExchangeInv
<1>5. \A s, t \in {x \in Surfaces : /\ PlaceOf(x) # Abstract!Front(c)
                                    /\ PlaceOf(x)' = Abstract!Front(c)} : s = t
  BY <1>2 DEF PlaceAgrees
<1>6. \A s \in Abstract!InFront(c) : PlaceOf(s)' # Abstract!Front(c)
  BY <1>2 DEF Abstract!InFront, PlaceAgrees
<1>7. ASSUME NEW s \in Surfaces, PlaceOf(s) \in {Abstract!Front(c), Abstract!Pool(c)},
             PlaceOf(s)' \notin {Abstract!Front(c), Abstract!Pool(c)}
      PROVE  s = n
  <2>1. ~Same(s)
    BY <1>7, SamePlace
  <2>2. pending[c] = s \/ s \in Range(recycled[c])
    BY <1>2, <1>7 DEF PlaceAgrees
  <2>3. ~OnHand(s) /\ ~Nowhere(s)
    BY <2>2 DEF ExchangeInv, Placement, Apart, Passing, Nowhere
  <2>4. ~DrawnOn(s)
    BY <2>3, FreeNowhere DEF DrawnOn, ExchangeInv
  <2>5. s \notin Range(recycled'[c])
    BY <1>2, <1>7 DEF PlaceAgrees
  <2>6. QED
    BY <2>1, <2>3, <2>4, <2>5 DEF Swapped
<1>8. /\ c \in {d \in Chains : back[d] # "Absent"}
      /\ {d \in Chains : back[d] # "Absent"}' = {d \in Chains : back[d] # "Absent"}
  BY DEF OpenStays
<1> DEFINE placed == [s \in Surfaces |-> PlaceOf(s)]
<1>9. Abstract!Single({s \in Surfaces : /\ placed[s] # Abstract!Front(c)
                                        /\ placed'[s] = Abstract!Front(c)})
  BY <1>5 DEF Abstract!Single
<1>10. \A s \in Abstract!InFront(c) : placed'[s] # Abstract!Front(c)
  BY <1>6 DEF Abstract!InFront
<1>11. Abstract!Single({s \in Surfaces :
                          /\ placed[s] \in {Abstract!Front(c), Abstract!Pool(c)}
                          /\ placed'[s] \notin {Abstract!Front(c), Abstract!Pool(c)}})
  BY <1>7 DEF Abstract!Single
<1>12. QED
  BY <1>1, <1>4, <1>8, <1>9, <1>10, <1>11 DEF Abstract!Swap

LEMMA SwapInSwaps ==
    ASSUME ExchangeInv, TypeOK', NEW c \in Chains, MayCall(c),
           NEW n \in Surfaces, n \in Free \/ n \in Range(Pool(c)),
           NEW rest \in Seq(Surfaces), IsInjective(rest),
           Range(rest) = Range(Pool(c)) \ {n},
           SwapIn(c, n, rest), UNCHANGED <<retired, held, texture>>
    PROVE  ExchangeInv' /\ Abstract!Swap(c)
<1>1. /\ ~OnHand(n) /\ n \notin held[c]
      /\ \A d \in Chains \ {c} : ~Passing(n, d)
      /\ n \in Free \/ pending[c] = n \/ n \in Range(recycled[c])
  BY FreeNowhere, PoolPasses DEF Nowhere, Passing, ExchangeInv
<1>2. /\ recycled \in [Chains -> Seq(Surfaces)] /\ pending \in [Chains -> OptSurface]
      /\ recycled' = [recycled EXCEPT ![c] = rest]
      /\ pending' = [pending EXCEPT ![c] = pending'[c]]
  BY DEF ExchangeInv, TypeOK, SwapIn
<1>3. back[c] # "Absent"
  BY DEF MayCall
<1>4. OpenStays /\ RetiredExist'
  BY <1>3, OpenExchange DEF SwapIn
<1>5. Listed'
  BY <1>2 DEF ExchangeInv, Listed
<1>6. \A s \in Surfaces, d \in Chains \ {c} : Passing(s, d)' <=> Passing(s, d)
  BY <1>2 DEF Passing
<1>7. /\ Range(recycled'[c]) = Range(Pool(c)) \ {n}
      /\ Range(Pool(c)) = Range(recycled[c]) \cup ({pending[c]} \ {NoSurface})
  BY <1>2, PoolOnce
\* What holds of every surface but those that the call has in hand.
<1>8. ASSUME NEW s \in Surfaces, HandKept(s), s # n, s \in alive' <=> s \in alive,
             pending'[c] # s
      PROVE  Placement(s)' /\ Swapped(s, c, n)
  <2>1. CASE pending[c] = s
    <3>1. /\ s \in Range(Pool(c))
          /\ s \in Range(recycled'[c])
      BY <1>7, <1>8, <2>1, NoSurfaceAssumption
    <3>2. /\ ~OnHand(s) /\ s \in alive /\ s \notin held[c]
          /\ \A d \in Chains \ {c} : ~Passing(s, d)
      BY <3>1, PoolPasses
    <3>3. ~OnHand(s)' /\ \A d \in Chains \ {c} : ~Passing(s, d)'
      BY <1>6, <1>8, <3>2, KeptOnHand
    <3>4. QED
      BY <1>8, <2>1, <3>1, <3>2, <3>3, PlacedPassing DEF Swapped
  <2>2. CASE pending[c] # s
    <3>1. s \in Range(recycled'[c]) <=> s \in Range(recycled[c])
      BY <1>7, <1>8, <2>2
    <3>2. Same(s)
      BY <1>2, <1>8, <2>2, <3>1 DEF Same, HandKept
    <3>3. QED
      BY <3>2, SamePlace DEF Swapped, ExchangeInv
  <2>3. QED
    BY <2>1, <2>2
\* The new back buffer, if it comes into no other hand.
<1>9. ASSUME pending'[c] # n
      PROVE  \A d \in Chains : ~Passing(n, d)'
  BY <1>1, <1>6, <1>7, <1>9 DEF Passing
<1>10. ASSUME pending'[c] # n, Nowhere(n)'
       PROVE  Placement(n)' /\ Swapped(n, c, n)
  BY <1>1, <1>10, PlacedNowhere DEF Swapped, DrawnOn
<1>11. ASSUME Exchange(c, n), pending' = [pending EXCEPT ![c] = BackSurface(c)],
              alive' = alive \cup {n}, NEW s \in Surfaces
       PROVE  /\ Placement(s)' /\ Swapped(s, c, n)
              /\ pending[c] = s => pending'[c] # s
  <2>1. PICK b \in Surfaces : b = BackSurface(c)
    BY <1>11, BackSurfaceHeld DEF Exchange, ExchangeInv
  <2>2. /\ OnHand(n)' /\ OnceOnHand(n)'
        /\ OnHand(b) /\ ~OnHand(b)'
        /\ \A t \in Surfaces \ {n, b} : HandKept(t)
    BY <1>1, <1>11, <2>1, HandsExchanged
  <2>3. pending'[c] = b /\ b # n
    BY <1>1, <1>2, <1>11, <2>1, <2>2
  <2>4. b \in alive /\ \A d \in Chains : ~Passing(b, d)
    BY <2>2 DEF ExchangeInv, Placement, Apart, Nowhere
  <2>5. pending[c] # b /\ b \notin held[c] /\ b \notin Range(recycled[c])
    BY <2>4 DEF Passing
  <2>6. CASE s = n
    <3>1. \A d \in Chains : ~Passing(n, d)'
      BY <1>9, <2>3
    <3>2. QED
      BY <1>1, <1>11, <2>2, <2>3, <2>6, <3>1, PlacedOnHand DEF Swapped, DrawnOn
  <2>7. CASE s = b
    <3>1. b \notin Range(recycled'[c]) /\ b \notin held'[c] /\ b \in alive'
      BY <1>7, <1>11, <2>4, <2>5
    <3>2. \A d \in Chains \ {c} : ~Passing(b, d)'
      BY <1>6, <2>4
    <3>3. QED
      BY <2>2, <2>3, <2>5, <2>7, <3>1, <3>2, PlacedPassing DEF Swapped
  <2>8. CASE s # n /\ s # b
    BY <1>8, <1>11, <2>2, <2>3, <2>8
  <2>9. QED
    BY <2>6, <2>7, <2>8
<1>12. ASSUME TakeFails(c),
              pending' = [pending EXCEPT ![c] = NoSurface],
              alive' = alive \cup {n}, NEW s \in Surfaces
       PROVE  /\ Placement(s)' /\ Swapped(s, c, n)
              /\ pending[c] = s => pending'[c] # s
  <2>1. \A t \in Surfaces : pending'[c] # t
    BY <1>2, <1>12, NoSurfaceAssumption
  <2>2. \A t \in Surfaces : HandKept(t) \/ (OnHand(t) /\ ~OnHand(t)')
    BY <1>12, HandWithheld
  <2>3. Nowhere(n)'
    BY <1>1, <1>9, <2>1, <2>2, KeptOnHand DEF Nowhere
  <2>4. CASE OnHand(s) /\ ~OnHand(s)'
    <3>1. \A d \in Chains : ~Passing(s, d)
      BY <2>4 DEF ExchangeInv, Placement, Apart
    <3>2. s \notin Range(recycled'[c]) /\ s \notin held[c] /\ pending[c] # s
      BY <1>7, <3>1 DEF Passing
    <3>3. \A d \in Chains : ~Passing(s, d)'
      BY <1>6, <2>1, <3>1, <3>2 DEF Passing
    <3>4. Nowhere(s)'
      BY <2>4, <3>3 DEF Nowhere
    <3>5. QED
      BY <2>1, <2>4, <3>4, PlacedNowhere DEF Swapped, DrawnOn
  <2>5. CASE s = n
    BY <1>10, <2>1, <2>3, <2>5
  <2>6. CASE s # n /\ HandKept(s)
    BY <1>8, <1>12, <2>1, <2>6
  <2>7. QED
    BY <2>1, <2>2, <2>4, <2>5, <2>6
<1>13. ASSUME BindRefused(c), pending' = [pending EXCEPT ![c] = NoSurface],
              alive' = alive \ {n} \/ alive' = alive \cup {n}, NEW s \in Surfaces
       PROVE  /\ Placement(s)' /\ Swapped(s, c, n)
              /\ pending[c] = s => pending'[c] # s
  <2>1. PICK b \in Surfaces : b = bound
    BY <1>13 DEF BindRefused, ExchangeInv, TypeOK, OptSurface
  <2>2. OnHand(b) /\ ~OnHand(b)' /\ \A t \in Surfaces \ {b} : HandKept(t)
    BY <1>13, <2>1, HandRefused
  <2>3. \A t \in Surfaces : pending'[c] # t
    BY <1>2, <1>13, NoSurfaceAssumption
  <2>4. Nowhere(n)'
    BY <1>1, <1>9, <2>2, <2>3, KeptOnHand DEF Nowhere
  <2>5. CASE s = b
    <3>1. \A d \in Chains : ~Passing(b, d)
      BY <2>2 DEF ExchangeInv, Placement, Apart
    <3>2. b \notin Range(recycled'[c]) /\ b \notin held[c]
      BY <1>7, <3>1 DEF Passing
    <3>3. \A d \in Chains : ~Passing(b, d)'
      BY <1>6, <2>3, <3>1, <3>2 DEF Passing
    <3>4. Nowhere(s)'
      BY <2>2, <2>5, <3>3 DEF Nowhere
    <3>5. QED
      BY <2>2, <2>3, <2>5, <3>4, PlacedNowhere DEF Swapped, DrawnOn
  <2>6. CASE s # b
    BY <1>8, <1>10, <1>13, <2>2, <2>3, <2>4, <2>6
  <2>7. QED
    BY <2>5, <2>6
<1>14. \A s \in Surfaces : /\ Placement(s)' /\ Swapped(s, c, n)
                           /\ pending[c] = s => pending'[c] # s
  BY <1>11, <1>12, <1>13 DEF SwapIn
<1>15. QED
  BY <1>3, <1>4, <1>5, <1>14, SwapStep

LEMMA SwapSwaps ==
    ASSUME ExchangeInv, NEW c \in Chains, SwapBuffers(c)
    PROVE  ExchangeInv' /\ Abstract!Swap(c)
<1>1. TypeOK' /\ MayCall(c) /\ UNCHANGED <<retired, held, texture>>
  BY SwapType DEF ExchangeInv, SwapBuffers
<1>2. Pool(c) \in Seq(Surfaces) /\ IsInjective(Pool(c))
  BY PoolOnce
<1>3. CASE \E i \in FirstFit(c) : SwapIn(c, Pool(c)[i], SwapRemove(Pool(c), i))
  <2>1. PICK i \in 1..Len(Pool(c)) : SwapIn(c, Pool(c)[i], SwapRemove(Pool(c), i))
    BY <1>3 DEF FirstFit
  <2> DEFINE n == Pool(c)[i]
             rest == SwapRemove(Pool(c), i)
  <2>2. n \in Surfaces /\ n \in Range(Pool(c))
    BY <1>2, ElementOfSeq, LenProperties DEF Range
  <2>3. rest \in Seq(Surfaces) /\ IsInjective(rest) /\ Range(rest) = Range(Pool(c)) \ {n}
    BY <1>2, SwapRemoveType, SwapRemoveRange, SwapRemoveCovers, SwapRemoveOnce
  <2> HIDE DEF n, rest
  <2>4. SwapIn(c, n, rest)
    BY <2>1 DEF n, rest
  <2>5. QED
    BY <1>1, <2>2, <2>3, <2>4, SwapInSwaps
<1>4. CASE \E n \in Free : SwapIn(c, n, Pool(c))
  <2>1. PICK n \in Free : SwapIn(c, n, Pool(c))
    BY <1>4
  <2>2. n \in Surfaces /\ n \notin alive
    BY FreeNowhere DEF ExchangeInv
  <2>3. n \notin Range(Pool(c))
    BY <2>2, PoolPasses
  <2>4. QED
    BY <1>1, <1>2, <2>1, <2>2, <2>3, SwapInSwaps
<1>5. CASE /\ recycled' = [recycled EXCEPT ![c] = Pool(c)]
           /\ pending' = [pending EXCEPT ![c] = NoSurface]
           /\ UNCHANGED <<bound, back, detached, alive>>
  <2>1. /\ recycled \in [Chains -> Seq(Surfaces)] /\ pending \in [Chains -> OptSurface]
        /\ Range(Pool(c)) = Range(recycled[c]) \cup ({pending[c]} \ {NoSurface})
    BY PoolOnce DEF ExchangeInv, TypeOK
  <2>2. Listed' /\ OpenStays /\ RetiredExist' /\ back[c] # "Absent"
    BY <1>1, <1>2, <1>5, <2>1, OpenKept DEF ExchangeInv, Listed, MayCall
  <2>3. ASSUME NEW s \in Surfaces
        PROVE  /\ Placement(s)' /\ Swapped(s, c, NoSurface)
               /\ pending[c] = s => pending'[c] # s
    <3>1. CASE pending[c] = s
      <4>1. s \in Range(Pool(c)) /\ s \in Range(recycled'[c]) /\ pending'[c] # s
        BY <1>5, <2>1, <3>1, NoSurfaceAssumption
      <4>2. /\ ~OnHand(s) /\ s \in alive /\ s \notin held[c]
            /\ \A d \in Chains \ {c} : ~Passing(s, d)
        BY <4>1, PoolPasses
      <4>3. ~OnHand(s)' /\ \A d \in Chains \ {c} : ~Passing(s, d)'
        BY <1>1, <1>5, <2>1, <4>2 DEF OnHand, Passing
      <4>4. QED
        BY <1>1, <1>5, <3>1, <4>1, <4>2, <4>3, PlacedPassing DEF Swapped
    <3>2. CASE pending[c] # s
      <4>1. Same(s)
        BY <1>1, <1>5, <2>1, <3>2, NoSurfaceAssumption DEF Same
      <4>2. QED
        BY <3>2, <4>1, SamePlace DEF Swapped, ExchangeInv
    <3>3. QED
      BY <3>1, <3>2
  <2>4. QED
    BY <1>1, <2>2, <2>3, SwapStep
<1>6. QED
  BY <1>3, <1>4, <1>5 DEF SwapBuffers

-----------------------------------------------------------------------------
(* The refinement. *)

LEMMA ExchangeInit == Init => ExchangeInv /\ Abstract!Init
<1> SUFFICES ASSUME Init
             PROVE  ExchangeInv /\ Abstract!Init
  OBVIOUS
<1>1. TypeOK /\ Listed /\ RetiredExist
  BY TypeInit, EmptyOnce DEF Init, Listed, RetiredExist
<1>2. ASSUME NEW s \in Surfaces
      PROVE  Nowhere(s) /\ s \notin alive
  BY EmptyOnce, NoSurfaceAssumption DEF Init, Nowhere, OnHand, Passing
<1>3. ASSUME NEW s \in Surfaces
      PROVE  Placement(s) /\ PlaceOf(s) = Abstract!Gone
  <2>1. Placement(s)
    BY <1>2 DEF Placement, OnceOnHand, OncePassing, Apart, Nowhere, OnHand, Passing
  <2>2. QED
    BY <1>2, <2>1, PlaceWhenNowhere
<1>4. {c \in Chains : back[c] # "Absent"} = {}
  BY DEF Init
<1>5. QED
  BY <1>1, <1>3, <1>4 DEF ExchangeInv, Abstract!Init

LEMMA ExchangeStep ==
    ASSUME ExchangeInv, [Next]_vars
    PROVE  ExchangeInv' /\ [Abstract!Next]_Abstract!vars
<1>1. CASE UNCHANGED vars
  <2>1. \A s \in Surfaces : Same(s)
    BY <1>1 DEF vars, chainVars, Same
  <2>2. TypeOK'
    BY TypeNext DEF ExchangeInv
  <2>3. ExchangeInv'
    BY <1>1, <2>1, <2>2, SamePlace DEF vars, chainVars, ExchangeInv, Listed, RetiredExist
  <2>4. [s \in Surfaces |-> PlaceOf(s)]' = [s \in Surfaces |-> PlaceOf(s)]
    BY <2>1, SamePlace
  <2>5. {c \in Chains : back[c] # "Absent"}' = {c \in Chains : back[c] # "Absent"}
    BY <1>1 DEF vars, chainVars
  <2>6. QED
    BY <2>3, <2>4, <2>5 DEF Abstract!vars
<1>2. CASE BindFirstSurface
  BY <1>2, BindFirstDraws DEF Abstract!Next
<1>3. ASSUME NEW c \in Chains, Producer(c)
      PROVE  ExchangeInv' /\ Abstract!Next
  <2>1. CASE CreateAttached(c) \/ CreateDetached(c)
    BY <2>1, CreateOpens DEF Abstract!Next
  <2>2. CASE SwapBuffers(c)
    BY <2>2, SwapSwaps DEF Abstract!Next
  <2>3. CASE Resize(c)
    BY <2>3, ResizeResizes DEF Abstract!Next
  <2>4. CASE \E d \in Chains : TakeAttachmentFrom(c, d)
    BY <2>4, TakeAttachmentDraws DEF Abstract!Next
  <2>5. CASE TakeSurfaceTexture(c)
    BY <2>5, TakeTextureDraws DEF Abstract!Next
  <2>6. CASE RecycleSurfaceTexture(c)
    BY <2>6, RecycleTextureDraws DEF Abstract!Next
  <2>7. CASE ClearSurface(c)
    BY <2>7, ClearDraws DEF Abstract!Next
  <2>8. CASE Destroy(c)
    BY <2>8, DestroyCloses DEF Abstract!Next
  <2>9. CASE IncompatibleContext(c)
    <3>1. UNCHANGED <<bound, chainVars, surfaceSize, alive>>
      BY <2>9 DEF IncompatibleContext
    <3>2. \A s \in Surfaces : Handled(s)
      BY <3>1 DEF chainVars, Same, Handled
    <3>3. TypeOK'
      BY <1>3, TypeNext DEF ExchangeInv, Next
    <3>4. OpenStays /\ RetiredExist'
      BY <3>1, OpenKept DEF chainVars
    <3>5. ExchangeInv' /\ Abstract!Draw
      BY <3>1, <3>2, <3>3, <3>4, DrawStep DEF chainVars
    <3>6. QED
      BY <3>5 DEF Abstract!Next
  <2>10. QED
    BY <1>3, <2>1, <2>2, <2>3, <2>4, <2>5, <2>6, <2>7, <2>8, <2>9 DEF Producer
<1>4. ASSUME NEW c \in Chains, Consumer(c)
      PROVE  ExchangeInv' /\ Abstract!Next
  <2>1. CASE TakeSurface(c) \/ TakePendingSurface(c)
    BY <2>1, TakesStep DEF Abstract!Next
  <2>2. CASE RecycleSurface(c)
    BY <2>2, RecycleReturns DEF Abstract!Next
  <2>3. QED
    BY <1>4, <2>1, <2>2 DEF Consumer
<1>5. ASSUME NEW c \in Chains, DropChain(c)
      PROVE  ExchangeInv' /\ Abstract!Next
  BY <1>5, DropDrops DEF Abstract!Next
<1>6. QED
  BY <1>1, <1>2, <1>3, <1>4, <1>5 DEF Next

\* Every surface is in one slot, list or hand at most, and is not destroyed while
\* it is there, whichever calls fail or are misused (chains.rs, SwapChainData).
THEOREM OnePlaceEach == Spec => []ExchangeInv
<1>1. Init => ExchangeInv
  BY ExchangeInit
<1>2. ExchangeInv /\ [Next]_vars => ExchangeInv'
  BY ExchangeStep
<1>3. QED
  BY <1>1, <1>2, PTL DEF Spec

\* The swap chains implement SurfaceExchange: whatever fails, and whichever of the calls
\* in Misuses are made in whatever order, a surface moves only as the protocol of chains.rs
\* foresees, and no call of the producer's reaches a surface that a consumer holds.
THEOREM SurfacesAreExchanged == Spec => ImplementsExchange
<1>1. Init => Abstract!Init
  BY ExchangeInit
<1>2. ExchangeInv /\ [Next]_vars => [Abstract!Next]_Abstract!vars
  BY ExchangeStep
<1>3. QED
  BY <1>1, <1>2, OnePlaceEach, PTL DEF Spec, ImplementsExchange, Abstract!Spec

-----------------------------------------------------------------------------
(* No call loses a surface and returns Ok. *)

LEMMA NowhereUnplaced ==
    ASSUME NEW s \in Surfaces
    PROVE  Nowhere(s) <=> s \notin Placed
<1>1. s # NoSurface
  BY NoSurfaceAssumption
<1>2. (\E c \in Chains : s \in OwnedBy(c)) <=>
         (\E c \in Chains : detached[c] = s \/ texture[c] = s \/ Passing(s, c))
  BY <1>1 DEF OwnedBy, Passing
<1>3. QED
  BY <1>1, <1>2 DEF Placed, Nowhere, OnHand

LEMMA NowhereUnplacedNext == \A s \in Surfaces : Nowhere(s)' <=> s \notin Placed'
<1>1. \A s \in Surfaces : Nowhere(s) <=> s \notin Placed
  BY NowhereUnplaced
<1>2. (\A s \in Surfaces : Nowhere(s) <=> s \notin Placed)'
  BY <1>1, PTL
<1>3. QED
  BY <1>2

\* s is not lost by the step, or was lost before.
NotLost(s) == s \in alive' /\ Nowhere(s)' => s \in alive /\ Nowhere(s)

LEMMA SwapLosesNone ==
    ASSUME ExchangeInv, NEW c \in Chains, SwapBuffers(c), result' = "ok",
           NEW s \in Surfaces
    PROVE  NotLost(s)
<1> SUFFICES ASSUME s \in alive', Nowhere(s)'
             PROVE  s \in alive /\ Nowhere(s)
  BY DEF NotLost
<1>1. UNCHANGED <<held, texture>>
  BY DEF SwapBuffers
<1>2. ASSUME NEW n \in Surfaces, n \in Free \/ n \in Range(Pool(c)),
             NEW rest, Range(Pool(c)) \subseteq {n} \cup Range(rest),
             SwapIn(c, n, rest)
      PROVE  s \in alive /\ Nowhere(s)
  <2>1. /\ Exchange(c, n)
        /\ pending' = [pending EXCEPT ![c] = BackSurface(c)]
        /\ recycled' = [recycled EXCEPT ![c] = rest]
        /\ alive' = alive \cup {n}
    BY <1>2 DEF SwapIn, TakeFails
  <2>2. PICK b \in Surfaces : b = BackSurface(c)
    BY <2>1, BackSurfaceHeld DEF Exchange, ExchangeInv
  <2>3. ~OnHand(n)
    BY <1>2, FreeNowhere, PoolPasses DEF Nowhere, ExchangeInv
  <2>4. OnHand(n)' /\ \A t \in Surfaces \ {n, b} : HandKept(t)
    BY <1>1, <2>1, <2>2, <2>3, HandsExchanged
  <2>5. /\ recycled \in [Chains -> Seq(Surfaces)] /\ pending \in [Chains -> OptSurface]
        /\ Range(Pool(c)) = Range(recycled[c]) \cup ({pending[c]} \ {NoSurface})
    BY PoolOnce DEF ExchangeInv, TypeOK
  <2>6. s # n /\ s # b
    BY <2>1, <2>2, <2>4, <2>5 DEF Nowhere, Passing
  <2>7. ~OnHand(s)
    BY <2>4, <2>6, KeptOnHand DEF Nowhere
  <2>8. ASSUME NEW d \in Chains
        PROVE  ~Passing(s, d)
    <3>1. CASE d = c
      <4>1. s \notin Range(rest) /\ s \notin held[c]
        BY <1>1, <2>1, <2>5 DEF Nowhere, Passing
      <4>2. s \notin Range(Pool(c))
        BY <1>2, <2>6, <4>1
      <4>3. QED
        BY <2>5, <3>1, <4>1, <4>2, NoSurfaceAssumption DEF Passing
    <3>2. CASE d # c
      BY <1>1, <2>1, <2>5, <3>2 DEF Nowhere, Passing
    <3>3. QED
      BY <3>1, <3>2
  <2>9. QED
    BY <2>1, <2>6, <2>7, <2>8 DEF Nowhere
<1>3. CASE \E i \in FirstFit(c) : SwapIn(c, Pool(c)[i], SwapRemove(Pool(c), i))
  <2>1. PICK i \in 1..Len(Pool(c)) : SwapIn(c, Pool(c)[i], SwapRemove(Pool(c), i))
    BY <1>3 DEF FirstFit
  <2>2. /\ Pool(c) \in Seq(Surfaces)
        /\ Pool(c)[i] \in Surfaces /\ Pool(c)[i] \in Range(Pool(c))
    BY PoolOnce, ElementOfSeq, LenProperties DEF Range
  <2>3. Range(Pool(c)) \subseteq {Pool(c)[i]} \cup Range(SwapRemove(Pool(c), i))
    BY <2>2, SwapRemoveCovers
  <2>4. QED
    BY <1>2, <2>1, <2>2, <2>3
<1>4. CASE \E n \in Free : SwapIn(c, n, Pool(c))
  BY <1>2, <1>4 DEF Free
<1>5. QED
  BY <1>3, <1>4 DEF SwapBuffers

LEMMA ResizeLosesNone ==
    ASSUME ExchangeInv, NEW c \in Chains, Resize(c), result' = "ok", NEW s \in Surfaces
    PROVE  NotLost(s)
<1>1. PICK n \in Free :
          /\ Exchange(c, n)
          /\ alive' = (alive \cup {n}) \ ({BackSurface(c)} \cup Range(recycled[c]))
          /\ recycled' = [recycled EXCEPT ![c] = <<>>]
  BY DEF Resize, ResizeTo, TakeFails, BindRefused, Drained
<1>2. PICK b \in Surfaces : b = BackSurface(c)
  BY <1>1, BackSurfaceHeld DEF Exchange, ExchangeInv
<1>3. /\ n \in Surfaces /\ ~OnHand(n)
      /\ UNCHANGED <<pending, held, texture>>
      /\ recycled \in [Chains -> Seq(Surfaces)]
  BY FreeNowhere DEF Nowhere, ExchangeInv, TypeOK, Resize
<1>4. OnHand(n)' /\ \A t \in Surfaces \ {n, b} : HandKept(t)
  BY <1>1, <1>2, <1>3, HandsExchanged
<1>5. ASSUME s \in alive', Nowhere(s)'
      PROVE  s \in alive /\ Nowhere(s)
  <2>1. s # n /\ s # b /\ s \notin Range(recycled[c]) /\ s \in alive
    BY <1>1, <1>2, <1>4, <1>5 DEF Nowhere
  <2>2. ~OnHand(s)
    BY <1>4, <1>5, <2>1, KeptOnHand DEF Nowhere
  <2>3. \A d \in Chains : ~Passing(s, d)
    BY <1>1, <1>3, <1>5, <2>1 DEF Nowhere, Passing
  <2>4. QED
    BY <2>1, <2>2, <2>3 DEF Nowhere
<1>6. QED
  BY <1>5 DEF NotLost

\* destroy loses none but the back buffer that the context does not give up.
LEMMA DestroyLosesOne ==
    ASSUME ExchangeInv, NEW c \in Chains, Destroy(c), result' = "ok", NEW s \in Surfaces
    PROVE  NotLost(s) \/ (back[c] = "Attached" /\ s = bound)
<1> USE NoSurfaceAssumption
<1>1. /\ detached \in [Chains -> OptSurface] /\ pending \in [Chains -> OptSurface]
      /\ recycled \in [Chains -> Seq(Surfaces)]
      /\ back[c] # "Detached" => detached[c] = NoSurface
  BY DEF ExchangeInv, TypeOK
<1>2. PICK rear \in Seq(Surfaces) :
          /\ \/ /\ CanTake(c) /\ rear = <<BackSurface(c)>>
                /\ bound' = IF back[c] = "Attached" THEN NoSurface ELSE bound
                /\ detached' = [detached EXCEPT ![c] = NoSurface]
             \/ TakeRefused(c) \/ UnbindRefused(c)
          /\ recycled' = [recycled EXCEPT ![c] = <<>>]
          /\ DestroyInOrder(Doomed(c, rear))
  BY RearType DEF Destroy, Drained, ExchangeInv
<1>3. /\ alive' = alive \ Range(Doomed(c, rear))
      /\ pending' = [pending EXCEPT ![c] = NoSurface]
      /\ UNCHANGED <<held, texture>>
  BY <1>2 DEF Destroy, DestroyInOrder
<1> SUFFICES ASSUME ~(back[c] = "Attached" /\ s = bound)
             PROVE  NotLost(s)
  OBVIOUS
<1>4. ASSUME s \in alive', Nowhere(s)'
      PROVE  s \in alive /\ Nowhere(s)
  <2>1. /\ s \in alive /\ s # pending[c]
        /\ s \notin Range(recycled[c]) /\ s \notin Range(rear)
    BY <1>3, <1>4, DoomedRange DEF ExchangeInv
  <2>2. bound # s /\ \A d \in Chains : detached[d] # s
    <3>1. CASE /\ CanTake(c) /\ rear = <<BackSurface(c)>>
               /\ bound' = IF back[c] = "Attached" THEN NoSurface ELSE bound
               /\ detached' = [detached EXCEPT ![c] = NoSurface]
      <4>1. s # BackSurface(c)
        BY <2>1, <3>1, RearRange
      <4>2. QED
        BY <1>1, <1>4, <3>1, <4>1 DEF CanTake, BackSurface, Nowhere, OnHand
    <3>2. CASE TakeRefused(c)
      BY <1>4, <3>2 DEF TakeRefused, Nowhere, OnHand
    <3>3. CASE UnbindRefused(c)
      BY <1>4, <3>3 DEF UnbindRefused, Nowhere, OnHand
    <3>4. QED
      BY <1>2, <3>1, <3>2, <3>3
  <2>3. ~OnHand(s)
    BY <1>3, <1>4, <2>2 DEF Nowhere, OnHand
  <2>4. \A d \in Chains : ~Passing(s, d)
    BY <1>1, <1>2, <1>3, <1>4, <2>1 DEF Nowhere, Passing
  <2>5. QED
    BY <2>1, <2>3, <2>4 DEF Nowhere
<1>5. QED
  BY <1>4 DEF NotLost

\* A call that leaves the lists alone, destroys nothing and keeps in some hand what
\* was in one.
LEMMA HandsLoseNone ==
    ASSUME UNCHANGED <<pending, recycled, held>>, NEW s \in Surfaces,
           s \in alive' => s \in alive \/ OnHand(s)',
           OnHand(s) => OnHand(s)'
    PROVE  NotLost(s)
  BY DEF NotLost, Nowhere, Passing

LEMMA DrawLosesNone ==
    ASSUME ExchangeInv, TextureKeepsSlot, NEW c \in Chains,
           \/ CreateAttached(c) \/ CreateDetached(c)
           \/ \E d \in Chains : TakeAttachmentFrom(c, d)
           \/ TakeSurfaceTexture(c) \/ RecycleSurfaceTexture(c)
           \/ ClearSurface(c) \/ IncompatibleContext(c),
           result' = "ok", NEW s \in Surfaces
    PROVE  NotLost(s)
<1> USE NoSurfaceAssumption
<1>1. /\ detached \in [Chains -> OptSurface] /\ texture \in [Chains -> OptSurface]
      /\ \A e \in Chains : back[e] # "Detached" => detached[e] = NoSurface
      /\ UNCHANGED <<pending, recycled, held>>
  BY DEF ExchangeInv, TypeOK, CreateAttached, CreateDetached, TakeAttachmentFrom,
     TakeSurfaceTexture, RecycleSurfaceTexture, ClearSurface, IncompatibleContext, chainVars
<1>2. CASE CreateAttached(c)
  BY <1>1, <1>2, HandsLoseNone DEF CreateAttached, OnHand
<1>3. CASE CreateDetached(c)
  <2>1. PICK n \in Free : /\ detached' = [detached EXCEPT ![c] = n]
                          /\ alive' = alive \cup {n}
    BY <1>3 DEF CreateDetached
  <2>2. UNCHANGED <<bound, texture>> /\ detached[c] = NoSurface
    BY <1>1, <1>3 DEF CreateDetached
  <2>3. detached'[c] = n /\ \A e \in Chains \ {c} : detached'[e] = detached[e]
    BY <1>1, <2>1
  <2>4. s \in alive' => s \in alive \/ OnHand(s)'
    BY <2>1, <2>3 DEF OnHand
  <2>5. OnHand(s) => OnHand(s)'
    BY <2>2, <2>3 DEF OnHand
  <2>6. QED
    BY <1>1, <2>4, <2>5, HandsLoseNone
<1>4. ASSUME NEW d \in Chains, TakeAttachmentFrom(c, d)
      PROVE  NotLost(s)
  <2>1. /\ c # d /\ TakeAttachmentOk(c, d)
        /\ UNCHANGED texture
    BY <1>4 DEF TakeAttachmentFrom, TakeAttachmentUnbound, TakeAttachmentHalfway,
       TakeAttachmentRefused, TakeFails
  <2>2. CASE back[c] = "Detached" /\ back[d] = "Attached"
    <3>1. /\ bound' = detached[c] /\ detached'[d] = bound /\ detached[d] = NoSurface
          /\ \A e \in Chains \ {c, d} : detached'[e] = detached[e]
          /\ UNCHANGED alive
      BY <1>1, <2>1, <2>2 DEF TakeAttachmentOk
    <3>2. OnHand(s) => OnHand(s)'
      BY <2>1, <3>1 DEF OnHand
    <3>3. QED
      BY <1>1, <3>1, <3>2, HandsLoseNone
  <2>3. CASE back[c] = "Attached" /\ back[d] = "Detached"
    <3>1. /\ bound' = detached[d] /\ detached'[c] = bound /\ detached[c] = NoSurface
          /\ \A e \in Chains \ {c, d} : detached'[e] = detached[e]
          /\ UNCHANGED alive
      BY <1>1, <2>1, <2>3 DEF TakeAttachmentOk
    <3>2. OnHand(s) => OnHand(s)'
      BY <2>1, <3>1 DEF OnHand
    <3>3. QED
      BY <1>1, <3>1, <3>2, HandsLoseNone
  <2>4. CASE back[c] = "Detached" /\ back[d] = "Detached"
    BY <1>1, <2>1, <2>4, HandsLoseNone DEF TakeAttachmentOk, OnHand
  <2>5. QED
    BY <2>1, <2>2, <2>3, <2>4 DEF TakeAttachmentOk
<1>5. CASE TakeSurfaceTexture(c)
  <2>1. /\ CanTake(c)
        /\ bound' = IF back[c] = "Attached" THEN NoSurface ELSE bound
        /\ detached' = [detached EXCEPT ![c] = NoSurface]
        /\ texture' = [texture EXCEPT ![c] = BackSurface(c)]
        /\ UNCHANGED alive
    BY <1>5 DEF TakeSurfaceTexture, TakeFails
  <2>2. /\ back[c] = "Attached" => BackSurface(c) = bound /\ detached[c] = NoSurface
        /\ back[c] # "Attached" => BackSurface(c) = detached[c]
        /\ texture[c] = NoSurface
    BY <2>1, BackSurfaceHeld DEF ExchangeInv, TextureKeepsSlot, CanTake, IsTaken
  <2>3. OnHand(s) => OnHand(s)'
    BY <1>1, <2>1, <2>2 DEF OnHand
  <2>4. QED
    BY <1>1, <2>1, <2>3, HandsLoseNone
<1>6. CASE RecycleSurfaceTexture(c)
  <2>1. PICK d \in Chains :
            /\ texture' = [texture EXCEPT ![d] = texture[c], ![c] = NoSurface]
            /\ \/ /\ bound = NoSurface /\ bound' = texture[d]
                  /\ UNCHANGED <<detached, alive>>
               \/ /\ back[c] = "TakenDetached" /\ UNCHANGED <<bound, alive>>
                  /\ detached' = [detached EXCEPT ![c] = texture[d]]
    BY <1>6 DEF RecycleSurfaceTexture
  <2>2. /\ d # c => texture'[d] = texture[c]
        /\ \A e \in Chains \ {c, d} : texture'[e] = texture[e]
    BY <1>1, <2>1
  <2>3. \A e \in Chains : texture[e] = s => OnHand(s)'
    BY <1>1, <2>1, <2>2 DEF OnHand
  <2>4. OnHand(s) => OnHand(s)'
    BY <1>1, <2>1, <2>3 DEF OnHand
  <2>5. QED
    BY <1>1, <2>1, <2>4, HandsLoseNone
<1>7. CASE ClearSurface(c)
  <2>1. /\ UNCHANGED <<texture, alive>>
        /\ \/ UNCHANGED <<bound, detached>>
           \/ /\ bound = NoSurface /\ bound' = detached[c]
              /\ detached' = [detached EXCEPT ![c] = NoSurface]
    BY <1>7 DEF ClearSurface
  <2>2. OnHand(s) => OnHand(s)'
    BY <1>1, <2>1 DEF OnHand
  <2>3. QED
    BY <1>1, <2>1, <2>2, HandsLoseNone
<1>8. CASE IncompatibleContext(c)
  BY <1>8 DEF IncompatibleContext
<1>9. QED
  BY <1>2, <1>3, <1>4, <1>5, <1>6, <1>7, <1>8

\* A call of the producer's that leaves a surface alive and in no place returns an
\* error or panics, whatever fails.  The one that does not is destroy: it goes on when
\* take_surface fails, and forgets the bound surface (chains.rs, SwapChainData::destroy).
THEOREM LossIsReported == Spec => NoSilentLoss
<1>1. ASSUME ExchangeInv, TextureKeepsSlot, ExchangeInv', NEW c \in Chains, Producer(c),
             result' = "ok", NEW s \in (alive \ Placed)'
      PROVE  s \in alive \ Placed \/ (Destroy(c) /\ back[c] = "Attached" /\ s = bound)
  <2>1. s \in Surfaces
    BY <1>1 DEF ExchangeInv, TypeOK
  <2>2. Nowhere(s)' <=> s \notin Placed'
    BY <2>1, NowhereUnplacedNext
  <2>3. CASE ~Destroy(c)
    <3>1. NotLost(s)
      BY <1>1, <2>1, <2>3, SwapLosesNone, ResizeLosesNone, DrawLosesNone DEF Producer
    <3>2. QED
      BY <2>1, <2>2, <3>1, NowhereUnplaced DEF NotLost
  <2>4. CASE Destroy(c)
    <3>1. NotLost(s) \/ (back[c] = "Attached" /\ s = bound)
      BY <1>1, <2>1, <2>4, DestroyLosesOne
    <3>2. QED
      BY <2>1, <2>2, <2>4, <3>1, NowhereUnplaced DEF NotLost
  <2>5. QED
    BY <2>3, <2>4
<1> DEFINE Reported ==
        \A c \in Chains :
           Producer(c) /\ result' = "ok" =>
              \/ (alive \ Placed)' \subseteq alive \ Placed
              \/ /\ Destroy(c) /\ back[c] = "Attached"
                 /\ (alive \ Placed)' \subseteq (alive \ Placed) \cup {bound}
<1>2. ASSUME ExchangeInv, TextureKeepsSlot, ExchangeInv'
      PROVE  Reported
  BY <1>1, <1>2
<1>3. ExchangeInv /\ TextureKeepsSlot /\ ExchangeInv' /\ [Next]_vars => [Reported]_vars
  BY <1>2
<1>4. QED
  BY <1>3, OnePlaceEach, TextureSafety, PTL DEF Spec, NoSilentLoss

=============================================================================
