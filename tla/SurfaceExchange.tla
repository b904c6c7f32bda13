-------------------------- MODULE SurfaceExchange --------------------------
(***************************************************************************)
(* What swap chains promise of the surfaces that pass through them: each   *)
(* is in one place, and moves only along a few ways, each the business of  *)
(* one side.  The producer draws to a surface and publishes it in front of *)
(* a chain; what was in front goes to the chain's pool, out of which both  *)
(* sides take.  A consumer takes the front surface if there is one, and    *)
(* what it took returns to a pool through its own hand only: no producer's *)
(* call reaches a surface that a consumer shows.                           *)
(*                                                                         *)
(* Surfaces end by being destroyed; a call that fails may lose one, and a  *)
(* lost one never comes back.  How calls fail is left open.                *)
(***************************************************************************)
CONSTANTS Chains, Surfaces, NoChain

VARIABLES
    open,   \* chains that exist
    place   \* surface -> where it is

vars == <<open, place>>

At(where, c) == [at |-> where, of |-> c]

Gone == At("gone", NoChain)     \* not created, or destroyed
Lost == At("lost", NoChain)     \* not destroyed, and in no one's hands
Drawn == At("drawn", NoChain)   \* the producer's
Front(c) == At("front", c)
Pool(c) == At("pool", c)
Shown(c) == At("shown", c)

Ended == {Gone, Lost}
Places == Ended \cup {Drawn}
              \cup UNION {{Front(c), Pool(c), Shown(c)} : c \in Chains}

InFront(c) == {s \in Surfaces : place[s] = Front(c)}

\* Surfaces move along these ways, in any number, or stay.
Moves(ways) ==
    /\ place' \in [Surfaces -> Places]
    /\ \A s \in Surfaces : place'[s] = place[s] \/ <<place[s], place'[s]>> \in ways

MoveOne(s, to) == place' = [place EXCEPT ![s] = to]

Single(S) == \A s, t \in S : s = t

-----------------------------------------------------------------------------
(* The producer. *)

Creates == {<<Gone, Drawn>>, <<Gone, Lost>>}
Disposes == {Drawn} \X Ended

\* Calls that concern the producer's own surfaces.
Draw == Moves(Creates \cup Disposes) /\ UNCHANGED open

Open(c) ==
    /\ c \notin open
    /\ Moves({<<Gone, Drawn>>})
    /\ open' = open \cup {c}

\* The producer publishes what it drew, and goes on with a surface of the pool, which
\* has the former front surface, or with a new one.  Nothing in the pool is lost.
Swap(c) ==
    /\ c \in open
    /\ Moves(Creates \cup Disposes \cup
             {<<Drawn, Front(c)>>, <<Front(c), Pool(c)>>,
              <<Front(c), Drawn>>, <<Pool(c), Drawn>>, <<Front(c), Lost>>, <<Pool(c), Lost>>,
              <<Front(c), Gone>>, <<Pool(c), Gone>>})
    /\ Single({s \in Surfaces : place[s] # Front(c) /\ place'[s] = Front(c)})
    /\ \A s \in InFront(c) : place'[s] # Front(c)
    /\ Single({s \in Surfaces :
                  place[s] \in {Front(c), Pool(c)} /\ place'[s] \notin {Front(c), Pool(c)}})
    /\ UNCHANGED open

\* The pool is emptied, the front surface stays.
Resize(c) ==
    /\ c \in open
    /\ Moves(Creates \cup Disposes \cup ({Pool(c)} \X Ended))
    /\ UNCHANGED open

\* Of the chain's surfaces only those that are shown remain.
Close(c) ==
    /\ c \in open
    /\ Moves(Disposes \cup ({Front(c), Pool(c)} \X Ended))
    /\ UNCHANGED open

-----------------------------------------------------------------------------
(* The consumers, who may outlast the producer. *)

Take(c) ==
    /\ c \in open
    /\ \E s \in Surfaces :
          /\ \/ place[s] = Front(c)
             \/ place[s] = Pool(c) /\ InFront(c) = {}
          /\ MoveOne(s, Shown(c))
    /\ UNCHANGED open

\* To whichever chain there is.
Return(c) ==
    /\ c \in open
    /\ \E s \in Surfaces, d \in Chains : place[s] = Shown(d) /\ MoveOne(s, Pool(c))
    /\ UNCHANGED open

\* The last handle of a chain goes, when no one shows any of its surfaces; a back buffer
\* that came back too late goes with it.
Drop(c) ==
    /\ c \in open
    /\ \A s \in Surfaces : place[s] # Shown(c)
    /\ Moves({Drawn, Front(c), Pool(c)} \X {Lost})
    /\ \A s \in Surfaces : place'[s] \notin {Front(c), Pool(c)}
    /\ open' = open \ {c}

-----------------------------------------------------------------------------
Init == open = {} /\ place = [s \in Surfaces |-> Gone]

Next ==
    \/ Draw
    \/ \E c \in Chains :
          Open(c) \/ Swap(c) \/ Resize(c) \/ Close(c) \/ Take(c) \/ Return(c) \/ Drop(c)

Spec == Init /\ [][Next]_vars
=============================================================================
