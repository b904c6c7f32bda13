----------------------------- MODULE SwapChains -----------------------------
(***************************************************************************)
(* The table of swap chains that all threads share (SwapChains, chains.rs). *)
(* It has two locks of its own, the mutex of `ids' and the reader-writer   *)
(* lock of `table', and every chain has a mutex; the methods take them in  *)
(* turn, so a method is a sequence of actions, one for each stretch during *)
(* which its set of locks does not change.  A lock that is taken and given *)
(* back within one stretch is only tested.                                 *)
(*                                                                         *)
(* Each thread is the producer of one context, and any thread may look up, *)
(* lock and use chains as a consumer.  What happens inside a chain while   *)
(* it is locked is SwapChain's subject; that a chain is destroyed there,   *)
(* and not through the table, is of interest here.                         *)
(***************************************************************************)
EXTENDS Naturals, FiniteSets, Functions

CONSTANTS
    Threads,   \* threads, each with a producer context of its own
    Ids,       \* SwapChainID
    Chains,    \* identities of chains; the bound on how many are ever created
    NoChain,   \* no entry in the table
    Nobody,    \* nobody holds the lock
    MaxCalls,  \* bound: calls the threads make in all
    Faults,    \* steps that may fail: "create" and "destroy" of a chain
    Misuse     \* calls that the documentation answers with an error, or is silent on

\* "destroy_any": a thread destroys a chain it is not the producer of;
\* "attach_any": take_attachment_from with chains that are not both the caller's,
\* or are the same.
ASSUME NobodyAssumption == Nobody \notin Threads
ASSUME NoChainAssumption == NoChain \notin Chains
ASSUME SomeAssumption == Ids # {} /\ Chains # {}
ASSUME MaxCallsAssumption == MaxCalls \in Nat
ASSUME FaultsAssumption == Faults \subseteq {"create", "destroy"}
ASSUME MisuseAssumption == Misuse \subseteq {"destroy_any", "attach_any"}

VARIABLES
    table,       \* table: id -> chain
    ids,         \* ids: the producer context of a thread -> its ids
    owner,       \* chain -> thread of its producer context, Nobody: not created
    destroyed,   \* chains whose surfaces have been destroyed
    byHandle,    \* those of them that SwapChain::destroy has destroyed on a handle
    tableWriter, \* who holds the write lock of table over several actions
    idsHolder,   \* who holds the mutex of ids over several actions
    chainHolder, \* chain -> who holds its mutex over several actions
    pc,          \* what a thread is doing, "idle" between calls
    arg,         \* the id its call is about
    using,       \* the chain its call works on
    other,       \* the second chain of take_attachment_from
    todo,        \* ids that iter has still to look up
    found,       \* chains that iter has collected
    handles,     \* chains got from the table; a handle is cloned and sent at will
    calls        \* calls made so far

locks == <<tableWriter, idsHolder, chainHolder>>
tables == <<table, ids, owner, destroyed, byHandle>>
locals == <<arg, using, other, todo, found, handles>>
vars == <<tables, locks, pc, locals, calls>>

Steps == {"idle", "create", "create_ids", "destroy", "destroy_chain", "destroy_ids",
          "get", "iter", "iter_step", "use", "use_locked", "attach", "attach_other"}

TypeOK ==
    /\ table \in [Ids -> Chains \cup {NoChain}]
    /\ ids \in [Threads -> SUBSET Ids]
    /\ owner \in [Chains -> Threads \cup {Nobody}]
    /\ destroyed \subseteq Chains
    /\ byHandle \subseteq destroyed
    /\ tableWriter \in Threads \cup {Nobody}
    /\ idsHolder \in Threads \cup {Nobody}
    /\ chainHolder \in [Chains -> Threads \cup {Nobody}]
    /\ pc \in [Threads -> Steps]
    /\ arg \in [Threads -> Ids]
    /\ using \in [Threads -> Chains]
    /\ other \in [Threads -> Chains]
    /\ todo \in [Threads -> SUBSET Ids]
    /\ found \in [Threads -> SUBSET Chains]
    /\ handles \subseteq Chains
    /\ calls \in 0..MaxCalls

\* The ids under which the table has chains of t.
Owned(t) == {i \in Ids : table[i] # NoChain /\ owner[table[i]] = t}

Goto(t, step) == pc' = [pc EXCEPT ![t] = step]

-----------------------------------------------------------------------------
(* Calls. *)

MayCall(t) ==
    /\ pc[t] = "idle"
    /\ calls < MaxCalls
    /\ calls' = calls + 1

CallOnId(t, i) ==
    /\ MayCall(t)
    /\ \/ Goto(t, "create")
       \/ Goto(t, "destroy") /\ (i \in ids[t] \/ "destroy_any" \in Misuse)
       \/ Goto(t, "get")
    /\ arg' = [arg EXCEPT ![t] = i]
    /\ UNCHANGED <<tables, locks, using, other, todo, found, handles>>

CallIter(t) ==
    /\ MayCall(t)
    /\ Goto(t, "iter")
    /\ UNCHANGED <<tables, locks, locals>>

\* Any method of a chain that locks this chain only.
CallUse(t) ==
    /\ MayCall(t)
    /\ \E c \in handles : using' = [using EXCEPT ![t] = c]
    /\ Goto(t, "use")
    /\ UNCHANGED <<tables, locks, arg, other, todo, found, handles>>

CallAttach(t) ==
    /\ MayCall(t)
    /\ \E c, d \in handles :
          /\ \/ c # d /\ owner[c] = t /\ owner[d] = t
             \/ "attach_any" \in Misuse
          /\ using' = [using EXCEPT ![t] = c]
          /\ other' = [other EXCEPT ![t] = d]
    /\ Goto(t, "attach")
    /\ UNCHANGED <<tables, locks, arg, todo, found, handles>>

-----------------------------------------------------------------------------
(* create_attached_swap_chain and create_detached_swap_chain. *)

\* Mistake: an entry that is occupied is overwritten.
CreateOverwrites(t) ==
    /\ pc[t] = "create"
    /\ tableWriter = Nobody
    /\ \E c \in Chains :
          /\ owner[c] = Nobody
          /\ table' = [table EXCEPT ![arg[t]] = c]
          /\ owner' = [owner EXCEPT ![c] = t]
    /\ Goto(t, "create_ids")
    /\ UNCHANGED <<ids, destroyed, byHandle, locks, locals, calls>>

\* The write lock is held from the look at the entry to the insertion.
CreateInTable(t) ==
    /\ pc[t] = "create"
    /\ tableWriter = Nobody
    /\ \/ /\ table[arg[t]] = NoChain
          /\ \E c \in Chains :
                /\ owner[c] = Nobody
                /\ table' = [table EXCEPT ![arg[t]] = c]
                /\ owner' = [owner EXCEPT ![c] = t]
          /\ Goto(t, "create_ids")
       \/ /\ \/ table[arg[t]] # NoChain
             \/ "create" \in Faults
             \/ \A c \in Chains : owner[c] # Nobody   \* the bound on chains
          /\ Goto(t, "idle")
          /\ UNCHANGED <<table, owner>>
    /\ UNCHANGED <<ids, destroyed, byHandle, locks, locals, calls>>

CreateIds(t) ==
    /\ pc[t] = "create_ids"
    /\ idsHolder = Nobody
    /\ ids' = [ids EXCEPT ![t] = @ \cup {arg[t]}]
    /\ Goto(t, "idle")
    /\ UNCHANGED <<table, owner, destroyed, byHandle, locks, locals, calls>>

-----------------------------------------------------------------------------
(* destroy.  The write lock is a temporary of the `if let', and is held until *)
(* the chain is destroyed; ids is locked afterwards.                          *)

\* Mistake: the entry is read, and stays in the table.
DestroyLooksUp(t) ==
    /\ pc[t] = "destroy"
    /\ tableWriter = Nobody
    /\ IF table[arg[t]] = NoChain
       THEN Goto(t, "destroy_ids") /\ UNCHANGED <<using, tableWriter>>
       ELSE /\ using' = [using EXCEPT ![t] = table[arg[t]]]
            /\ tableWriter' = t
            /\ Goto(t, "destroy_chain")
    /\ UNCHANGED <<tables, idsHolder, chainHolder, arg, other, todo, found, handles, calls>>

DestroyInTable(t) ==
    /\ pc[t] = "destroy"
    /\ tableWriter = Nobody
    /\ \/ /\ table[arg[t]] # NoChain
          /\ using' = [using EXCEPT ![t] = table[arg[t]]]
          /\ table' = [table EXCEPT ![arg[t]] = NoChain]
          /\ tableWriter' = t
          /\ Goto(t, "destroy_chain")
       \/ /\ table[arg[t]] = NoChain
          /\ Goto(t, "destroy_ids")
          /\ UNCHANGED <<using, table, tableWriter>>
    /\ UNCHANGED <<ids, owner, destroyed, byHandle, idsHolder, chainHolder, arg, other,
                   todo, found, handles, calls>>

\* Mistake: the id is removed while the table is still locked.
DestroyChainUnderTable(t) ==
    /\ pc[t] = "destroy_chain"
    /\ chainHolder[using[t]] = Nobody
    /\ idsHolder = Nobody
    /\ tableWriter' = Nobody
    /\ destroyed' = destroyed \cup {using[t]}
    /\ ids' = [ids EXCEPT ![t] = @ \ {arg[t]}]
    /\ Goto(t, "idle")
    /\ UNCHANGED <<table, owner, byHandle, idsHolder, chainHolder, locals, calls>>

\* An error returns at once; the entry is out of the table, the id stays in ids.
DestroyChain(t) ==
    /\ pc[t] = "destroy_chain"
    /\ chainHolder[using[t]] = Nobody
    /\ tableWriter' = Nobody
    /\ \/ /\ owner[using[t]] = t
          /\ destroyed' = destroyed \cup {using[t]}
          /\ Goto(t, "destroy_ids") \/ ("destroy" \in Faults /\ Goto(t, "idle"))
       \/ /\ owner[using[t]] # t     \* Error::IncompatibleContext
          /\ Goto(t, "idle")
          /\ UNCHANGED destroyed
    /\ UNCHANGED <<table, ids, owner, byHandle, idsHolder, chainHolder, locals, calls>>

\* Mistake: the id is left behind.
DestroyIdsLeft(t) ==
    /\ pc[t] = "destroy_ids"
    /\ Goto(t, "idle")
    /\ UNCHANGED <<tables, locks, locals, calls>>

DestroyIds(t) ==
    /\ pc[t] = "destroy_ids"
    /\ idsHolder = Nobody
    /\ ids' = [ids EXCEPT ![t] = @ \ {arg[t]}]
    /\ Goto(t, "idle")
    /\ UNCHANGED <<table, owner, destroyed, byHandle, locks, locals, calls>>

-----------------------------------------------------------------------------
(* get and iter. *)

Get(t) ==
    /\ pc[t] = "get"
    /\ tableWriter = Nobody
    /\ handles' = handles \cup ({table[arg[t]]} \ {NoChain})
    /\ Goto(t, "idle")
    /\ UNCHANGED <<tables, locks, arg, using, other, todo, found, calls>>

\* ids stays locked until the iterator has been collected.
IterLock(t) ==
    /\ pc[t] = "iter"
    /\ idsHolder = Nobody
    /\ idsHolder' = t
    /\ todo' = [todo EXCEPT ![t] = ids[t]]
    /\ found' = [found EXCEPT ![t] = {}]
    /\ Goto(t, "iter_step")
    /\ UNCHANGED <<tables, tableWriter, chainHolder, arg, using, other, handles, calls>>

\* One look into the table, with a read lock of its own.
IterStep(t) ==
    /\ pc[t] = "iter_step"
    /\ tableWriter = Nobody
    /\ \E i \in todo[t] :
          /\ found' = [found EXCEPT ![t] = @ \cup ({table[i]} \ {NoChain})]
          /\ todo' = [todo EXCEPT ![t] = @ \ {i}]
    /\ UNCHANGED <<tables, locks, pc, arg, using, other, handles, calls>>

IterDone(t) ==
    /\ pc[t] = "iter_step"
    /\ todo[t] = {}
    /\ idsHolder' = Nobody
    /\ handles' = handles \cup found[t]
    /\ Goto(t, "idle")
    /\ UNCHANGED <<tables, tableWriter, chainHolder, arg, using, other, todo, found, calls>>

-----------------------------------------------------------------------------
(* Methods of a chain. *)

UseLock(t) ==
    /\ pc[t] = "use"
    /\ chainHolder[using[t]] = Nobody
    /\ chainHolder' = [chainHolder EXCEPT ![using[t]] = t]
    /\ Goto(t, "use_locked")
    /\ UNCHANGED <<tables, tableWriter, idsHolder, locals, calls>>

UseUnlock(t) ==
    /\ pc[t] = "use_locked"
    /\ chainHolder' = [chainHolder EXCEPT ![using[t]] = Nobody]
    /\ Goto(t, "idle")
    /\ UNCHANGED <<tables, tableWriter, idsHolder, locals, calls>>

\* SwapChain::destroy on a handle: only the producer's context may, and the chain
\* stays in the table.  Refused, it is the use above.
UseDestroy(t) ==
    /\ pc[t] = "use_locked"
    /\ owner[using[t]] = t
    /\ destroyed' = destroyed \cup {using[t]}
    /\ byHandle' = byHandle \cup {using[t]}
    /\ chainHolder' = [chainHolder EXCEPT ![using[t]] = Nobody]
    /\ Goto(t, "idle")
    /\ UNCHANGED <<table, ids, owner, tableWriter, idsHolder, locals, calls>>

AttachLock(t) ==
    /\ pc[t] = "attach"
    /\ chainHolder[using[t]] = Nobody
    /\ chainHolder' = [chainHolder EXCEPT ![using[t]] = t]
    /\ Goto(t, "attach_other")
    /\ UNCHANGED <<tables, tableWriter, idsHolder, locals, calls>>

\* The arguments are checked once both chains are locked.
AttachLockOther(t) ==
    /\ pc[t] = "attach_other"
    /\ chainHolder[other[t]] = Nobody
    /\ chainHolder' = [chainHolder EXCEPT ![using[t]] = Nobody]
    /\ Goto(t, "idle")
    /\ UNCHANGED <<tables, tableWriter, idsHolder, locals, calls>>

-----------------------------------------------------------------------------
Init ==
    /\ table = [i \in Ids |-> NoChain]
    /\ ids = [t \in Threads |-> {}]
    /\ owner = [c \in Chains |-> Nobody]
    /\ destroyed = {}
    /\ byHandle = {}
    /\ tableWriter = Nobody
    /\ idsHolder = Nobody
    /\ chainHolder = [c \in Chains |-> Nobody]
    /\ pc = [t \in Threads |-> "idle"]
    /\ arg \in [Threads -> {CHOOSE i \in Ids : TRUE}]
    /\ using \in [Threads -> {CHOOSE c \in Chains : TRUE}]
    /\ other = using
    /\ todo = [t \in Threads |-> {}]
    /\ found = [t \in Threads |-> {}]
    /\ handles = {}
    /\ calls = 0

Call(t) == (\E i \in Ids : CallOnId(t, i)) \/ CallIter(t) \/ CallUse(t) \/ CallAttach(t)

Continue(t) ==
    \/ CreateInTable(t) \/ CreateIds(t)
    \/ DestroyInTable(t) \/ DestroyChain(t) \/ DestroyIds(t)
    \/ Get(t)
    \/ IterLock(t) \/ IterStep(t) \/ IterDone(t)
    \/ UseLock(t) \/ UseUnlock(t) \/ UseDestroy(t)
    \/ AttachLock(t) \/ AttachLockOther(t)

\* All calls are made and have returned: nothing else may be the end.
AllDone ==
    /\ calls = MaxCalls
    /\ \A t \in Threads : pc[t] = "idle"
    /\ UNCHANGED vars

Next == AllDone \/ \E t \in Threads : Call(t) \/ Continue(t)

Spec == Init /\ [][Next]_vars

\* Threads are scheduled.  A thread calls a method only if it likes to, and a
\* call goes on whenever the lock it waits for stays free: std's locks promise no
\* more, and with a bounded number of calls no more is needed.
FairSpec == Spec /\ \A t \in Threads : WF_vars(Continue(t))

-----------------------------------------------------------------------------
(* Properties. *)

\* The two maps agree: while a thread is in no create or destroy of its own, the
\* ids recorded for its context are those under which the table has its chains,
\* whatever the other threads create, destroy or look up in between.
IdsMatchTable ==
    \A t \in Threads :
        pc[t] \in {"create_ids", "destroy_chain", "destroy_ids"} \/ ids[t] = Owned(t)

\* A chain leaves the table before SwapChains::destroy destroys it, and is in it
\* once: none is destroyed twice through the table, and a destroyed chain that a
\* look-up finds is one that SwapChain::destroy has destroyed on a handle.
DestroyTakesChainOut ==
    /\ \A i \in Ids : table[i] \in destroyed => table[i] \in byHandle
    /\ \A i, j \in Ids : table[i] = table[j] /\ table[i] # NoChain => i = j

\* "Iterate over all the swap chains for a particular producer context"
\* (chains.rs:757): iter yields all of them, and no other's, although other
\* threads change the table between its look-ups.
IterYieldsOwnChains ==
    [][\A t \in Threads :
          IterDone(t) => found[t] = {c \in Chains : owner[c] = t /\ c \in Range(table)}]_vars

\* Calls of take_attachment_from, each of which holds the chain that another of
\* them waits for.  One call with a chain and itself is such a set.
AttachmentsWait ==
    \E S \in SUBSET Threads \ {{}} :
       \A t \in S : pc[t] = "attach_other" /\ \E u \in S : other[t] = using[u]

\* Whatever lock a call waits for, it gets it, whichever threads create, destroy,
\* iterate over and use the chains meanwhile: only calls of take_attachment_from
\* that wait for one another can keep it from returning.
EveryCallReturns ==
    \A t \in Threads : pc[t] # "idle" ~> pc[t] = "idle" \/ AttachmentsWait
=============================================================================
