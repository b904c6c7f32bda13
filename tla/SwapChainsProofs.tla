-------------------------- MODULE SwapChainsProofs --------------------------
(***************************************************************************)
(* The table of swap chains, for any number of threads, ids and chains:    *)
(* what is destroyed through the table has left it, whatever fails, and    *)
(* with threads that destroy only their own chains, on a device that can   *)
(* destroy surfaces, the two maps agree and iter yields exactly the        *)
(* caller's chains.                                                        *)
(***************************************************************************)
EXTENDS SwapChains, TLAPS

Disciplined == "destroy" \notin Faults /\ "destroy_any" \notin Misuse

-----------------------------------------------------------------------------
(* Types. *)

LEMMA TypeInit == Init => TypeOK
BY SomeAssumption, MaxCallsAssumption DEF Init, TypeOK, Steps

LEMMA TypeCall ==
    ASSUME TypeOK, NEW t \in Threads, Call(t)
    PROVE  TypeOK'
<1> USE MaxCallsAssumption DEF TypeOK, Steps, MayCall, Goto, tables, locks, locals
<1>1. CASE \E i \in Ids : CallOnId(t, i)
  BY <1>1 DEF CallOnId
<1>2. CASE CallIter(t)
  BY <1>2 DEF CallIter
<1>3. CASE CallUse(t)
  BY <1>3 DEF CallUse
<1>4. CASE CallAttach(t)
  BY <1>4 DEF CallAttach
<1> QED BY <1>1, <1>2, <1>3, <1>4 DEF Call

LEMMA TypeContinue ==
    ASSUME TypeOK, NEW t \in Threads, Continue(t)
    PROVE  TypeOK'
<1> USE DEF TypeOK, Steps, Goto, tables, locks, locals
<1>1. CASE CreateInTable(t)
  BY <1>1 DEF CreateInTable
<1>2. CASE CreateIds(t)
  BY <1>2 DEF CreateIds
<1>3. CASE DestroyInTable(t)
  BY <1>3 DEF DestroyInTable
<1>4. CASE DestroyChain(t)
  BY <1>4 DEF DestroyChain
<1>5. CASE DestroyIds(t)
  BY <1>5 DEF DestroyIds
<1>6. CASE Get(t)
  BY <1>6 DEF Get
<1>7. CASE IterLock(t)
  BY <1>7 DEF IterLock
<1>8. CASE IterStep(t)
  BY <1>8 DEF IterStep
<1>9. CASE IterDone(t)
  BY <1>9 DEF IterDone
<1>10. CASE UseLock(t)
  BY <1>10 DEF UseLock
<1>11. CASE UseUnlock(t)
  BY <1>11 DEF UseUnlock
<1>12. CASE AttachLock(t)
  BY <1>12 DEF AttachLock
<1>13. CASE AttachLockOther(t)
  BY <1>13 DEF AttachLockOther
<1>14. CASE UseDestroy(t)
  BY <1>14 DEF UseDestroy
<1> QED BY <1>1, <1>2, <1>3, <1>4, <1>5, <1>6, <1>7, <1>8, <1>9, <1>10, <1>11,
           <1>12, <1>13, <1>14 DEF Continue

LEMMA TypeStep == TypeOK /\ [Next]_vars => TypeOK'
<1> SUFFICES ASSUME TypeOK, [Next]_vars PROVE TypeOK'
  OBVIOUS
<1>1. CASE UNCHANGED vars
  BY <1>1 DEF TypeOK, vars, tables, locks, locals
<1>2. ASSUME NEW t \in Threads, Call(t) \/ Continue(t) PROVE TypeOK'
  BY <1>2, TypeCall, TypeContinue
<1> QED BY <1>1, <1>2 DEF Next, AllDone

\* The tables, the locks and every thread's local state keep their types: a
\* look-up yields chains and never a missing entry.
THEOREM TableTypeCorrect == Spec => []TypeOK
BY TypeInit, TypeStep, PTL DEF Spec

-----------------------------------------------------------------------------
(* What is destroyed through the table has left it. *)

\* A chain that is in the table, or was, is never created again; one that is being
\* destroyed has left the table.
CreatedOnce ==
    /\ \A i \in Ids : table[i] # NoChain => owner[table[i]] # Nobody
    /\ \A c \in destroyed : owner[c] # Nobody
    /\ \A t \in Threads :
          pc[t] = "destroy_chain" =>
             /\ owner[using[t]] # Nobody
             /\ \A i \in Ids : table[i] # using[t]

LiveInv == TypeOK /\ CreatedOnce /\ DestroyTakesChainOut

LEMMA LiveInit == Init => LiveInv
BY TypeInit, NoChainAssumption DEF Init, LiveInv, CreatedOnce, DestroyTakesChainOut

\* Steps that leave the tables alone, and let no thread begin to destroy a chain.
LEMMA LiveFrame ==
    ASSUME LiveInv, UNCHANGED <<table, owner, destroyed, byHandle>>,
           \A u \in Threads : pc'[u] = "destroy_chain" =>
               pc[u] = "destroy_chain" /\ using'[u] = using[u]
    PROVE  CreatedOnce' /\ DestroyTakesChainOut'
BY DEF LiveInv, CreatedOnce, DestroyTakesChainOut

LEMMA LiveCall ==
    ASSUME LiveInv, NEW t \in Threads, Call(t)
    PROVE  CreatedOnce' /\ DestroyTakesChainOut'
<1> USE DEF LiveInv, TypeOK, MayCall, Goto, tables, locks, locals
<1>1. UNCHANGED <<table, owner, destroyed, byHandle>>
  BY DEF Call, CallOnId, CallIter, CallUse, CallAttach
<1>2. ASSUME NEW u \in Threads, pc'[u] = "destroy_chain"
      PROVE  pc[u] = "destroy_chain" /\ using'[u] = using[u]
  <2>1. CASE \E i \in Ids : CallOnId(t, i)
    BY <1>2, <2>1 DEF CallOnId
  <2>2. CASE CallIter(t)
    BY <1>2, <2>2 DEF CallIter
  <2>3. CASE CallUse(t)
    BY <1>2, <2>3 DEF CallUse
  <2>4. CASE CallAttach(t)
    BY <1>2, <2>4 DEF CallAttach
  <2> QED BY <2>1, <2>2, <2>3, <2>4 DEF Call
<1> QED BY <1>1, <1>2, LiveFrame

LEMMA LiveCreate ==
    ASSUME LiveInv, NEW t \in Threads, CreateInTable(t)
    PROVE  CreatedOnce' /\ DestroyTakesChainOut'
<1> USE DEF LiveInv, TypeOK, Goto, locks, locals
<1>1. CASE UNCHANGED <<table, owner>>
  BY <1>1, LiveFrame DEF CreateInTable
<1>2. ASSUME NEW c \in Chains, owner[c] = Nobody, table[arg[t]] = NoChain,
             table' = [table EXCEPT ![arg[t]] = c],
             owner' = [owner EXCEPT ![c] = t], Goto(t, "create_ids")
      PROVE  CreatedOnce' /\ DestroyTakesChainOut'
  <2> USE <1>2, NobodyAssumption, NoChainAssumption
  <2>1. UNCHANGED <<destroyed, byHandle, using>>
    BY DEF CreateInTable
  <2>2. \A i \in Ids : table[i] # c
    BY DEF CreatedOnce
  <2>3. \A d \in Chains : owner[d] # Nobody => owner'[d] # Nobody
    OBVIOUS
  <2>4. CreatedOnce'
    <3>1. \A i \in Ids : table'[i] # NoChain => owner'[table'[i]] # Nobody
      BY <2>3 DEF CreatedOnce
    <3>2. \A d \in destroyed' : owner'[d] # Nobody
      BY <2>1, <2>3 DEF CreatedOnce
    <3>3. ASSUME NEW u \in Threads, pc'[u] = "destroy_chain"
          PROVE  owner'[using'[u]] # Nobody /\ \A i \in Ids : table'[i] # using'[u]
      BY <2>1, <2>3, <3>3 DEF CreatedOnce
    <3> QED BY <3>1, <3>2, <3>3 DEF CreatedOnce
  <2>5. c \notin destroyed
    BY DEF CreatedOnce
  <2>6. DestroyTakesChainOut'
    BY <2>1, <2>2, <2>5 DEF DestroyTakesChainOut
  <2> QED BY <2>4, <2>6
<1> QED BY <1>1, <1>2 DEF CreateInTable

LEMMA LiveDestroyInTable ==
    ASSUME LiveInv, NEW t \in Threads, DestroyInTable(t)
    PROVE  CreatedOnce' /\ DestroyTakesChainOut'
<1> USE DEF LiveInv, TypeOK, Goto, locals
<1>1. CASE table[arg[t]] = NoChain
  BY <1>1, LiveFrame DEF DestroyInTable
<1>2. CASE table[arg[t]] # NoChain
  <2>1. /\ UNCHANGED <<owner, destroyed, byHandle>>
        /\ using' = [using EXCEPT ![t] = table[arg[t]]]
        /\ table' = [table EXCEPT ![arg[t]] = NoChain]
        /\ pc' = [pc EXCEPT ![t] = "destroy_chain"]
    BY <1>2 DEF DestroyInTable
  <2>2. DestroyTakesChainOut'
    BY <2>1, NoChainAssumption DEF DestroyTakesChainOut
  <2>3. ASSUME NEW u \in Threads, pc'[u] = "destroy_chain"
        PROVE  owner'[using'[u]] # Nobody /\ \A i \in Ids : table'[i] # using'[u]
    <3>1. CASE u = t
      BY <1>2, <2>1, <3>1, NoChainAssumption DEF CreatedOnce, DestroyTakesChainOut
    <3>2. CASE u # t
      BY <2>1, <2>3, <3>2, NoChainAssumption DEF CreatedOnce
    <3> QED BY <3>1, <3>2
  <2>4. CreatedOnce'
    BY <2>1, <2>3 DEF CreatedOnce
  <2> QED BY <2>2, <2>4
<1> QED BY <1>1, <1>2

LEMMA LiveDestroyChain ==
    ASSUME LiveInv, NEW t \in Threads, DestroyChain(t)
    PROVE  CreatedOnce' /\ DestroyTakesChainOut'
<1> USE DEF LiveInv, TypeOK, Goto, locals
<1>1. /\ UNCHANGED <<table, owner, byHandle, using>>
      /\ destroyed' \subseteq destroyed \cup {using[t]}
      /\ \A u \in Threads : pc'[u] = "destroy_chain" => pc[u] = "destroy_chain"
      /\ pc[t] = "destroy_chain"
  BY DEF DestroyChain
<1> QED BY <1>1 DEF CreatedOnce, DestroyTakesChainOut

LEMMA LiveUseDestroy ==
    ASSUME LiveInv, NEW t \in Threads, UseDestroy(t)
    PROVE  CreatedOnce' /\ DestroyTakesChainOut'
<1> USE DEF LiveInv, TypeOK, Goto, locals
<1>1. /\ UNCHANGED <<table, owner, using>>
      /\ owner[using[t]] # Nobody
      /\ destroyed' = destroyed \cup {using[t]}
      /\ byHandle' = byHandle \cup {using[t]}
      /\ \A u \in Threads : pc'[u] = "destroy_chain" => pc[u] = "destroy_chain"
  BY NobodyAssumption DEF UseDestroy
<1> QED BY <1>1 DEF CreatedOnce, DestroyTakesChainOut

LEMMA LiveRest ==
    ASSUME LiveInv, NEW t \in Threads,
           \/ CreateIds(t) \/ DestroyIds(t) \/ Get(t) \/ IterLock(t) \/ IterStep(t)
           \/ IterDone(t) \/ UseLock(t) \/ UseUnlock(t) \/ AttachLock(t)
           \/ AttachLockOther(t)
    PROVE  CreatedOnce' /\ DestroyTakesChainOut'
<1> USE DEF LiveInv, TypeOK, Goto, tables, locks, locals
<1>1. UNCHANGED <<table, owner, destroyed, byHandle, using>>
  BY DEF CreateIds, DestroyIds, Get, IterLock, IterStep, IterDone, UseLock, UseUnlock,
         AttachLock, AttachLockOther
<1>2. \A u \in Threads : pc'[u] = "destroy_chain" => pc[u] = "destroy_chain"
  BY DEF CreateIds, DestroyIds, Get, IterLock, IterStep, IterDone, UseLock, UseUnlock,
         AttachLock, AttachLockOther
<1> QED BY <1>1, <1>2, LiveFrame

LEMMA LiveStep == LiveInv /\ [Next]_vars => LiveInv'
<1> SUFFICES ASSUME LiveInv, [Next]_vars PROVE LiveInv'
  OBVIOUS
<1>1. TypeOK'
  BY TypeStep DEF LiveInv
<1>2. CASE UNCHANGED vars
  BY <1>1, <1>2, LiveFrame DEF LiveInv, vars, tables, locals
<1>3. ASSUME NEW t \in Threads, Call(t) PROVE LiveInv'
  BY <1>1, <1>3, LiveCall DEF LiveInv
<1>4. ASSUME NEW t \in Threads, Continue(t) PROVE LiveInv'
  BY <1>1, <1>4, LiveCreate, LiveDestroyInTable, LiveDestroyChain,
     LiveUseDestroy, LiveRest
     DEF LiveInv, Continue
<1> QED BY <1>2, <1>3, <1>4 DEF Next, AllDone

LEMMA LiveAlways == Spec => []LiveInv
BY LiveInit, LiveStep, PTL DEF Spec

\* SwapChains::destroy takes a chain out of the table before it destroys it,
\* whatever fails and whoever calls it: no chain is destroyed twice through the
\* table, and a look-up finds a destroyed chain only if SwapChain::destroy was
\* called on a handle of it.
THEOREM DestroyedChainsHaveLeft == Spec => []DestroyTakesChainOut
<1>1. LiveInv => DestroyTakesChainOut
  BY DEF LiveInv
<1> QED BY LiveAlways, <1>1, PTL

-----------------------------------------------------------------------------
(* The two maps agree. *)

\* Where a thread is between its steps on the two maps, and what it has in hand.
ThreadOK(t) ==
    /\ pc[t] \notin {"create_ids", "destroy_chain", "destroy_ids"} => ids[t] = Owned(t)
    /\ pc[t] = "create_ids" => ids[t] \cup {arg[t]} = Owned(t)
    /\ pc[t] \in {"destroy_chain", "destroy_ids"} => ids[t] \ {arg[t]} = Owned(t)
    /\ pc[t] = "destroy" => arg[t] \in ids[t]
    /\ pc[t] = "destroy_chain" => owner[using[t]] = t
    /\ pc[t] = "iter_step" =>
          /\ todo[t] \subseteq ids[t]
          /\ found[t] = {table[i] : i \in ids[t] \ todo[t]}

IdsInv == LiveInv /\ \A t \in Threads : ThreadOK(t)

LEMMA IdsInit == Init => IdsInv
BY LiveInit DEF Init, IdsInv, ThreadOK, Owned

\* What a step leaves of a thread, its own maps and the chains in them included,
\* it leaves in order.
LEMMA ThreadKept ==
    ASSUME IdsInv, NEW u \in Threads,
           pc'[u] = pc[u], ids'[u] = ids[u], arg'[u] = arg[u], using'[u] = using[u],
           todo'[u] = todo[u], found'[u] = found[u],
           Owned(u)' = Owned(u),
           \A i \in Owned(u) : table'[i] = table[i],
           owner[using[u]] = u => owner'[using[u]] = u
    PROVE  ThreadOK(u)'
<1>1. pc[u] = "iter_step" => {table'[i] : i \in ids[u] \ todo[u]}
                              = {table[i] : i \in ids[u] \ todo[u]}
  BY DEF IdsInv, ThreadOK
<1> QED BY <1>1 DEF IdsInv, ThreadOK

\* The other threads, when the tables do not change.
LEMMA OthersKept ==
    ASSUME IdsInv, NEW t \in Threads, UNCHANGED <<table, owner>>,
           \A u \in Threads \ {t} :
              /\ pc'[u] = pc[u] /\ ids'[u] = ids[u] /\ arg'[u] = arg[u]
              /\ using'[u] = using[u] /\ todo'[u] = todo[u] /\ found'[u] = found[u]
    PROVE  \A u \in Threads \ {t} : ThreadOK(u)'
<1> SUFFICES ASSUME NEW u \in Threads \ {t} PROVE ThreadOK(u)'
  OBVIOUS
<1>1. Owned(u)' = Owned(u)
  BY DEF Owned
<1> QED BY <1>1, ThreadKept

LEMMA IdsCall ==
    ASSUME IdsInv, Disciplined, NEW t \in Threads, Call(t)
    PROVE  \A u \in Threads : ThreadOK(u)'
<1> USE DEF IdsInv, LiveInv, TypeOK, MayCall, Goto, tables, locks, locals
<1>1. UNCHANGED <<table, owner, ids, todo, found>>
  BY DEF Call, CallOnId, CallIter, CallUse, CallAttach
<1>2. \A u \in Threads \ {t} :
         pc'[u] = pc[u] /\ arg'[u] = arg[u] /\ using'[u] = using[u]
  BY DEF Call, CallOnId, CallIter, CallUse, CallAttach
<1>3. Owned(t)' = Owned(t)
  BY <1>1 DEF Owned
<1>4. ids[t] = Owned(t)
  BY DEF Call, CallOnId, CallIter, CallUse, CallAttach, ThreadOK
<1>5. /\ pc'[t] \in {"create", "destroy", "get", "iter", "use", "attach"}
      /\ pc'[t] = "destroy" => arg'[t] \in ids[t]
  BY DEF Call, CallOnId, CallIter, CallUse, CallAttach, Disciplined
<1>6. ThreadOK(t)'
  BY <1>1, <1>3, <1>4, <1>5 DEF ThreadOK
<1> QED BY <1>1, <1>2, <1>6, OthersKept

LEMMA IdsCreate ==
    ASSUME IdsInv, NEW t \in Threads, CreateInTable(t)
    PROVE  \A u \in Threads : ThreadOK(u)'
<1> USE DEF IdsInv, LiveInv, TypeOK, Goto, locks, locals
<1>1. UNCHANGED <<ids, arg, using, todo, found>> /\ pc[t] = "create"
  BY DEF CreateInTable
<1>2. ids[t] = Owned(t)
  BY <1>1 DEF ThreadOK
<1>3. CASE UNCHANGED <<table, owner>> /\ pc' = [pc EXCEPT ![t] = "idle"]
  <2>1. Owned(t)' = Owned(t)
    BY <1>3 DEF Owned
  <2>2. ThreadOK(t)'
    BY <1>1, <1>2, <1>3, <2>1 DEF ThreadOK
  <2> QED BY <1>1, <1>3, <2>2, OthersKept
<1>4. ASSUME NEW c \in Chains, owner[c] = Nobody, table[arg[t]] = NoChain,
             table' = [table EXCEPT ![arg[t]] = c],
             owner' = [owner EXCEPT ![c] = t],
             pc' = [pc EXCEPT ![t] = "create_ids"]
      PROVE  \A u \in Threads : ThreadOK(u)'
  <2> USE <1>4, NobodyAssumption, NoChainAssumption
  <2>1. \A i \in Ids : table[i] # c
    BY DEF CreatedOnce
  <2>2. \A i \in Ids \ {arg[t]} :
           table'[i] = table[i] /\ (table[i] # NoChain => owner'[table[i]] = owner[table[i]])
    BY <2>1
  <2>3. Owned(t)' = Owned(t) \cup {arg[t]}
    BY <2>2 DEF Owned
  <2>4. ThreadOK(t)'
    BY <1>1, <1>2, <2>3 DEF ThreadOK
  <2>5. ASSUME NEW u \in Threads, u # t PROVE ThreadOK(u)'
    <3>1. Owned(u)' = Owned(u) /\ \A i \in Owned(u) : table'[i] = table[i]
      BY <2>2, <2>5 DEF Owned
    <3>2. owner[using[u]] = u => owner'[using[u]] = u
      OBVIOUS
    <3> QED BY <1>1, <2>5, <3>1, <3>2, ThreadKept
  <2> QED BY <2>4, <2>5
<1> QED BY <1>3, <1>4 DEF CreateInTable

LEMMA IdsDestroyInTable ==
    ASSUME IdsInv, NEW t \in Threads, DestroyInTable(t)
    PROVE  \A u \in Threads : ThreadOK(u)'
<1> USE DEF IdsInv, LiveInv, TypeOK, Goto, locals
<1>1. /\ UNCHANGED <<ids, owner, arg, todo, found>>
      /\ pc[t] = "destroy"
  BY DEF DestroyInTable
<1>2. ids[t] = Owned(t) /\ arg[t] \in Owned(t)
  BY <1>1 DEF ThreadOK
<1>3. /\ table[arg[t]] # NoChain /\ owner[table[arg[t]]] = t
      /\ using' = [using EXCEPT ![t] = table[arg[t]]]
      /\ table' = [table EXCEPT ![arg[t]] = NoChain]
      /\ pc' = [pc EXCEPT ![t] = "destroy_chain"]
  BY <1>2 DEF DestroyInTable, Owned
<1>4. Owned(t)' = Owned(t) \ {arg[t]}
  BY <1>1, <1>3, NoChainAssumption DEF Owned
<1>5. ThreadOK(t)'
  BY <1>1, <1>2, <1>3, <1>4 DEF ThreadOK
<1>6. ASSUME NEW u \in Threads, u # t PROVE ThreadOK(u)'
  <2>1. Owned(u)' = Owned(u) /\ \A i \in Owned(u) : table'[i] = table[i]
    BY <1>1, <1>3, <1>6 DEF Owned
  <2> QED BY <1>1, <1>3, <1>6, <2>1, ThreadKept
<1> QED BY <1>5, <1>6

LEMMA IdsDestroyChain ==
    ASSUME IdsInv, Disciplined, NEW t \in Threads, DestroyChain(t)
    PROVE  \A u \in Threads : ThreadOK(u)'
<1> USE DEF IdsInv, LiveInv, TypeOK, Goto, locals
<1>1. /\ UNCHANGED <<table, owner, ids, arg, using, todo, found>>
      /\ pc[t] = "destroy_chain"
      /\ pc' = [pc EXCEPT ![t] = "destroy_ids"]
  BY DEF DestroyChain, Disciplined, ThreadOK
<1>2. Owned(t)' = Owned(t)
  BY <1>1 DEF Owned
<1>3. ThreadOK(t)'
  BY <1>1, <1>2 DEF ThreadOK
<1> QED BY <1>1, <1>3, OthersKept

\* The second half of create and of destroy.
LEMMA IdsSecondHalf ==
    ASSUME IdsInv, NEW t \in Threads, CreateIds(t) \/ DestroyIds(t)
    PROVE  \A u \in Threads : ThreadOK(u)'
<1> USE DEF IdsInv, LiveInv, TypeOK, Goto, locks, locals
<1>1. /\ UNCHANGED <<table, owner, arg, using, todo, found>>
      /\ pc' = [pc EXCEPT ![t] = "idle"]
      /\ \A u \in Threads \ {t} : ids'[u] = ids[u]
  BY DEF CreateIds, DestroyIds
<1>2. Owned(t)' = Owned(t)
  BY <1>1 DEF Owned
<1>3. ids'[t] = Owned(t)
  BY DEF CreateIds, DestroyIds, ThreadOK
<1>4. ThreadOK(t)'
  BY <1>1, <1>2, <1>3 DEF ThreadOK
<1> QED BY <1>1, <1>4, OthersKept

LEMMA IdsIterStep ==
    ASSUME IdsInv, NEW t \in Threads, IterStep(t)
    PROVE  \A u \in Threads : ThreadOK(u)'
<1> USE DEF IdsInv, LiveInv, TypeOK, tables, locks
<1>1. UNCHANGED <<table, owner, ids, pc, arg, using>> /\ pc[t] = "iter_step"
  BY DEF IterStep
<1>2. ids[t] = Owned(t) /\ Owned(t)' = Owned(t)
  BY <1>1 DEF ThreadOK, Owned
<1>3. PICK i \in todo[t] :
         /\ found' = [found EXCEPT ![t] = @ \cup ({table[i]} \ {NoChain})]
         /\ todo' = [todo EXCEPT ![t] = @ \ {i}]
  BY DEF IterStep
<1>4. i \in ids[t] /\ table[i] # NoChain
  BY <1>1, <1>2 DEF ThreadOK, Owned
<1>5. /\ found'[t] = found[t] \cup {table[i]}
      /\ todo'[t] = todo[t] \ {i}
  BY <1>3, <1>4
<1>6. found'[t] = {table'[j] : j \in ids[t] \ todo'[t]}
  <2>1. found[t] = {table[j] : j \in ids[t] \ todo[t]}
    BY <1>1 DEF ThreadOK
  <2>2. ids[t] \ todo'[t] = (ids[t] \ todo[t]) \cup {i}
    BY <1>4, <1>5
  <2> QED BY <1>1, <1>5, <2>1, <2>2
<1>7. ThreadOK(t)'
  BY <1>1, <1>2, <1>5, <1>6 DEF ThreadOK
<1>8. \A u \in Threads \ {t} : todo'[u] = todo[u] /\ found'[u] = found[u]
  BY <1>3
<1> QED BY <1>1, <1>7, <1>8, OthersKept

LEMMA IdsRest ==
    ASSUME IdsInv, NEW t \in Threads,
           \/ Get(t) \/ IterLock(t) \/ IterDone(t) \/ UseLock(t) \/ UseUnlock(t)
           \/ UseDestroy(t) \/ AttachLock(t) \/ AttachLockOther(t)
    PROVE  \A u \in Threads : ThreadOK(u)'
<1> USE DEF IdsInv, LiveInv, TypeOK, Goto, tables, locks, locals
<1>1. /\ UNCHANGED <<table, owner, ids, arg, using>>
      /\ \A u \in Threads \ {t} :
            pc'[u] = pc[u] /\ todo'[u] = todo[u] /\ found'[u] = found[u]
  BY DEF Get, IterLock, IterDone, UseLock, UseUnlock, UseDestroy, AttachLock,
         AttachLockOther
<1>2. Owned(t)' = Owned(t)
  BY <1>1 DEF Owned
<1>3. ids[t] = Owned(t)
  BY DEF Get, IterLock, IterDone, UseLock, UseUnlock, UseDestroy, AttachLock,
         AttachLockOther, ThreadOK
<1>4. /\ pc'[t] \in {"idle", "iter_step", "use_locked", "attach_other"}
      /\ pc'[t] = "iter_step" => todo'[t] = ids[t] /\ found'[t] = {}
  BY DEF Get, IterLock, IterDone, UseLock, UseUnlock, UseDestroy, AttachLock,
         AttachLockOther
<1>5. ThreadOK(t)'
  BY <1>1, <1>2, <1>3, <1>4 DEF ThreadOK
<1> QED BY <1>1, <1>5, OthersKept

LEMMA IdsStep == ASSUME Disciplined PROVE IdsInv /\ [Next]_vars => IdsInv'
<1> SUFFICES ASSUME IdsInv, [Next]_vars PROVE IdsInv'
  OBVIOUS
<1>1. LiveInv'
  BY LiveStep DEF IdsInv
<1>2. CASE UNCHANGED vars
  BY <1>1, <1>2 DEF IdsInv, ThreadOK, Owned, vars, tables, locals
<1>3. ASSUME NEW t \in Threads, Call(t) PROVE IdsInv'
  BY <1>1, <1>3, IdsCall DEF IdsInv
<1>4. ASSUME NEW t \in Threads, Continue(t) PROVE IdsInv'
  BY <1>1, <1>4, IdsCreate, IdsDestroyInTable, IdsDestroyChain, IdsSecondHalf,
     IdsIterStep, IdsRest DEF IdsInv, Continue
<1> QED BY <1>2, <1>3, <1>4 DEF Next, AllDone

\* While no create or destroy of its own is under way, the ids recorded for a
\* context are those under which the table has its chains.
THEOREM MapsAgree == ASSUME Disciplined PROVE Spec => []IdsMatchTable
<1>1. Init => IdsInv
  BY IdsInit
<1>2. IdsInv /\ [Next]_vars => IdsInv'
  BY IdsStep
<1>3. IdsInv => IdsMatchTable
  BY DEF IdsInv, ThreadOK, IdsMatchTable
<1> QED BY <1>1, <1>2, <1>3, PTL DEF Spec

\* iter yields the caller's chains, all of them and no other's, although other
\* threads create and destroy chains between its look-ups.
THEOREM IterIsExact == ASSUME Disciplined PROVE Spec => IterYieldsOwnChains
<1>1. ASSUME IdsInv, NEW t \in Threads, IterDone(t)
      PROVE  found[t] = {c \in Chains : owner[c] = t /\ c \in Range(table)}
  <2>1. found[t] = {table[i] : i \in Owned(t)}
    BY <1>1 DEF IterDone, IdsInv, ThreadOK
  <2>2. table \in [Ids -> Chains \cup {NoChain}]
    BY <1>1 DEF IdsInv, LiveInv, TypeOK
  <2> QED BY <2>1, <2>2, NoChainAssumption DEF Owned, Range
<1>2. IdsInv /\ [Next]_vars
        => [\A t \in Threads : IterDone(t) =>
               found[t] = {c \in Chains : owner[c] = t /\ c \in Range(table)}]_vars
  BY <1>1
<1>3. Init => IdsInv
  BY IdsInit
<1>4. IdsInv /\ [Next]_vars => IdsInv'
  BY IdsStep
<1> QED BY <1>2, <1>3, <1>4, PTL DEF Spec, IterYieldsOwnChains
=============================================================================
