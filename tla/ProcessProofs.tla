--------------------------- MODULE ProcessProofs ---------------------------
(***************************************************************************)
(* What holds of the process, of its hidden windows on Windows and of its  *)
(* connections on free Unix, for all threads, displays, bounds and faults. *)
(*                                                                         *)
(* A window belongs to one thread's call or to one object.  ThreadInv says *)
(* where the window's own thread can be while a call has it, WindowInv     *)
(* what holds of it otherwise.  A step of one thread concerns its window   *)
(* only, which is what Local is for.                                       *)
(*                                                                         *)
(* Displays are disposed of by the wrapper that owns them, and other       *)
(* wrappers of the same display live on.  That none does when the owner    *)
(* goes is an argument about chains of lenders: from any wrapper of a      *)
(* display, its lenders lead to one that borrows from none.  LendersLead   *)
(* says so without chains: a set that holds all such heads, and with a     *)
(* wrapper all to which it lends, holds every wrapper of the display.      *)
(***************************************************************************)
EXTENDS MCProcess, TLAPS


\* Where a window's thread can be while a call op, that is at at, has the window.
Pumps(op, at) ==
    CASE at = "load" /\ op = "drop" -> {"pumping", "windowless"}
      [] at = "load" /\ op # "drop" -> {"absent"}
      [] at \in {"lock", "spawn"} -> {"absent"}
      [] at = "receive" -> {"asking", "registering", "creating", "pumping",
                             "windowless", "panicked"}
      [] at \in {"use", "close"} -> {"pumping", "windowless"}
      [] at = "join" -> {"pumping", "windowless", "ended"}

ThreadInv(t) ==
    IF At(t, "returned") THEN call[t] = Idle
    ELSE /\ Window(t) \in Windows
         /\ Op(t) \in Ops
         /\ At(t, "load") => Op(t) \in {"create_context", "new_device", "drop"}
         /\ owner[Window(t)] = [by |-> t, as |-> "call"]
         /\ pump[Window(t)] \in Pumps(Op(t), call[t].at)
         /\ Window(t) \in posted => At(t, "join")

WindowInv(w) ==
    /\ owner[w].as = "nothing" =>
          owner[w] = Unowned /\ pump[w] \in {"absent", "gone"} /\ w \notin posted
    /\ owner[w].as \in {"context", "device"} =>
          owner[w].by \in Threads /\ Pumping(w) /\ w \notin posted
    /\ owner[w].as = "call" =>
          LET t == owner[w].by IN t \in Threads /\ ~At(t, "returned") /\ Window(t) = w

Inv == TypeOK /\ (\A t \in Threads : ThreadInv(t)) /\ (\A w \in Windows : WindowInv(w))

-----------------------------------------------------------------------------
(* One thread and one window. *)

LEMMA OwnWindow ==
    ASSUME Inv, NEW t \in Threads, ~At(t, "returned")
    PROVE  /\ Window(t) \in Windows /\ owner[Window(t)] = [by |-> t, as |-> "call"]
           /\ pump[Window(t)] \in Pumps(Op(t), call[t].at)
           /\ Window(t) \in posted => At(t, "join")
           /\ Op(t) \in Ops
           /\ At(t, "load") => Op(t) \in {"create_context", "new_device", "drop"}
BY DEF Inv, ThreadInv

\* A step of t that touches w only, which no other thread's call has.
LEMMA Local ==
    ASSUME Inv, TypeOK', NEW t \in Threads, NEW w \in Windows,
           ~At(t, "returned") => Window(t) = w,
           owner[w].as = "call" => owner[w].by = t,
           \A u \in Threads \ {t} : call'[u] = call[u],
           \A v \in Windows \ {w} : /\ owner'[v] = owner[v] /\ pump'[v] = pump[v]
                                    /\ v \in posted' <=> v \in posted,
           ThreadInv(t)', WindowInv(w)'
    PROVE  Inv'
<1>1. ASSUME NEW u \in Threads \ {t} PROVE ThreadInv(u)'
  <2>1. ThreadInv(u) /\ call'[u] = call[u]
    BY <1>1 DEF Inv
  <2>2. CASE At(u, "returned")
    BY <2>1, <2>2 DEF ThreadInv, At
  <2>3. CASE ~At(u, "returned")
    <3>1. Window(u) \in Windows \ {w}
      BY <2>1, <2>3 DEF ThreadInv
    <3>2. /\ owner'[Window(u)] = owner[Window(u)] /\ pump'[Window(u)] = pump[Window(u)]
          /\ Window(u) \in posted' <=> Window(u) \in posted
      BY <3>1
    <3>3. Window(u)' = Window(u) /\ Op(u)' = Op(u)
      BY <2>1 DEF Window, Op
    <3> QED BY <2>1, <2>3, <3>1, <3>2, <3>3 DEF ThreadInv, At
  <2> QED BY <2>2, <2>3
<1>2. ASSUME NEW v \in Windows \ {w} PROVE WindowInv(v)'
  <2>1. /\ WindowInv(v) /\ owner'[v] = owner[v] /\ pump'[v] = pump[v]
        /\ v \in posted' <=> v \in posted
    BY <1>2 DEF Inv
  <2>2. owner[v].as = "call" => owner[v].by \in Threads \ {t}
    BY <1>2, <2>1 DEF WindowInv
  <2> QED BY <2>1, <2>2 DEF WindowInv, At, Window, Pumping
<1> QED BY <1>1, <1>2 DEF Inv

\* A call ends: its thread is idle, and the window goes to an object or to nobody.
LEMMA Ending ==
    ASSUME Inv, TypeOK', NEW t \in Threads, ~At(t, "returned"),
           NEW w \in Windows, w = Window(t),
           call' = [call EXCEPT ![t] = Idle],
           \A v \in Windows \ {w} : /\ owner'[v] = owner[v] /\ pump'[v] = pump[v]
                                    /\ v \in posted' <=> v \in posted,
           \/ owner'[w] = Unowned /\ pump'[w] \in {"absent", "gone"} /\ w \notin posted'
           \/ /\ owner'[w].as \in {"context", "device"} /\ owner'[w].by = t
              /\ Pumping(w)' /\ w \notin posted'
    PROVE  Inv'
<1>1. owner[w].by = t
  <2>1. owner[w] = [by |-> t, as |-> "call"]
    BY OwnWindow
  <2> QED BY <2>1
<1>2. call'[t] = Idle /\ (\A u \in Threads \ {t} : call'[u] = call[u])
  BY DEF Inv, TypeOK
<1>3. ThreadInv(t)'
  BY <1>2 DEF ThreadInv, At, Idle
<1>4. WindowInv(w)'
  BY DEF WindowInv, Unowned
<1> QED BY <1>1, <1>2, <1>3, <1>4, Local

\* A call goes on to the place at.
LEMMA Going ==
    ASSUME Inv, TypeOK', NEW t \in Threads, ~At(t, "returned"),
           NEW w \in Windows, w = Window(t),
           NEW at \in Places \ {"returned", "load"}, Goto(t, at), owner' = owner,
           \A v \in Windows \ {w} : pump'[v] = pump[v] /\ (v \in posted' <=> v \in posted),
           pump'[w] \in Pumps(Op(t), at), w \in posted' => at = "join"
    PROVE  Inv'
<1>1. owner[w] = [by |-> t, as |-> "call"] /\ Op(t) \in Ops
  BY OwnWindow
<1>2. /\ Window(t)' = w /\ Op(t)' = Op(t) /\ call'[t].at = at
      /\ \A u \in Threads \ {t} : call'[u] = call[u]
  BY DEF Goto, Inv, TypeOK, Window, Op
<1>3. ThreadInv(t)'
  BY <1>1, <1>2 DEF ThreadInv, At
<1>4. WindowInv(w)'
  BY <1>1, <1>2 DEF WindowInv, At
<1> QED BY <1>1, <1>2, <1>3, <1>4, Local

-----------------------------------------------------------------------------
(* Types. *)

LEMMA IdleType ==
    /\ Idle \in [op : Ops \cup {"none"}, at : Places, window : Windows \cup {NoWindow}]
    /\ Unowned \in [by : Threads \cup {Nobody}, as : {"nothing", "call", "context", "device"}]
BY DEF Idle, Unowned, Places

LEMMA EndsType ==
    ASSUME TypeOK, NEW t \in Threads, NEW panics \in BOOLEAN, Ends(t, panics)
    PROVE  /\ call' \in [Threads -> [op : Ops \cup {"none"}, at : Places,
                                     window : Windows \cup {NoWindow}]]
           /\ failing' \subseteq Threads
           /\ mutex' \in [holder : Threads \cup {Nobody}, poisoned : BOOLEAN]
<1>1. /\ call \in [Threads -> [op : Ops \cup {"none"}, at : Places,
                               window : Windows \cup {NoWindow}]]
      /\ failing \subseteq Threads
      /\ mutex \in [holder : Threads \cup {Nobody}, poisoned : BOOLEAN]
  BY DEF TypeOK
<1>2. call' = [call EXCEPT ![t] = Idle] /\ failing' = failing \ {t}
  BY DEF Ends
<1>3. mutex' \in [holder : Threads \cup {Nobody}, poisoned : BOOLEAN]
  <2>1. mutex.poisoned \/ panics \in BOOLEAN
    OBVIOUS
  <2> QED BY <1>1, <2>1 DEF Ends
<1> QED BY <1>1, <1>2, <1>3, IdleType

LEMMA EndsEmptyType ==
    ASSUME TypeOK, NEW t \in Threads, NEW panics \in BOOLEAN, EndsEmpty(t, panics),
           Window(t) \in Windows, UNCHANGED <<loader, extensions, registered>>,
           pump' \in [Windows -> {"absent", "asking", "registering", "creating", "pumping",
                                  "windowless", "ended", "panicked", "gone"}]
    PROVE  TypeOK'
<1>1. Ends(t, panics)
  BY DEF EndsEmpty
<1>2. /\ owner' = [owner EXCEPT ![Window(t)] = Unowned] /\ posted' = posted
  BY DEF EndsEmpty
<1> QED BY <1>1, <1>2, EndsType, IdleType DEF TypeOK

LEMMA GotoType ==
    ASSUME TypeOK, NEW t \in Threads, NEW at \in Places, Goto(t, at)
    PROVE  call' \in [Threads -> [op : Ops \cup {"none"}, at : Places,
                                  window : Windows \cup {NoWindow}]]
BY DEF TypeOK, Goto

-----------------------------------------------------------------------------
(* The steps of a call. *)

LEMMA BeginInv ==
    ASSUME Inv, NEW t \in Threads, NEW op \in Ops, Begin(t, op) PROVE Inv'
<1>1. PICK w \in Windows :
         /\ owner[w] = Unowned /\ pump[w] = "absent"
         /\ owner' = [owner EXCEPT ![w] = [by |-> t, as |-> "call"]]
         /\ call' = [call EXCEPT ![t] =
               [op |-> op, window |-> w,
                at |-> CASE op \in {"create_context", "new_device"} -> "load"
                         [] op = "wrap_context" -> "lock"
                         [] op = "wrap_device" -> "spawn"]]
  BY DEF Begin
<1> DEFINE at == CASE op \in {"create_context", "new_device"} -> "load"
                   [] op = "wrap_context" -> "lock"
                   [] op = "wrap_device" -> "spawn"
<1>2. /\ op # "drop" /\ at \in {"load", "lock", "spawn"}
      /\ at = "load" => op \in {"create_context", "new_device"}
  BY DEF Begin, Ops
<1> HIDE DEF at
<1>3. call' = [call EXCEPT ![t] = [op |-> op, window |-> w, at |-> at]]
  BY <1>1 DEF at
<1>4. UNCHANGED <<procVars, failing, pump, posted>> /\ At(t, "returned")
  BY DEF Begin
<1>5. TypeOK'
  <2>1. /\ [op |-> op, window |-> w, at |-> at] \in
               [op : Ops \cup {"none"}, at : Places, window : Windows \cup {NoWindow}]
        /\ [by |-> t, as |-> "call"] \in [by : Threads \cup {Nobody},
                                          as : {"nothing", "call", "context", "device"}]
    BY <1>2 DEF Places
  <2>2. call' \in [Threads -> [op : Ops \cup {"none"}, at : Places,
                               window : Windows \cup {NoWindow}]]
    BY <1>3, <2>1 DEF Inv, TypeOK
  <2>3. owner' \in [Windows -> [by : Threads \cup {Nobody},
                                as : {"nothing", "call", "context", "device"}]]
    BY <1>1, <2>1 DEF Inv, TypeOK
  <2> QED BY <1>4, <2>2, <2>3 DEF Inv, TypeOK, procVars
<1>6. pump[w] = "absent" /\ w \notin posted
  BY <1>1 DEF Begin, Inv, WindowInv, Unowned
<1>7. /\ call'[t] = [op |-> op, window |-> w, at |-> at]
      /\ owner'[w] = [by |-> t, as |-> "call"]
      /\ \A u \in Threads \ {t} : call'[u] = call[u]
      /\ \A v \in Windows \ {w} : owner'[v] = owner[v]
  BY <1>1, <1>3 DEF Inv, TypeOK
<1>8. ThreadInv(t)'
  BY <1>2, <1>4, <1>6, <1>7 DEF ThreadInv, At, Window, Op, Pumps
<1>9. WindowInv(w)'
  BY <1>2, <1>7 DEF WindowInv, At, Window
<1> QED BY <1>1, <1>4, <1>5, <1>7, <1>8, <1>9, Local DEF Unowned

LEMMA BeginDropInv ==
    ASSUME Inv, NEW t \in Threads, NEW w \in Windows, BeginDrop(t, w) PROVE Inv'
<1> DEFINE at == IF owner[w].as = "device" THEN "load" ELSE "close"
<1>1. at \in {"load", "close"}
  OBVIOUS
<1> HIDE DEF at
<1>2. /\ At(t, "returned") /\ owner[w].by = t
      /\ owner' = [owner EXCEPT ![w].as = "call"]
      /\ call' = [call EXCEPT ![t] = [op |-> "drop", window |-> w, at |-> at]]
      /\ UNCHANGED <<procVars, failing, pump, posted>>
  BY DEF BeginDrop, at
<1>3. owner[w].as \in {"context", "device"}
  <2>1. owner[w].as # "call"
    BY <1>2 DEF Inv, WindowInv
  <2>2. owner[w].as # "nothing"
    BY <1>2, HiddenWindowsAssumption DEF Inv, WindowInv, Unowned
  <2> QED BY <2>1, <2>2 DEF Inv, TypeOK
<1>4. pump[w] \in {"pumping", "windowless"} /\ w \notin posted
  BY <1>3 DEF Inv, WindowInv, Pumping
<1>5. TypeOK'
  BY <1>1, <1>2 DEF Inv, TypeOK, procVars, Places, Ops
<1>6. /\ call'[t] = [op |-> "drop", window |-> w, at |-> at]
      /\ owner'[w] = [by |-> t, as |-> "call"]
      /\ \A u \in Threads \ {t} : call'[u] = call[u]
      /\ \A v \in Windows \ {w} : owner'[v] = owner[v]
  BY <1>2 DEF Inv, TypeOK
<1>7. ThreadInv(t)'
  BY <1>1, <1>2, <1>4, <1>6 DEF ThreadInv, At, Window, Op, Ops, Pumps
<1>8. WindowInv(w)'
  BY <1>1, <1>6 DEF WindowInv, At, Window
<1> QED BY <1>2, <1>3, <1>5, <1>6, <1>7, <1>8, Local

LEMMA EmptyInv ==
    ASSUME Inv, NEW t \in Threads, ~At(t, "returned"), NEW panics \in BOOLEAN,
           EndsEmpty(t, panics), UNCHANGED <<loader, extensions, registered>>,
           Window(t) \notin posted,
           \/ pump[Window(t)] = "absent" /\ pump' = pump
           \/ pump' = [pump EXCEPT ![Window(t)] = "gone"]
    PROVE  Inv'
<1>1. PICK w \in Windows : w = Window(t)
  BY OwnWindow
<1>2. TypeOK'
  BY <1>1, EndsEmptyType DEF Inv, TypeOK
<1>3. /\ call' = [call EXCEPT ![t] = Idle] /\ posted' = posted
      /\ owner' = [owner EXCEPT ![w] = Unowned]
  BY <1>1 DEF EndsEmpty, Ends
<1>4. /\ \A v \in Windows \ {w} : owner'[v] = owner[v] /\ pump'[v] = pump[v]
      /\ owner'[w] = Unowned /\ pump'[w] \in {"absent", "gone"}
  BY <1>1, <1>3 DEF Inv, TypeOK
<1> QED BY <1>1, <1>2, <1>3, <1>4, Ending

LEMMA ProceedsInv ==
    ASSUME Inv, NEW t \in Threads, Proceeds(t) PROVE Inv'
<1> DEFINE at == CASE Op(t) = "create_context" -> "lock"
                   [] Op(t) = "new_device" -> "spawn"
                   [] Op(t) = "drop" -> "close"
<1>1. ~At(t, "returned") /\ At(t, "load")
  BY DEF Proceeds, At
<1>2. PICK w \in Windows : w = Window(t)
  BY <1>1, OwnWindow
<1>3. /\ pump[w] \in Pumps(Op(t), "load") /\ w \notin posted
      /\ Op(t) \in {"create_context", "new_device", "drop"}
  BY <1>1, <1>2, OwnWindow DEF At
<1>4. /\ at \in {"lock", "spawn", "close"}
      /\ pump[w] \in Pumps(Op(t), at)
  BY <1>3 DEF Pumps
<1> HIDE DEF at
<1>5. Goto(t, at) /\ UNCHANGED <<procVars, failing, windowVars>>
  BY DEF Proceeds, at
<1>6. TypeOK'
  BY <1>4, <1>5, GotoType DEF Inv, TypeOK, procVars, windowVars, Places
<1>7. at \in Places \ {"returned", "load"} /\ at # "join"
  BY <1>4 DEF Places
<1> QED BY <1>1, <1>2, <1>3, <1>4, <1>5, <1>6, <1>7, Going DEF windowVars

LEMMA DropPanicsInv ==
    ASSUME Inv, NEW t \in Threads, DropPanics(t) PROVE Inv'
<1>1. ~At(t, "returned") /\ At(t, "load") /\ Op(t) = "drop" /\ Goto(t, "close")
  BY DEF DropPanics, At
<1>2. PICK w \in Windows : w = Window(t)
  BY <1>1, OwnWindow
<1>3. pump[w] \in Pumps(Op(t), "load") /\ w \notin posted
  BY <1>1, <1>2, OwnWindow DEF At
<1>4. pump[w] \in Pumps(Op(t), "close")
  BY <1>1, <1>3 DEF Pumps
<1>5. TypeOK'
  BY <1>1, GotoType DEF DropPanics, Inv, TypeOK, procVars, windowVars, Places
<1>6. UNCHANGED <<pump, posted, owner>> /\ "close" \in Places \ {"returned", "load"}
  BY DEF DropPanics, windowVars, Places
<1> QED BY <1>1, <1>2, <1>3, <1>4, <1>5, <1>6, Going

LEMMA RefusedInv ==
    ASSUME Inv, NEW t \in Threads, Refused(t) PROVE Inv'
<1>1. ~At(t, "returned") /\ At(t, "load") /\ Op(t) # "drop"
  BY DEF Refused, At
<1>2. pump[Window(t)] = "absent" /\ Window(t) \notin posted
  BY <1>1, OwnWindow DEF At, Pumps
<1>3. PICK panics \in BOOLEAN : EndsEmpty(t, panics)
  BY DEF Refused
<1> QED BY <1>1, <1>2, <1>3, EmptyInv DEF Refused

LEMMA LockInv ==
    ASSUME Inv, NEW t \in Threads, Lock(t) PROVE Inv'
<1>1. ~At(t, "returned") /\ At(t, "lock")
  BY DEF Lock, At
<1>2. PICK w \in Windows : w = Window(t)
  BY <1>1, OwnWindow
<1>3. pump[w] = "absent" /\ w \notin posted
  BY <1>1, <1>2, OwnWindow DEF At, Pumps
<1>4. CASE mutex.poisoned
  BY <1>1, <1>2, <1>3, <1>4, EmptyInv DEF Lock
<1>5. CASE ~mutex.poisoned
  <2>1. /\ mutex' = [mutex EXCEPT !.holder = t] /\ Goto(t, "spawn")
        /\ UNCHANGED <<failing, pump, posted, owner, loader, extensions, registered>>
    BY <1>5 DEF Lock
  <2>2. TypeOK'
    BY <2>1, GotoType DEF Inv, TypeOK, Places
  <2>3. pump[w] \in Pumps(Op(t), "spawn") /\ "spawn" \in Places \ {"returned", "load"}
    BY <1>3 DEF Pumps, Places
  <2> QED BY <1>1, <1>2, <1>3, <2>1, <2>2, <2>3, Going
<1> QED BY <1>4, <1>5

LEMMA SpawnInv ==
    ASSUME Inv, NEW t \in Threads, Spawn(t) PROVE Inv'
<1>1. ~At(t, "returned") /\ At(t, "spawn")
  BY DEF Spawn, At
<1>2. PICK w \in Windows : w = Window(t)
  BY <1>1, OwnWindow
<1>3. w \notin posted
  BY <1>1, <1>2, OwnWindow DEF At
<1>4. /\ Goto(t, "receive") /\ pump' = [pump EXCEPT ![w] = "asking"]
      /\ UNCHANGED <<procVars, failing, posted, owner>>
  BY <1>2 DEF Spawn
<1>5. TypeOK'
  BY <1>4, GotoType DEF Inv, TypeOK, procVars, Places
<1>6. pump'[w] \in Pumps(Op(t), "receive") /\ "receive" \in Places \ {"returned", "load"}
  BY <1>4 DEF Pumps, Places, Inv, TypeOK
<1>7. \A v \in Windows \ {w} : pump'[v] = pump[v] /\ (v \in posted' <=> v \in posted)
  BY <1>4 DEF Inv, TypeOK
<1> QED BY <1>1, <1>2, <1>3, <1>4, <1>5, <1>6, <1>7, Going

LEMMA ReceiveInv ==
    ASSUME Inv, NEW t \in Threads, Receive(t) PROVE Inv'
<1>1. ~At(t, "returned") /\ At(t, "receive")
  BY DEF Receive, At
<1>2. PICK w \in Windows : w = Window(t)
  BY <1>1, OwnWindow
<1>3. w \notin posted
  BY <1>1, <1>2, OwnWindow DEF At
<1>4. CASE Pumping(w) /\ Goto(t, "use") /\ UNCHANGED <<mutex, failing, windowVars>>
  <2>1. TypeOK'
    BY <1>4, GotoType DEF Receive, Inv, TypeOK, windowVars, Places
  <2>2. pump[w] \in Pumps(Op(t), "use") /\ "use" \in Places \ {"returned", "load"}
    BY <1>4 DEF Pumps, Places, Pumping
  <2> QED BY <1>1, <1>2, <1>3, <1>4, <2>1, <2>2, Going DEF windowVars
<1>5. CASE pump' = [pump EXCEPT ![w] = "gone"] /\ EndsEmpty(t, TRUE)
  BY <1>1, <1>2, <1>3, <1>5, EmptyInv DEF Receive
<1> QED BY <1>2, <1>4, <1>5 DEF Receive

LEMMA UseInv ==
    ASSUME Inv, NEW t \in Threads, Use(t) PROVE Inv'
<1>1. ~At(t, "returned") /\ At(t, "use")
  BY DEF Use, At
<1>2. PICK w \in Windows : w = Window(t)
  BY <1>1, OwnWindow
<1>3. /\ Pumping(w) /\ w \notin posted
      /\ owner[w] = [by |-> t, as |-> "call"]
  BY <1>1, <1>2, OwnWindow DEF At, Pumps, Pumping
<1>4. /\ owner' = [owner EXCEPT ![w].as = IF Locks(Op(t)) THEN "context" ELSE "device"]
      /\ Ends(t, FALSE) /\ UNCHANGED <<loader, extensions, registered, pump, posted>>
  BY <1>2 DEF Use
<1>5. TypeOK'
  BY <1>4, EndsType DEF Inv, TypeOK
<1>6. /\ \A v \in Windows \ {w} : owner'[v] = owner[v]
      /\ owner'[w].as \in {"context", "device"} /\ owner'[w].by = t
  BY <1>3, <1>4 DEF Inv, TypeOK
<1>7. call' = [call EXCEPT ![t] = Idle] /\ Pumping(w)'
  BY <1>3, <1>4 DEF Ends, Pumping
<1> QED BY <1>1, <1>2, <1>3, <1>4, <1>5, <1>6, <1>7, Ending

LEMMA UseFailsInv ==
    ASSUME Inv, NEW t \in Threads, UseFails(t) PROVE Inv'
<1>1. ~At(t, "returned") /\ At(t, "use")
  BY DEF UseFails, At
<1>2. PICK w \in Windows : w = Window(t)
  BY <1>1, OwnWindow
<1>3. Pumping(w) /\ w \notin posted
  BY <1>1, <1>2, OwnWindow DEF At, Pumps, Pumping
<1>4. /\ Goto(t, "close") /\ UNCHANGED <<procVars, windowVars>>
      /\ failing' = failing \/ failing' = failing \cup {t}
  BY DEF UseFails
<1>5. TypeOK'
  BY <1>4, GotoType DEF Inv, TypeOK, procVars, windowVars, Places
<1>6. pump[w] \in Pumps(Op(t), "close") /\ "close" \in Places \ {"returned", "load"}
  BY <1>3 DEF Pumps, Places, Pumping
<1> QED BY <1>1, <1>2, <1>3, <1>4, <1>5, <1>6, Going DEF windowVars

LEMMA CloseInv ==
    ASSUME Inv, NEW t \in Threads, Close(t) PROVE Inv'
<1>1. ~At(t, "returned") /\ At(t, "close")
  BY DEF Close, At
<1>2. PICK w \in Windows : w = Window(t)
  BY <1>1, OwnWindow
<1>3. pump[w] \in {"pumping", "windowless"}
  BY <1>1, <1>2, OwnWindow DEF At, Pumps
<1>4. /\ Goto(t, "join") /\ UNCHANGED <<procVars, failing, pump, owner>>
      /\ posted' = IF pump[w] = "pumping" THEN posted \cup {w} ELSE posted
  BY <1>2 DEF Close
<1>5. TypeOK'
  BY <1>4, GotoType DEF Inv, TypeOK, procVars, Places
<1>6. pump[w] \in Pumps(Op(t), "join") /\ "join" \in Places \ {"returned", "load"}
  BY <1>3 DEF Pumps, Places
<1> QED BY <1>1, <1>2, <1>3, <1>4, <1>5, <1>6, Going

LEMMA JoinInv ==
    ASSUME Inv, NEW t \in Threads, Join(t) PROVE Inv'
<1>1. ~At(t, "returned")
  BY DEF Join, At
<1>2. PICK w \in Windows : w = Window(t)
  BY <1>1, OwnWindow
<1>3. /\ pump' = [pump EXCEPT ![w] = "gone"] /\ posted' = posted \ {w}
      /\ owner' = [owner EXCEPT ![w] = Unowned] /\ Ends(t, t \in failing)
      /\ UNCHANGED <<loader, extensions, registered>>
  BY <1>2 DEF Join
<1>4. TypeOK'
  <2>1. (t \in failing) \in BOOLEAN
    OBVIOUS
  <2>2. /\ call' \in [Threads -> [op : Ops \cup {"none"}, at : Places,
                                  window : Windows \cup {NoWindow}]]
        /\ failing' \subseteq Threads
        /\ mutex' \in [holder : Threads \cup {Nobody}, poisoned : BOOLEAN]
    BY <1>3, <2>1, EndsType DEF Inv
  <2> QED BY <1>3, <2>2, IdleType DEF Inv, TypeOK
<1>5. /\ \A v \in Windows \ {w} : owner'[v] = owner[v] /\ pump'[v] = pump[v]
      /\ owner'[w] = Unowned /\ pump'[w] \in {"absent", "gone"}
  BY <1>3 DEF Inv, TypeOK
<1>6. call' = [call EXCEPT ![t] = Idle]
  BY <1>3 DEF Ends
<1> QED BY <1>1, <1>2, <1>3, <1>4, <1>5, <1>6, Ending

-----------------------------------------------------------------------------
(* The other threads. *)

LEMMA LoaderInv ==
    ASSUME Inv, LoaderEnds PROVE Inv'
<1>1. TypeOK'
  BY DEF LoaderEnds, Inv, TypeOK, threadVars, windowVars
<1>2. UNCHANGED <<call, pump, posted, owner>>
  BY DEF LoaderEnds, threadVars, windowVars
<1> QED BY <1>1, <1>2 DEF Inv, ThreadInv, WindowInv, At, Window, Op, Pumping

LEMMA LoadInv ==
    ASSUME Inv, NEW t \in Threads, LoadExtensions(t) PROVE Inv'
<1>1. TypeOK'
  BY DEF LoadExtensions, Inv, TypeOK, threadVars, windowVars
<1>2. UNCHANGED <<call, pump, posted, owner>>
  BY DEF LoadExtensions, threadVars, windowVars
<1> QED BY <1>1, <1>2 DEF Inv, ThreadInv, WindowInv, At, Window, Op, Pumping

\* A window's own thread goes from one place to another that its owner allows as well.
LEMMA PumpInv ==
    ASSUME Inv, NEW w \in Windows, NEW from, NEW to, Steps(w, from, to),
           \/ /\ from \in {"asking", "registering", "creating"}
              /\ to \in {"registering", "creating", "pumping", "windowless", "panicked"}
           \/ from = "pumping" /\ to = "ended" /\ w \in posted,
           UNCHANGED <<loader, extensions, mutex, threadVars, posted, owner>>,
           registered' \in BOOLEAN
    PROVE  Inv'
<1>1. /\ pump[w] = from /\ pump'[w] = to /\ (\A v \in Windows \ {w} : pump'[v] = pump[v])
      /\ pump' \in [Windows -> {"absent", "asking", "registering", "creating", "pumping",
                                "windowless", "ended", "panicked", "gone"}]
  BY DEF Steps, Inv, TypeOK
<1>2. TypeOK'
  BY <1>1 DEF Inv, TypeOK, threadVars
<1>3. owner[w].as = "call"
  BY <1>1 DEF Inv, WindowInv, TypeOK, Pumping
<1>4. \A v \in Windows : WindowInv(v)'
  BY <1>1, <1>3 DEF Inv, WindowInv, At, Window, threadVars, Pumping
<1>5. ASSUME NEW t \in Threads, ~At(t, "returned"), Window(t) = w
      PROVE  to \in Pumps(Op(t), call[t].at)
  <2>1. from \in Pumps(Op(t), call[t].at) /\ (w \in posted => At(t, "join"))
    BY <1>1, <1>5, OwnWindow
  <2>2. call[t].at \in Places
    BY DEF Inv, TypeOK
  <2>3. call[t].at = "receive" \/ (call[t].at = "join" /\ from = "pumping")
    BY <1>5, <2>1, <2>2 DEF Pumps, Places, At
  <2> QED BY <2>1, <2>3 DEF Pumps, At
<1>6. ASSUME NEW t \in Threads PROVE ThreadInv(t)'
  <2>1. ThreadInv(t) /\ call' = call /\ owner' = owner /\ posted' = posted
    BY DEF Inv, threadVars
  <2>2. Window(t)' = Window(t) /\ Op(t)' = Op(t)
    BY <2>1 DEF Window, Op
  <2>3. CASE At(t, "returned")
    BY <2>1, <2>3 DEF ThreadInv, At
  <2>4. CASE ~At(t, "returned")
    <3>1. pump'[Window(t)] \in Pumps(Op(t), call[t].at)
      BY <1>1, <1>5, <2>1, <2>4 DEF ThreadInv
    <3> QED BY <2>1, <2>2, <2>4, <3>1 DEF ThreadInv, At
  <2> QED BY <2>3, <2>4
<1> QED BY <1>2, <1>4, <1>6 DEF Inv

LEMMA WindowThreadInv ==
    ASSUME Inv, NEW w \in Windows, WindowThread(w) PROVE Inv'
<1>1. CASE GetClassInfo(w)
  BY <1>1, PumpInv DEF GetClassInfo, procVars, Inv, TypeOK
<1>2. CASE RegisterClass(w)
  BY <1>2, PumpInv DEF RegisterClass
<1>3. CASE CreateWindow(w)
  BY <1>3, PumpInv DEF CreateWindow, procVars, Inv, TypeOK
<1>4. CASE GetMessage(w)
  BY <1>4, PumpInv DEF GetMessage, procVars, Inv, TypeOK
<1> QED BY <1>1, <1>2, <1>3, <1>4 DEF WindowThread

-----------------------------------------------------------------------------
(* The invariant. *)

LEMMA InitInv == Init => Inv
<1> SUFFICES ASSUME Init PROVE Inv
  OBVIOUS
<1>1. TypeOK
  BY IdleType DEF Init, TypeOK
<1>2. \A t \in Threads : ThreadInv(t)
  BY DEF Init, ThreadInv, At, Idle
<1>3. \A w \in Windows : WindowInv(w)
  BY DEF Init, WindowInv, Unowned
<1> QED BY <1>1, <1>2, <1>3 DEF Inv

LEMMA NextInv == Inv /\ [Next]_vars => Inv'
<1> SUFFICES ASSUME Inv, [Next]_vars PROVE Inv'
  OBVIOUS
<1>1. CASE UNCHANGED vars
  <2>1. TypeOK'
    BY <1>1 DEF vars, procVars, threadVars, windowVars, Inv, TypeOK
  <2> QED BY <1>1, <2>1 DEF vars, threadVars, windowVars, Inv, ThreadInv, WindowInv,
             At, Window, Op, Pumping
<1>2. CASE LoaderEnds
  BY <1>2, LoaderInv
<1>3. ASSUME NEW t \in Threads, Calls(t) PROVE Inv'
  BY <1>3, BeginInv, BeginDropInv DEF Calls
<1>4. ASSUME NEW t \in Threads, Runs(t) PROVE Inv'
  BY <1>4, LoadInv, ProceedsInv, RefusedInv, DropPanicsInv, LockInv, SpawnInv, ReceiveInv,
     UseInv, UseFailsInv, CloseInv, JoinInv DEF Runs
<1>5. ASSUME NEW w \in Windows, WindowThread(w) PROVE Inv'
  BY <1>5, WindowThreadInv
<1> QED BY <1>1, <1>2, <1>3, <1>4, <1>5 DEF Next

LEMMA Always == Spec => []Inv
BY InitInv, NextInv, PTL DEF Spec

-----------------------------------------------------------------------------
(* Theorems on hidden windows. *)

\* Calls, mutex, windows and owners keep their types, whatever fails or panics.
THEOREM TypeCorrect == Spec => []TypeOK
<1>1. Inv => TypeOK
  BY DEF Inv
<1> QED BY <1>1, Always, PTL

LEMMA WindowsSafe == Inv => WindowsFollowOwners
<1>1. SUFFICES ASSUME Inv, NEW w \in Windows
               PROVE  /\ pump[w] \notin {"absent", "gone"} => owner[w] # Unowned
                      /\ owner[w].as \in {"context", "device"} =>
                            Pumping(w) /\ w \notin posted
                      /\ w \in posted => \E t \in Threads : At(t, "join") /\ Window(t) = w
  BY DEF WindowsFollowOwners
<1>2. pump[w] \notin {"absent", "gone"} => owner[w] # Unowned
  BY <1>1 DEF Inv, WindowInv, Unowned
<1>3. owner[w].as \in {"context", "device"} => Pumping(w) /\ w \notin posted
  BY <1>1 DEF Inv, WindowInv
<1>4. ASSUME w \in posted PROVE \E t \in Threads : At(t, "join") /\ Window(t) = w
  <2>1. owner[w].as = "call"
    BY <1>1, <1>4 DEF Inv, WindowInv, TypeOK
  <2>2. PICK t \in Threads : ~At(t, "returned") /\ Window(t) = w
    BY <1>1, <2>1 DEF Inv, WindowInv
  <2> QED BY <1>1, <1>4, <2>2, OwnWindow
<1> QED BY <1>2, <1>3, <1>4

\* HiddenWindow::new and drop, on every path of every call: a window's thread runs only
\* for an owner that will close it, an object that is alive has its window open if there is
\* one, and a window that was told to close is being joined.
THEOREM WindowsAreClosed == Spec => []WindowsFollowOwners
BY WindowsSafe, Always, PTL

-----------------------------------------------------------------------------
(* Connections: owners, borrowers and what they keep open. *)

Owns(w) == wrapper[w].ownsEgl \/ wrapper[w].ownsNative
Users(d) == {w \in Wrappers : Unix!Display(w) = d}
Heads(d) == {w \in Users(d) : wrapper[w].lender = NoWrapper}

LendersLead(d) ==
    \A S \in SUBSET Wrappers :
        /\ Heads(d) \subseteq S
        /\ \A v \in Users(d) : wrapper[v].lender \in S => v \in S
        => Users(d) \subseteq S

\* A wrapper is taken exactly while a handle holds it, and its displays are ready.
HeldInv ==
    \A w \in Wrappers :
        /\ Unix!Live(w) <=> wrapper[w] # Unix!None
        /\ wrapper[w] # Unix!None =>
              Unix!Display(w) \in Unix!Displays /\ native[Unix!Display(w)] = "open"
                    /\ Unix!Display(w) \in egl \cup shared

\* A wrapper that borrows shares its lender's display, and owns nothing.
LenderInv ==
    /\ \A d \in Unix!Displays : LendersLead(d)
    /\ \A w \in Wrappers :
          wrapper[w].lender # NoWrapper =>
             Unix!Display(w) = Unix!Display(wrapper[w].lender) /\ ~Owns(w)

\* What w owns: an EGL display on X11 only, and a native display that surfman opened.
\* It is the only one that borrows from none, but on an X11 display wrapped again.
OwnedBy(w) ==
    /\ wrapper[w].ownsEgl => Unix!Display(w) \in X11Displays
    /\ wrapper[w].ownsNative =>
          opener[Unix!Display(w)] = "surfman" /\ Unix!Display(w) # Surfaceless
    /\ wrapper[w].ownsNative \/ Unix!Display(w) \notin shared =>
          Heads(Unix!Display(w)) = {w}

\* Who borrows from none on X11 owns all that surfman has made there.
HeadInv(w) ==
    Unix!Display(w) \in X11Displays /\ wrapper[w].lender = NoWrapper =>
        wrapper[w].ownsEgl /\ (opener[Unix!Display(w)] = "surfman" => wrapper[w].ownsNative)

\* Nothing is left of an X11 display that is out of use.
OwnerInv ==
    /\ \A w \in Wrappers : (Owns(w) => OwnedBy(w)) /\ HeadInv(w)
    /\ \A d \in X11Displays : Users(d) = {} =>
          d \notin egl /\ (native[d] = "open" => opener[d] = "application")

UnixInv == Unix!TypeOK /\ HeldInv /\ LenderInv /\ OwnerInv /\ native[Surfaceless] = "open"

WrapperType == [display : Unix!Displays \cup {NoDisplay}, ownsEgl : BOOLEAN,
                ownsNative : BOOLEAN, lender : Wrappers \cup {NoWrapper}]

LEMMA NoneType ==
    ASSUME Unix!ConnectionsAssumption
    PROVE  /\ Unix!None \in WrapperType /\ Unix!None.display \notin Unix!Displays
           /\ Unix!None.lender \notin Wrappers /\ ~Unix!None.ownsEgl /\ ~Unix!None.ownsNative
BY DEF Unix!ConnectionsAssumption, Unix!None, WrapperType, Unix!Displays

-----------------------------------------------------------------------------
(* Wrappers that come and go. *)

\* A wrapper that is new to a display borrows there, or borrows from none.
LEMMA LeadsAfterWrap ==
    ASSUME Unix!ConnectionsAssumption, Unix!TypeOK, NEW d \in Unix!Displays, LendersLead(d),
           NEW w \in Wrappers, wrapper[w] = Unix!None,
           NEW r \in WrapperType, wrapper' = [wrapper EXCEPT ![w] = r],
           r.display = d => r.lender \in Users(d) \cup {NoWrapper}
    PROVE  LendersLead(d)'
<1>1. /\ \A v \in Wrappers \ {w} : wrapper'[v] = wrapper[v]
      /\ wrapper'[w] = r /\ w \notin Users(d)
  BY NoneType DEF Unix!Display, Unix!TypeOK, Users
<1>2. SUFFICES ASSUME NEW S \in SUBSET Wrappers, Heads(d)' \subseteq S,
                      \A v \in Users(d)' : wrapper'[v].lender \in S => v \in S
               PROVE  Users(d)' \subseteq S
  BY DEF LendersLead
<1>3. \A v \in Users(d) : v \in Users(d)' /\ wrapper'[v] = wrapper[v] /\ v # w
  BY <1>1 DEF Users, Unix!Display
<1>4. Users(d) \subseteq S \ {w}
  <2>1. Heads(d) \subseteq S \ {w} /\ S \ {w} \in SUBSET Wrappers
    BY <1>2, <1>3 DEF Heads
  <2>2. \A v \in Users(d) : wrapper[v].lender \in S \ {w} => v \in S \ {w}
    BY <1>2, <1>3
  <2> QED BY <2>1, <2>2 DEF LendersLead
<1>5. w \in Users(d)' => w \in S
  <2>1. SUFFICES ASSUME w \in Users(d)' PROVE w \in S
    OBVIOUS
  <2>2. r.display = d
    BY <1>1, <2>1 DEF Users, Unix!Display
  <2>3. CASE r.lender = NoWrapper
    BY <1>1, <1>2, <2>1, <2>3 DEF Heads
  <2>4. CASE r.lender \in Users(d)
    BY <1>1, <1>2, <1>4, <2>1, <2>4
  <2> QED BY <2>2, <2>3, <2>4
<1>6. \A v \in Users(d)' : v # w => v \in Users(d)
  BY <1>1 DEF Users, Unix!Display
<1> QED BY <1>4, <1>5, <1>6

LEMMA LeadsAfterDrop ==
    ASSUME Unix!ConnectionsAssumption, Unix!TypeOK, NEW d \in Unix!Displays, LendersLead(d),
           NEW w \in Wrappers, wrapper' = [wrapper EXCEPT ![w] = Unix!None],
           \A v \in Wrappers : wrapper[v].lender # w
    PROVE  LendersLead(d)'
<1>1. /\ \A v \in Wrappers \ {w} : wrapper'[v] = wrapper[v]
      /\ w \notin Users(d)'
  BY NoneType DEF Unix!Display, Unix!TypeOK, Users
<1>2. \A v \in Wrappers : v \in Users(d)' <=> v \in Users(d) /\ v # w
  BY <1>1 DEF Users, Unix!Display
<1>3. SUFFICES ASSUME NEW S \in SUBSET Wrappers, Heads(d)' \subseteq S,
                      \A v \in Users(d)' : wrapper'[v].lender \in S => v \in S
               PROVE  Users(d)' \subseteq S
  BY DEF LendersLead
<1>4. Users(d) \subseteq S \cup {w}
  <2>1. \A v \in Users(d) : wrapper[v].lender \in S \cup {w} => v \in S \cup {w}
    BY <1>1, <1>2, <1>3 DEF Users
  <2>2. S \cup {w} \in SUBSET Wrappers /\ Heads(d) \subseteq S \cup {w}
    BY <1>1, <1>2, <1>3 DEF Heads, Users
  <2> QED BY <2>1, <2>2 DEF LendersLead
<1> QED BY <1>2, <1>4 DEF Users

LEMMA LeadsSame ==
    ASSUME NEW d \in Unix!Displays, LendersLead(d), wrapper' = wrapper
    PROVE  LendersLead(d)'
BY DEF LendersLead, Heads, Users, Unix!Display

\* If nobody borrows from who alone borrows from none, it is the only user of its display.
LEMMA LastOwner ==
    ASSUME NEW w \in Wrappers, Heads(Unix!Display(w)) = {w}, LendersLead(Unix!Display(w)),
           \A v \in Wrappers : wrapper[v].lender # w
    PROVE  Users(Unix!Display(w)) = {w}
<1>1. {w} \in SUBSET Wrappers /\ Heads(Unix!Display(w)) \subseteq {w}
  OBVIOUS
<1>2. \A v \in Users(Unix!Display(w)) : wrapper[v].lender \in {w} => v \in {w}
  BY DEF Users
<1>3. Users(Unix!Display(w)) \subseteq {w}
  BY <1>1, <1>2 DEF LendersLead
<1> QED BY <1>3 DEF Users

-----------------------------------------------------------------------------
(* Steps that take a wrapper. *)

\* The facts of a wrapper r taken by w, for whatever display.
Taken(w, r) ==
    /\ wrapper' = [wrapper EXCEPT ![w] = r]
    /\ connections' = [connections EXCEPT ![w] = 1]
    /\ UNCHANGED devices

\* Displays are opened, and stay open and initialised if they were.
Grows ==
    /\ native' \in [Unix!Displays -> {"unopened", "open", "closed"}]
    /\ opener' \in [Unix!Displays -> {"surfman", "application"}]
    /\ egl \subseteq egl' /\ egl' \subseteq Unix!Displays /\ shared' \subseteq X11Displays
    /\ \A d \in Unix!Displays : native[d] # "unopened" =>
          native'[d] = native[d] /\ opener'[d] = opener[d]

\* New displays apart, nothing changes for X11; and no display in use ceases to be shared.
OnlyFor(d) ==
    /\ \A e \in X11Displays \ {d} :
          /\ e \in egl' => e \in egl
          /\ e \in shared' <=> e \in shared
          /\ native'[e] = "open" /\ native[e] # "open" => opener'[e] = "application"
    /\ Users(d) # {} /\ d \in shared => d \in shared'

\* A borrower owns nothing.
Borrows(r) ==
    /\ r.lender \in Users(r.display) /\ ~r.ownsEgl /\ ~r.ownsNative
    /\ UNCHANGED <<native, opener, egl, shared>>

\* Who borrows from none is the first user of its display, or there is no owner but
\* such as know that they share it.
Leads(r) ==
    /\ r.lender = NoWrapper
    /\ r.display \in X11Displays =>
          r.ownsEgl /\ (opener'[r.display] = "surfman" => r.ownsNative)
    /\ r.ownsEgl => r.display \in X11Displays
    /\ r.ownsNative =>
          opener'[r.display] = "surfman" /\ r.display # Surfaceless /\ Users(r.display) = {}
    /\ Users(r.display) = {} \/ r.display \in shared' \/ r.display \notin X11Displays
    /\ \A v \in Users(r.display) : ~wrapper[v].ownsNative

LEMMA Taking ==
    ASSUME Unix!ConnectionsAssumption, UnixInv, NEW w \in Wrappers, Unix!Free(w),
           NEW r \in WrapperType,
           Taken(w, r), Grows, OnlyFor(r.display), result' \in {"ok", "err"},
           r.display \in Unix!Displays, native'[r.display] = "open",
           r.display \in egl' \cup shared',
           Borrows(r) \/ Leads(r)
    PROVE  UnixInv'
<1> DEFINE d == r.display
<1>0. /\ \A v \in Wrappers \ {w} :
            /\ wrapper'[v] = wrapper[v]
            /\ Unix!Display(v)' = Unix!Display(v)
            /\ Owns(v)' = Owns(v) /\ Unix!Live(v)' = Unix!Live(v)
      /\ wrapper'[w] = r /\ Unix!Display(w)' = d
      /\ Unix!Display(w) \notin Unix!Displays /\ ~Owns(w) /\ wrapper[w] = Unix!None
  BY NoneType DEF UnixInv, Unix!TypeOK, Taken, Unix!Display, Owns, Unix!Live, Unix!Free
<1>1. Unix!TypeOK'
  BY DEF UnixInv, Unix!TypeOK, Taken, Grows, WrapperType, Unix!ConnectionsAssumption
<1>2. HeldInv'
  <2>1. Unix!Live(w)' /\ wrapper'[w] # Unix!None
    BY <1>0, NoneType DEF UnixInv, Unix!TypeOK, Taken, Unix!Live, Unix!ConnectionsAssumption
  <2>2. ASSUME NEW v \in Wrappers \ {w}, wrapper[v] # Unix!None
        PROVE  /\ Unix!Display(v) \in Unix!Displays /\ native'[Unix!Display(v)] = "open"
               /\ Unix!Display(v) \in egl' \cup shared'
    <3>1. /\ Unix!Display(v) \in Unix!Displays /\ native[Unix!Display(v)] = "open"
          /\ Unix!Display(v) \in egl \cup shared
      BY <2>2 DEF UnixInv, HeldInv
    <3>2. Unix!Display(v) \in shared => Unix!Display(v) \in shared'
      BY <2>2 DEF OnlyFor, Users, UnixInv, Unix!TypeOK
    <3> QED BY <3>1, <3>2 DEF Grows
  <2> QED BY <1>0, <2>1, <2>2 DEF UnixInv, HeldInv
<1>3. LenderInv'
  <2>1. ASSUME NEW e \in Unix!Displays PROVE LendersLead(e)'
    <3>1. LendersLead(e) /\ wrapper' = [wrapper EXCEPT ![w] = r] /\ wrapper[w] = Unix!None
      BY <1>0, <2>1 DEF UnixInv, LenderInv, Taken
    <3>2. r.display = e => r.lender \in Users(e) \cup {NoWrapper}
      BY DEF Borrows, Leads
    <3> QED BY <2>1, <3>1, <3>2, LeadsAfterWrap DEF UnixInv
  <2>2. ASSUME NEW v \in Wrappers, wrapper'[v].lender # NoWrapper
        PROVE  Unix!Display(v)' = wrapper'[wrapper'[v].lender].display /\ ~Owns(v)'
    <3>1. CASE v # w
      <4>1. wrapper'[v] = wrapper[v] /\ wrapper[v].lender # NoWrapper /\ wrapper[v] # Unix!None
        BY <1>0, <2>2, <3>1 DEF Unix!None
      <4>2. PICK u \in Wrappers : u = wrapper[v].lender
        BY <4>1 DEF UnixInv, Unix!TypeOK
      <4>3. Unix!Display(v) = Unix!Display(u) /\ ~Owns(v) /\ Unix!Display(v) \in Unix!Displays
        BY <4>1, <4>2 DEF UnixInv, LenderInv, HeldInv
      <4>4. u \in Wrappers \ {w}
        BY <1>0, <4>3
      <4>5. wrapper'[u].display = Unix!Display(u)
        BY <1>0, <4>4 DEF Unix!Display
      <4> QED BY <1>0, <3>1, <4>1, <4>2, <4>3, <4>5
    <3>2. CASE v = w
      <4>1. r.lender \in Users(d) /\ ~r.ownsEgl /\ ~r.ownsNative
        BY <1>0, <2>2, <3>2 DEF Borrows, Leads
      <4>2. r.lender \in Wrappers \ {w} /\ Unix!Display(r.lender) = d
        BY <1>0, <4>1 DEF Users
      <4>3. wrapper'[r.lender].display = d
        BY <1>0, <4>2 DEF Unix!Display
      <4> QED BY <1>0, <3>2, <4>1, <4>3 DEF Owns
    <3> QED BY <3>1, <3>2
  <2> QED BY <2>1, <2>2 DEF LenderInv, Unix!Display
<1>4. /\ \A e \in Unix!Displays : Users(e)' = IF e = d THEN Users(e) \cup {w} ELSE Users(e)
      /\ \A e \in Unix!Displays : Heads(e)' =
            IF e = d /\ r.lender = NoWrapper THEN Heads(e) \cup {w} ELSE Heads(e)
  BY <1>0 DEF Users, Heads
<1>5. ASSUME NEW o \in Wrappers, Owns(o)' PROVE OwnedBy(o)'
  <2>1. CASE o # w
    <3>1. /\ Unix!Display(o) \in Unix!Displays /\ native[Unix!Display(o)] = "open"
          /\ o \in Users(Unix!Display(o)) /\ Owns(o) /\ OwnedBy(o)
      BY <1>0, <1>5, <2>1, NoneType DEF UnixInv, OwnerInv, HeldInv, Users, Owns
    <3>2. opener'[Unix!Display(o)] = opener[Unix!Display(o)]
      BY <3>1 DEF Grows
    <3>3. wrapper'[o] = wrapper[o] /\ Unix!Display(o)' = Unix!Display(o)
      BY <1>0, <2>1
    <3>4. Unix!Display(o) \in shared => Unix!Display(o) \in shared'
      BY <3>1 DEF OnlyFor, UnixInv, Unix!TypeOK
    <3>5. ASSUME wrapper[o].ownsNative \/ Unix!Display(o) \notin shared'
          PROVE  Heads(Unix!Display(o))' = {o}
      <4>1. Heads(Unix!Display(o)) = {o}
        BY <3>1, <3>4, <3>5 DEF OwnedBy
      <4>2. CASE Unix!Display(o) = d /\ Leads(r)
        <5>1. ~wrapper[o].ownsNative /\ d \in X11Displays /\ Users(d) # {}
          BY <3>1, <4>2 DEF Leads, OwnedBy, Owns
        <5> QED BY <3>5, <4>2, <5>1 DEF Leads
      <4>3. CASE ~(Unix!Display(o) = d /\ Leads(r))
        <5>1. Unix!Display(o) = d => r.lender # NoWrapper
          BY <4>3 DEF Borrows, Users, Unix!ConnectionsAssumption
        <5>2. PICK e \in Unix!Displays : e = Unix!Display(o)
          BY <3>1
        <5>3. Heads(e)' = {o}
          BY <1>4, <4>1, <5>1, <5>2
        <5> QED BY <3>3, <5>2, <5>3 DEF Heads, Users
      <4> QED BY <4>2, <4>3
    <3> QED BY <3>1, <3>2, <3>3, <3>5 DEF OwnedBy
  <2>2. CASE o = w
    <3>1. Leads(r) /\ wrapper'[w] = r /\ Unix!Display(w)' = d
      BY <1>0, <1>5, <2>2 DEF Owns, Borrows
    <3>2. Users(d) = {} => Heads(d)' = {w}
      BY <1>4, <3>1 DEF Leads, Heads
    <3>3. r.ownsNative \/ d \notin shared' => Users(d) = {}
      BY <1>0, <1>5, <2>2, <3>1 DEF Leads, Owns
    <3> QED BY <2>2, <3>1, <3>2, <3>3 DEF OwnedBy, Leads
  <2> QED BY <2>1, <2>2
<1>6. ASSUME NEW v \in Wrappers PROVE HeadInv(v)'
  <2>1. SUFFICES ASSUME Unix!Display(v)' \in X11Displays, wrapper'[v].lender = NoWrapper
                 PROVE  wrapper'[v].ownsEgl /\ (opener'[Unix!Display(v)'] = "surfman" =>
                              wrapper'[v].ownsNative)
    BY DEF HeadInv
  <2>2. CASE v # w
    <3>1. HeadInv(v) /\ wrapper'[v] = wrapper[v] /\ Unix!Display(v)' = Unix!Display(v)
      BY <1>0, <2>2 DEF UnixInv, OwnerInv
    <3>2. Unix!Display(v) \in Unix!Displays /\ native[Unix!Display(v)] = "open"
      BY <2>1, <3>1, NoneType DEF UnixInv, HeldInv, Unix!Display, Unix!Displays
    <3>3. opener'[Unix!Display(v)] = opener[Unix!Display(v)]
      BY <3>2 DEF Grows
    <3> QED BY <2>1, <3>1, <3>3 DEF HeadInv
  <2>3. CASE v = w
    <3>1. Leads(r) /\ wrapper'[w] = r /\ Unix!Display(w)' = d
      BY <1>0, <2>1, <2>3 DEF Borrows, Users, Unix!ConnectionsAssumption
    <3> QED BY <2>1, <2>3, <3>1 DEF Leads
  <2> QED BY <2>2, <2>3
<1>7. ASSUME NEW e \in X11Displays, Users(e)' = {}
      PROVE  e \notin egl' /\ (native'[e] = "open" => opener'[e] = "application")
  <2>1. e # d /\ Users(e) = {} /\ e \in Unix!Displays
    BY <1>4, <1>7 DEF Unix!Displays
  <2>2. e \notin egl /\ (native[e] = "open" => opener[e] = "application")
    BY <1>7, <2>1 DEF UnixInv, OwnerInv
  <2>3. native[e] = "open" => opener'[e] = opener[e]
    BY <2>1 DEF Grows
  <2> QED BY <1>7, <2>1, <2>2, <2>3 DEF OnlyFor
<1>8. native'[Surfaceless] = "open"
  BY DEF UnixInv, Grows, Unix!Displays
<1> QED BY <1>1, <1>2, <1>3, <1>5, <1>6, <1>7, <1>8 DEF UnixInv, OwnerInv

\* A display that is not in use is in nobody's hands.
LEMMA Unused ==
    ASSUME Unix!ConnectionsAssumption, UnixInv, NEW d \in Unix!Displays,
           native[d] # "open" \/ \A w \in Wrappers : Unix!Live(w) => Unix!Display(w) # d
    PROVE  Users(d) = {}
<1>1. \A w \in Wrappers : wrapper[w] = Unix!None => Unix!Display(w) # d
  BY NoneType DEF Unix!Display
<1> QED BY <1>1 DEF UnixInv, HeldInv, Users

\* Nobody owns a native display that is the application's.
LEMMA NotOwned ==
    ASSUME UnixInv, NEW d \in Unix!Displays, opener[d] = "application" \/ d = Surfaceless
    PROVE  \A v \in Users(d) : ~wrapper[v].ownsNative
BY DEF UnixInv, OwnerInv, OwnedBy, Owns, Users

LEMMA NewTakes ==
    ASSUME Unix!ConnectionsAssumption, UnixInv, NEW w \in Wrappers, Unix!Free(w),
           NEW ds \in SUBSET (WaylandDisplays \cup X11Displays), \A e \in ds : Unix!Unopened(e),
           Unix!Opens(ds, "surfman"), NEW d \in Unix!Displays, egl' = egl \cup {d},
           ds \cap X11Displays \subseteq {d}, d # Surfaceless => d \in ds, shared' = shared
    PROVE  /\ d \in X11Displays /\ Unix!Wraps(w, d, TRUE, TRUE, NoWrapper) => UnixInv'
           /\ d \in WaylandDisplays /\ Unix!Wraps(w, d, FALSE, TRUE, NoWrapper) => UnixInv'
           /\ d = Surfaceless /\ Unix!Wraps(w, d, FALSE, FALSE, NoWrapper) => UnixInv'
<1>1. Grows
  BY DEF Grows, Unix!Opens, Unix!Unopened, UnixInv, Unix!TypeOK
<1>2. OnlyFor(d)
  BY DEF OnlyFor, Unix!Opens, Unix!Displays
<1>3. native'[d] = "open" /\ (d # Surfaceless => opener'[d] = "surfman")
  BY DEF Unix!Opens, UnixInv
<1>4. d # Surfaceless => Users(d) = {}
  BY Unused DEF Unix!Unopened
<1>5. ASSUME d \in X11Displays, Unix!Wraps(w, d, TRUE, TRUE, NoWrapper) PROVE UnixInv'
  <2> DEFINE r == [display |-> d, ownsEgl |-> TRUE, ownsNative |-> TRUE, lender |-> NoWrapper]
  <2>1. r \in WrapperType /\ Taken(w, r) /\ d # Surfaceless /\ result' = "ok"
    BY <1>5 DEF WrapperType, Unix!Wraps, Taken, Unix!ConnectionsAssumption
  <2>2. Leads(r)
    BY <1>3, <1>4, <1>5, <2>1 DEF Leads
  <2> QED BY <1>1, <1>2, <1>3, <2>1, <2>2, Taking
<1>6. ASSUME d \in WaylandDisplays, Unix!Wraps(w, d, FALSE, TRUE, NoWrapper) PROVE UnixInv'
  <2> DEFINE r == [display |-> d, ownsEgl |-> FALSE, ownsNative |-> TRUE, lender |-> NoWrapper]
  <2>1. /\ r \in WrapperType /\ Taken(w, r) /\ result' = "ok"
        /\ d # Surfaceless /\ d \notin X11Displays
    BY <1>6 DEF WrapperType, Unix!Wraps, Taken, Unix!ConnectionsAssumption
  <2>2. Leads(r)
    BY <1>3, <1>4, <1>6, <2>1 DEF Leads
  <2> QED BY <1>1, <1>2, <1>3, <2>1, <2>2, Taking
<1>7. ASSUME d = Surfaceless, Unix!Wraps(w, d, FALSE, FALSE, NoWrapper) PROVE UnixInv'
  <2> DEFINE r == [display |-> d, ownsEgl |-> FALSE, ownsNative |-> FALSE, lender |-> NoWrapper]
  <2>1. /\ r \in WrapperType /\ Taken(w, r) /\ result' = "ok"
        /\ d \notin X11Displays
    BY <1>7 DEF WrapperType, Unix!Wraps, Taken, Unix!ConnectionsAssumption
  <2>2. Leads(r)
    BY <1>7, <2>1, NotOwned DEF Leads
  <2> QED BY <1>1, <1>2, <1>3, <2>1, <2>2, Taking
<1> QED BY <1>5, <1>6, <1>7

LEMMA BorrowTakes ==
    ASSUME Unix!ConnectionsAssumption, UnixInv, NEW w \in Wrappers, NEW v \in Wrappers,
           Unix!FromNativeConnection(w, v), Unix!Display(v) # Surfaceless
    PROVE  UnixInv'
<1> DEFINE r == [display |-> Unix!Display(v), ownsEgl |-> FALSE,
                 ownsNative |-> FALSE, lender |-> v]
<1>1. /\ Unix!Free(w) /\ Taken(w, r) /\ result' = "ok"
      /\ UNCHANGED <<native, opener, egl, shared>>
      /\ connections[v] > 0
  BY DEF Unix!FromNativeConnection, Unix!Wraps, Taken, Unix!displayVars
<1>2. Unix!Live(v)
  BY <1>1 DEF UnixInv, Unix!TypeOK, Unix!Live, Unix!ConnectionsAssumption
<1>3. Unix!Display(v) \in Unix!Displays /\ native[Unix!Display(v)] = "open"
      /\ Unix!Display(v) \in egl \cup shared
  BY <1>2 DEF UnixInv, HeldInv
<1>4. r \in WrapperType /\ Borrows(r)
  BY <1>1, <1>3 DEF WrapperType, Users, Borrows
<1>5. Grows /\ OnlyFor(r.display)
  BY <1>1 DEF Grows, OnlyFor, UnixInv, Unix!TypeOK
<1> QED BY <1>1, <1>3, <1>4, <1>5, Taking

LEMMA HandleTakes ==
    ASSUME Unix!ConnectionsAssumption, UnixInv, NEW w \in Wrappers, NEW d \in Unix!Displays,
           Unix!Free(w),
           native[d] = "open", opener[d] = "application", UNCHANGED <<native, opener>>,
           egl' = egl \cup {d}
    PROVE  /\ /\ d \in X11Displays /\ Unix!Wraps(w, d, TRUE, FALSE, NoWrapper)
              /\ shared' = IF Unix!InUse(d) THEN shared \cup {d} ELSE shared \ {d}
              => UnixInv'
           /\ /\ d \in WaylandDisplays /\ Unix!Wraps(w, d, FALSE, FALSE, NoWrapper)
              /\ shared' = shared
              => UnixInv'
<1>1. \A v \in Users(d) : ~wrapper[v].ownsNative
  BY NotOwned
<1>2. ASSUME d \in X11Displays, Unix!Wraps(w, d, TRUE, FALSE, NoWrapper),
             shared' = IF Unix!InUse(d) THEN shared \cup {d} ELSE shared \ {d}
      PROVE  UnixInv'
  <2> DEFINE r == [display |-> d, ownsEgl |-> TRUE, ownsNative |-> FALSE, lender |-> NoWrapper]
  <2>1. r \in WrapperType /\ Taken(w, r) /\ result' = "ok"
    BY <1>2 DEF WrapperType, Unix!Wraps, Taken, Users
  <2>2. Unix!InUse(d) <=> Users(d) # {}
    BY DEF Unix!InUse, Users
  <2>3. Grows /\ OnlyFor(d)
    BY <1>2, <2>2 DEF Grows, OnlyFor, UnixInv, Unix!TypeOK
  <2>4. Leads(r)
    BY <1>1, <1>2, <2>2 DEF Leads
  <2> QED BY <2>1, <2>3, <2>4, Taking
<1>3. ASSUME d \in WaylandDisplays, Unix!Wraps(w, d, FALSE, FALSE, NoWrapper),
             shared' = shared
      PROVE  UnixInv'
  <2> DEFINE r == [display |-> d, ownsEgl |-> FALSE, ownsNative |-> FALSE, lender |-> NoWrapper]
  <2>1. r \in WrapperType /\ Taken(w, r) /\ result' = "ok" /\ d \notin X11Displays
    BY <1>3 DEF WrapperType, Unix!Wraps, Taken, Unix!ConnectionsAssumption
  <2>2. Grows /\ OnlyFor(d)
    BY <1>3 DEF Grows, OnlyFor, UnixInv, Unix!TypeOK
  <2>3. Leads(r)
    BY <1>1, <2>1 DEF Leads
  <2> QED BY <2>1, <2>2, <2>3, Taking
<1> QED BY <1>2, <1>3

-----------------------------------------------------------------------------
(* Steps that take none. *)

\* Handles come and go, and the wrappers stay.
LEMMA Counts ==
    ASSUME UnixInv, UNCHANGED <<Unix!displayVars, wrapper>>,
           connections' \in [Wrappers -> 0 .. MaxHandles],
           devices' \in [Wrappers -> 0 .. MaxHandles], result' \in {"ok", "err"},
           \A w \in Wrappers : Unix!Live(w)' <=> Unix!Live(w)
    PROVE  UnixInv'
<1>1. Unix!TypeOK'
  BY DEF UnixInv, Unix!TypeOK, Unix!displayVars
<1>2. HeldInv'
  BY DEF UnixInv, HeldInv, Unix!Display, Unix!displayVars
<1>3. LenderInv'
  BY LeadsSame DEF UnixInv, LenderInv, Unix!Display, Owns
<1>4. OwnerInv'
  BY DEF UnixInv, OwnerInv, OwnedBy, HeadInv, Unix!Display, Owns, Users, Heads,
         Unix!displayVars
<1> QED BY <1>1, <1>2, <1>3, <1>4 DEF UnixInv, Unix!displayVars

\* Displays that nobody uses are opened and closed.
LEMMA Elsewhere ==
    ASSUME Unix!ConnectionsAssumption, UnixInv, UNCHANGED <<egl, shared, Unix!handleVars>>,
           result' \in {"ok", "err"},
           native' \in [Unix!Displays -> {"unopened", "open", "closed"}],
           opener' \in [Unix!Displays -> {"surfman", "application"}],
           NEW ds \in SUBSET (Unix!Displays \ {Surfaceless}),
           \A d \in ds :
              /\ Users(d) = {}
              /\ d \in X11Displays => (native'[d] = "open" => opener'[d] = "application"),
           \A d \in Unix!Displays \ ds : native'[d] = native[d] /\ opener'[d] = opener[d]
    PROVE  UnixInv'
<1>1. Unix!TypeOK'
  BY DEF UnixInv, Unix!TypeOK, Unix!handleVars
<1>2. \A w \in Wrappers : /\ Unix!Display(w) \notin ds /\ Unix!Display(w)' = Unix!Display(w)
                          /\ Owns(w)' = Owns(w) /\ Unix!Live(w)' = Unix!Live(w)
  BY DEF Users, Unix!Display, Owns, Unix!Live, Unix!handleVars
<1>3. HeldInv'
  BY <1>2 DEF UnixInv, HeldInv, Unix!handleVars
<1>4. LenderInv'
  BY LeadsSame DEF UnixInv, LenderInv, Unix!Display, Owns, Unix!handleVars
<1>5. ASSUME NEW o \in Wrappers PROVE (Owns(o)' => OwnedBy(o)') /\ HeadInv(o)'
  <2>1. /\ Owns(o) => OwnedBy(o)
        /\ HeadInv(o) /\ wrapper' = wrapper /\ shared' = shared
    BY DEF UnixInv, OwnerInv, Unix!handleVars
  <2>2. Unix!Display(o) \in Unix!Displays => opener'[Unix!Display(o)] = opener[Unix!Display(o)]
    BY <1>2
  <2>3. Unix!Display(o) \in Unix!Displays \/ (~Owns(o) /\ Unix!Display(o) \notin X11Displays)
    BY NoneType DEF UnixInv, HeldInv, Owns, Unix!Display, Unix!Displays
  <2>4. Heads(Unix!Display(o))' = Heads(Unix!Display(o))
    BY <2>1 DEF Heads, Users, Unix!Display
  <2> QED BY <1>2, <2>1, <2>2, <2>3, <2>4 DEF OwnedBy, HeadInv
<1>6. ASSUME NEW d \in X11Displays, Users(d)' = {}
      PROVE  d \notin egl' /\ (native'[d] = "open" => opener'[d] = "application")
  <2>1. Users(d) = {} /\ d \in Unix!Displays
    BY <1>6 DEF Users, Unix!Display, Unix!Displays, Unix!handleVars
  <2>2. d \notin egl /\ (native[d] = "open" => opener[d] = "application")
    BY <1>6, <2>1 DEF UnixInv, OwnerInv
  <2> QED BY <1>6, <2>1, <2>2
<1>7. native'[Surfaceless] = "open"
  BY DEF UnixInv, Unix!Displays
<1> QED BY <1>1, <1>3, <1>4, <1>5, <1>6, <1>7 DEF UnixInv, OwnerInv

-----------------------------------------------------------------------------
(* The last handle. *)

LEMMA Disposing ==
    ASSUME Unix!ConnectionsAssumption, UnixInv, NEW w \in Wrappers, wrapper[w] # Unix!None,
           \A v \in Wrappers : wrapper[v].lender # w,
           native' = IF wrapper[w].ownsNative
                     THEN [native EXCEPT ![Unix!Display(w)] = "closed"] ELSE native,
           egl' = IF wrapper[w].ownsEgl THEN egl \ {Unix!Display(w)} ELSE egl,
           wrapper' = [wrapper EXCEPT ![w] = Unix!None],
           opener' = opener, shared' = shared, result' = "ok",
           connections' \in [Wrappers -> 0 .. MaxHandles],
           devices' \in [Wrappers -> 0 .. MaxHandles],
           ~Unix!Live(w)', \A v \in Wrappers \ {w} : Unix!Live(v)' = Unix!Live(v)
    PROVE  UnixInv'
<1> DEFINE d == Unix!Display(w)
<1>1. Unix!TypeOK'
  BY NoneType DEF UnixInv, Unix!TypeOK, HeldInv, WrapperType
<1>2. /\ \A v \in Wrappers \ {w} :
            /\ wrapper'[v] = wrapper[v]
            /\ Unix!Display(v)' = Unix!Display(v) /\ Owns(v)' = Owns(v)
      /\ wrapper'[w] = Unix!None /\ Unix!Display(w)' \notin Unix!Displays /\ ~Owns(w)'
      /\ d \in Unix!Displays
  BY NoneType DEF UnixInv, Unix!TypeOK, Unix!Display, Owns, HeldInv
<1>3. wrapper[w].ownsNative \/ (wrapper[w].ownsEgl /\ d \notin shared) => Users(d) = {w}
  BY <1>2, LastOwner DEF UnixInv, LenderInv, OwnerInv, OwnedBy, Owns
<1>4. ASSUME NEW v \in Wrappers \ {w}, Unix!Display(v) \in Unix!Displays
      PROVE  /\ native'[Unix!Display(v)] = native[Unix!Display(v)]
             /\ Unix!Display(v) \in egl \cup shared => Unix!Display(v) \in egl' \cup shared'
  <2>1. v \in Users(Unix!Display(v))
    BY DEF Users
  <2>2. Unix!Display(v) # d \/ Users(d) # {w}
    BY <2>1
  <2>3. native'[Unix!Display(v)] = native[Unix!Display(v)]
    BY <1>3, <1>4, <2>2 DEF UnixInv, Unix!TypeOK
  <2>4. Unix!Display(v) \in egl /\ Unix!Display(v) \notin egl' => Unix!Display(v) \in shared'
    BY <1>3, <2>2
  <2> QED BY <2>3, <2>4
<1>5. HeldInv'
  BY <1>2, <1>4 DEF UnixInv, HeldInv
<1>6. LenderInv'
  <2>1. \A e \in Unix!Displays : LendersLead(e)'
    BY LeadsAfterDrop DEF UnixInv, LenderInv
  <2>2. ASSUME NEW v \in Wrappers, wrapper'[v].lender # NoWrapper
        PROVE  Unix!Display(v)' = wrapper'[wrapper'[v].lender].display /\ ~Owns(v)'
    <3>1. v # w /\ wrapper'[v] = wrapper[v]
      BY <1>2, <2>2 DEF Unix!None
    <3>2. PICK u \in Wrappers \ {w} : u = wrapper[v].lender
      BY <2>2, <3>1 DEF UnixInv, Unix!TypeOK
    <3>3. Unix!Display(v) = Unix!Display(u) /\ ~Owns(v)
      BY <2>2, <3>1, <3>2 DEF UnixInv, LenderInv
    <3>4. wrapper'[u].display = Unix!Display(u)
      BY <1>2, <3>2 DEF Unix!Display
    <3> QED BY <1>2, <3>1, <3>2, <3>3, <3>4
  <2> QED BY <2>1, <2>2 DEF LenderInv, Unix!Display
<1>7. ASSUME NEW o \in Wrappers, Owns(o)' PROVE OwnedBy(o)'
  <2>1. /\ o # w /\ OwnedBy(o) /\ wrapper'[o] = wrapper[o]
        /\ Unix!Display(o)' = Unix!Display(o)
    BY <1>2, <1>7 DEF UnixInv, OwnerInv
  <2>2. Unix!Display(o) \in Unix!Displays
    BY <1>2, <1>7, <2>1, NoneType DEF UnixInv, HeldInv, Owns
  <2>3. Heads(Unix!Display(o)) = {o} => Heads(Unix!Display(o))' = {o}
    BY <1>2, <2>1, <2>2 DEF Heads, Users
  <2> QED BY <2>1, <2>3 DEF OwnedBy
<1>8. ASSUME NEW v \in Wrappers PROVE HeadInv(v)'
  BY <1>2 DEF UnixInv, OwnerInv, HeadInv, Unix!Displays
<1>9. ASSUME NEW e \in X11Displays, Users(e)' = {}
       PROVE  e \notin egl' /\ (native'[e] = "open" => opener'[e] = "application")
  <2>1. \A v \in Users(e) : v = w
    BY <1>2, <1>9 DEF Users
  <2>2. e \in Unix!Displays
    BY DEF Unix!Displays
  <2>3. CASE Users(e) = {}
    <3>1. e # d
      BY <2>3 DEF Users
    <3> QED BY <2>2, <2>3, <3>1 DEF UnixInv, OwnerInv, Unix!TypeOK
  <2>4. CASE Users(e) # {}
    <3>1. e = d /\ Users(d) = {w}
      BY <2>1, <2>4 DEF Users
    <3>2. wrapper[w].lender = NoWrapper
      <4>1. SUFFICES ASSUME wrapper[w].lender # NoWrapper PROVE FALSE
        OBVIOUS
      <4>2. wrapper[w].lender \in Wrappers /\ Unix!Display(wrapper[w].lender) = d
        BY <4>1 DEF UnixInv, LenderInv, Unix!TypeOK
      <4>3. wrapper[w].lender = w
        BY <3>1, <4>2 DEF Users
      <4> QED BY <4>3
    <3>3. wrapper[w].ownsEgl /\ (opener[d] = "surfman" => wrapper[w].ownsNative)
      BY <3>1, <3>2 DEF UnixInv, OwnerInv, HeadInv
    <3>4. d \notin egl'
      BY <3>3
    <3>5. wrapper[w].ownsNative => native'[d] = "closed"
      BY <2>2, <3>1 DEF UnixInv, Unix!TypeOK
    <3>6. opener[d] \in {"surfman", "application"}
      BY <2>2, <3>1 DEF UnixInv, Unix!TypeOK
    <3> QED BY <3>1, <3>3, <3>4, <3>5, <3>6
  <2> QED BY <2>3, <2>4
<1>10. native'[Surfaceless] = "open"
  <2>1. wrapper[w].ownsNative => d # Surfaceless
    BY DEF UnixInv, OwnerInv, OwnedBy, Owns
  <2> QED BY <2>1 DEF UnixInv, Unix!TypeOK
<1> QED BY <1>1, <1>5, <1>6, <1>7, <1>8, <1>9, <1>10 DEF UnixInv, OwnerInv

LEMMA Dropping ==
    ASSUME Unix!ConnectionsAssumption, UnixInv, NEW w \in Wrappers, Unix!MayDrop(w),
           Unix!Disposes(w),
           \/ /\ connections[w] > 0
              /\ connections' = [connections EXCEPT ![w] = @ - 1] /\ UNCHANGED devices
           \/ /\ devices[w] > 0
              /\ devices' = [devices EXCEPT ![w] = @ - 1] /\ UNCHANGED connections,
           UNCHANGED <<opener, shared>>, result' = "ok"
    PROVE  UnixInv'
<1>1. /\ connections \in [Wrappers -> 0 .. MaxHandles]
      /\ devices \in [Wrappers -> 0 .. MaxHandles] /\ MaxHandles \in Nat
  BY DEF UnixInv, Unix!TypeOK, Unix!ConnectionsAssumption
<1>2. /\ connections' \in [Wrappers -> 0 .. MaxHandles]
      /\ devices' \in [Wrappers -> 0 .. MaxHandles]
  BY <1>1
<1>3. \A v \in Wrappers \ {w} : Unix!Live(v)' = Unix!Live(v)
  BY <1>1 DEF Unix!Live
<1>4. /\ connections[w] + devices[w] \in Nat \ {0}
      /\ connections'[w] + devices'[w] = connections[w] + devices[w] - 1
  BY <1>1
<1>5. Unix!Live(w)
  BY <1>4 DEF Unix!Live
<1>6. CASE connections'[w] + devices'[w] > 0
  <2>1. UNCHANGED <<native, egl, wrapper>>
    BY <1>6 DEF Unix!Disposes
  <2>2. Unix!Live(w)'
    BY <1>6 DEF Unix!Live
  <2> QED BY <1>2, <1>3, <1>5, <2>1, <2>2, Counts DEF Unix!displayVars
<1>7. CASE ~(connections'[w] + devices'[w] > 0)
  <2>1. ~Unix!Live(w)'
    BY <1>7 DEF Unix!Live
  <2>2. connections[w] + devices[w] = 1
    <3>1. /\ connections[w] \in Nat /\ devices[w] \in Nat
          /\ connections'[w] \in Nat /\ devices'[w] \in Nat
      BY <1>1, <1>2
    <3> QED BY <1>4, <1>7, <3>1
  <2>3. \A v \in Wrappers : wrapper[v].lender # w
    BY <2>2 DEF Unix!MayDrop
  <2>4. wrapper[w] # Unix!None
    BY <1>5 DEF UnixInv, HeldInv
  <2> QED BY <1>2, <1>3, <1>7, <2>1, <2>3, <2>4, Disposing DEF Unix!Disposes
<1> QED BY <1>6, <1>7

-----------------------------------------------------------------------------
(* The invariant. *)

LEMMA UnixInitInv ==
    ASSUME Unix!ConnectionsAssumption, Unix!Init PROVE UnixInv
<1>1. Unix!TypeOK
  BY NoneType DEF Unix!Init, Unix!TypeOK, WrapperType, Unix!ConnectionsAssumption
<1>2. \A w \in Wrappers : /\ wrapper[w] = Unix!None /\ ~Unix!Live(w) /\ ~Owns(w)
                          /\ Unix!Display(w) \notin Unix!Displays
  BY NoneType DEF Unix!Init, Unix!Live, Owns, Unix!Display
<1>3. HeldInv
  BY <1>2 DEF HeldInv
<1>4. LenderInv
  <2>1. \A d \in Unix!Displays : Users(d) = {}
    BY <1>2 DEF Users
  <2>2. \A d \in Unix!Displays : LendersLead(d)
    BY <2>1 DEF LendersLead
  <2> QED BY <1>2, <2>2 DEF LenderInv, Unix!None
<1>5. OwnerInv
  <2>1. \A d \in X11Displays : d \notin egl /\ native[d] # "open"
    BY DEF Unix!Init, Unix!Displays, Unix!ConnectionsAssumption
  <2> QED BY <1>2, <2>1 DEF OwnerInv, HeadInv, Unix!Displays
<1>6. native[Surfaceless] = "open"
  BY DEF Unix!Init, Unix!Displays
<1> QED BY <1>1, <1>3, <1>4, <1>5, <1>6 DEF UnixInv

LEMMA NewInv ==
    ASSUME Unix!ConnectionsAssumption, UnixInv, NEW w \in Wrappers, Unix!New(w) PROVE UnixInv'
<1>1. Unix!Free(w) /\ shared' = shared
  BY DEF Unix!New
<1>2. CASE Unix!NewWayland(w)
  <2>1. PICK d \in WaylandDisplays :
           /\ Unix!Unopened(d) /\ Unix!Opens({d}, "surfman") /\ egl' = egl \cup {d}
           /\ Unix!Wraps(w, d, FALSE, TRUE, NoWrapper)
    BY <1>2 DEF Unix!NewWayland
  <2>2. {d} \in SUBSET (WaylandDisplays \cup X11Displays) /\ d \in Unix!Displays
    BY DEF Unix!Displays
  <2> QED BY <1>1, <2>1, <2>2, NewTakes
<1>3. ASSUME NEW left \in Unix!WaylandLeaves
      PROVE  /\ left \in SUBSET WaylandDisplays /\ left \cap X11Displays = {}
             /\ \A e \in left : Unix!Unopened(e)
  BY <1>3 DEF Unix!WaylandLeaves, Unix!ConnectionsAssumption
<1>4. ASSUME NEW left \in Unix!WaylandLeaves, Unix!NewX11(w, left) PROVE UnixInv'
  <2>1. PICK d \in X11Displays :
           /\ Unix!Unopened(d) /\ Unix!Opens(left \cup {d}, "surfman") /\ egl' = egl \cup {d}
           /\ Unix!Wraps(w, d, TRUE, TRUE, NoWrapper)
    BY <1>4 DEF Unix!NewX11
  <2>2. /\ left \cup {d} \in SUBSET (WaylandDisplays \cup X11Displays) /\ d \in Unix!Displays
        /\ \A e \in left \cup {d} : Unix!Unopened(e)
        /\ (left \cup {d}) \cap X11Displays \subseteq {d}
    BY <1>3, <2>1 DEF Unix!Displays
  <2> QED BY <1>1, <2>1, <2>2, NewTakes
<1>5. ASSUME NEW left \in Unix!WaylandLeaves, Unix!NewSurfaceless(w, left) PROVE UnixInv'
  <2>1. /\ left \in SUBSET (WaylandDisplays \cup X11Displays) /\ Surfaceless \in Unix!Displays
        /\ \A e \in left : Unix!Unopened(e)
        /\ left \cap X11Displays \subseteq {Surfaceless}
    BY <1>3 DEF Unix!Displays
  <2>2. CASE egl' = egl \cup {Surfaceless}
        /\ Unix!Wraps(w, Surfaceless, FALSE, FALSE, NoWrapper)
    BY <1>1, <1>5, <2>1, <2>2, NewTakes DEF Unix!NewSurfaceless
  <2>3. CASE Unix!Fails /\ UNCHANGED egl
    <3>1. /\ left \in SUBSET (Unix!Displays \ {Surfaceless})
          /\ \A d \in left : Users(d) = {} /\ d \notin X11Displays
      BY <1>3, <2>1, Unused DEF Unix!Unopened, Unix!Displays, Unix!ConnectionsAssumption
    <3>2. /\ native' \in [Unix!Displays -> {"unopened", "open", "closed"}]
          /\ opener' \in [Unix!Displays -> {"surfman", "application"}]
          /\ \A d \in Unix!Displays \ left : native'[d] = native[d] /\ opener'[d] = opener[d]
      BY <1>5 DEF Unix!NewSurfaceless, Unix!Opens, UnixInv, Unix!TypeOK
    <3>3. UNCHANGED <<egl, shared, Unix!handleVars>> /\ result' \in {"ok", "err"}
      BY <1>1, <2>3 DEF Unix!Fails
    <3> QED BY <3>1, <3>2, <3>3, Elsewhere
  <2> QED BY <1>5, <2>2, <2>3 DEF Unix!NewSurfaceless
<1> QED BY <1>2, <1>4, <1>5 DEF Unix!New

LEMMA HandleInv ==
    ASSUME Unix!ConnectionsAssumption, UnixInv, NEW w \in Wrappers, NEW d \in Unix!Displays,
           Unix!FromDisplayHandle(w, d)
    PROVE  UnixInv'
<1>1. CASE Unix!Fails /\ UNCHANGED <<egl, shared>>
  BY <1>1, Counts DEF Unix!FromDisplayHandle, Unix!Fails, UnixInv, Unix!TypeOK,
         Unix!handleVars, Unix!displayVars, Unix!Live
<1>2. CASE ~(Unix!Fails /\ UNCHANGED <<egl, shared>>)
  BY <1>2, HandleTakes DEF Unix!FromDisplayHandle
<1> QED BY <1>1, <1>2

LEMMA BorrowInv ==
    ASSUME Unix!ConnectionsAssumption, UnixInv, NEW w \in Wrappers, NEW v \in Wrappers,
           Unix!FromNativeConnection(w, v)
    PROVE  UnixInv'
<1>1. CASE Unix!Display(v) = Surfaceless
  <2>1. /\ connections[v] \in 1 .. MaxHandles - 1
        /\ connections' = [connections EXCEPT ![v] = @ + 1] /\ result' = "ok"
        /\ UNCHANGED <<Unix!displayVars, wrapper, devices>>
    BY <1>1 DEF Unix!FromNativeConnection, UnixInv, Unix!TypeOK, Unix!ConnectionsAssumption
  <2>2. /\ connections' \in [Wrappers -> 0 .. MaxHandles]
        /\ \A u \in Wrappers : Unix!Live(u)' <=> Unix!Live(u)
    BY <2>1 DEF UnixInv, Unix!TypeOK, Unix!Live, Unix!ConnectionsAssumption
  <2> QED BY <2>1, <2>2, Counts DEF UnixInv, Unix!TypeOK
<1>2. CASE Unix!Display(v) # Surfaceless
  BY <1>2, BorrowTakes
<1> QED BY <1>1, <1>2

LEMMA CountInv ==
    ASSUME Unix!ConnectionsAssumption, UnixInv, NEW w \in Wrappers,
           \/ Unix!Clone(w) \/ Unix!DeviceConnection(w)
           \/ \E b \in {"wayland", "x11", "surfaceless"} : Unix!CreateDevice(w, b)
    PROVE  UnixInv'
<1>1. /\ UNCHANGED <<Unix!displayVars, wrapper>> /\ result' \in {"ok", "err"}
      /\ \/ Unix!Live(w) /\ connections[w] < MaxHandles /\ UNCHANGED devices
            /\ connections' = [connections EXCEPT ![w] = @ + 1]
         \/ Unix!Live(w) /\ devices[w] < MaxHandles /\ UNCHANGED connections
            /\ devices' = [devices EXCEPT ![w] = @ + 1]
         \/ UNCHANGED <<connections, devices>>
  BY DEF Unix!Clone, Unix!DeviceConnection, Unix!CreateDevice, Unix!Fails, Unix!handleVars,
         Unix!Live, UnixInv, Unix!TypeOK,
         Unix!ConnectionsAssumption
<1>2. /\ connections' \in [Wrappers -> 0 .. MaxHandles]
      /\ devices' \in [Wrappers -> 0 .. MaxHandles]
  BY <1>1 DEF UnixInv, Unix!TypeOK, Unix!ConnectionsAssumption
<1>3. \A u \in Wrappers : Unix!Live(u)' <=> Unix!Live(u)
  BY <1>1 DEF UnixInv, Unix!TypeOK, Unix!Live, Unix!ConnectionsAssumption
<1> QED BY <1>1, <1>2, <1>3, Counts

LEMMA AppInv ==
    ASSUME Unix!ConnectionsAssumption, UnixInv, NEW d \in Unix!Displays,
           Unix!AppOpens(d) \/ Unix!AppCloses(d)
    PROVE  UnixInv'
<1>1. {d} \in SUBSET (Unix!Displays \ {Surfaceless}) /\ Users(d) = {}
  BY Unused DEF Unix!AppOpens, Unix!AppCloses, Unix!Unopened
<1>2. /\ UNCHANGED <<egl, shared, Unix!handleVars>> /\ result' \in {"ok", "err"}
      /\ native' \in [Unix!Displays -> {"unopened", "open", "closed"}]
      /\ opener' \in [Unix!Displays -> {"surfman", "application"}]
      /\ \A e \in Unix!Displays \ {d} : native'[e] = native[e] /\ opener'[e] = opener[e]
      /\ native'[d] = "open" => opener'[d] = "application"
  BY DEF Unix!AppOpens, Unix!AppCloses, Unix!Opens, UnixInv, Unix!TypeOK
<1> QED BY <1>1, <1>2, Elsewhere

LEMMA UnixNextInv ==
    ASSUME Unix!ConnectionsAssumption, UnixInv, [Unix!Next]_(Unix!vars) PROVE UnixInv'
<1>1. CASE UNCHANGED Unix!vars
  BY <1>1, Counts DEF Unix!vars, Unix!handleVars, UnixInv, Unix!TypeOK, Unix!Live
<1>2. ASSUME NEW d \in Unix!Displays, Unix!AppOpens(d) \/ Unix!AppCloses(d) PROVE UnixInv'
  BY <1>2, AppInv
<1>3. ASSUME NEW w \in Wrappers, Unix!DropConnection(w) \/ Unix!DropDevice(w) PROVE UnixInv'
  BY <1>3, Dropping DEF Unix!DropConnection, Unix!DropDevice
<1>4. ASSUME NEW w \in Wrappers,
             \/ Unix!Clone(w) \/ Unix!DeviceConnection(w)
             \/ \E b \in {"wayland", "x11", "surfaceless"} : Unix!CreateDevice(w, b)
      PROVE  UnixInv'
  BY <1>4, CountInv
<1>5. ASSUME NEW w \in Wrappers, Unix!New(w) PROVE UnixInv'
  BY <1>5, NewInv
<1>6. ASSUME NEW w \in Wrappers, NEW d \in Unix!Displays, Unix!FromDisplayHandle(w,
             d) PROVE UnixInv'
  BY <1>6, HandleInv
<1>7. ASSUME NEW w \in Wrappers, NEW v \in Wrappers, Unix!FromNativeConnection(w,
             v) PROVE UnixInv'
  BY <1>7, BorrowInv
<1> QED BY <1>1, <1>2, <1>3, <1>4, <1>5, <1>6, <1>7 DEF Unix!Next

LEMMA UnixAlways == ASSUME Unix!ConnectionsAssumption PROVE Unix!Spec => []UnixInv
<1>1. Unix!Init => UnixInv
  BY UnixInitInv
<1>2. UnixInv /\ [Unix!Next]_(Unix!vars) => UnixInv'
  BY UnixNextInv
<1> QED BY <1>1, <1>2, PTL DEF Unix!Spec

\* Connections: every display, connection and device stays of its type, whatever fails.
THEOREM ConnectionsTypeCorrect ==
    ASSUME Unix!ConnectionsAssumption PROVE Unix!Spec => []Unix!TypeOK
<1>1. UnixInv => Unix!TypeOK
  BY DEF UnixInv
<1> QED BY <1>1, UnixAlways, PTL

LEMMA UnixSafe ==
    ASSUME Unix!ConnectionsAssumption, UnixInv PROVE Unix!DisplaysFollowUse
<1>1. SUFFICES ASSUME NEW d \in Unix!Displays
               PROVE  IF \E w \in Wrappers : Unix!Live(w) /\ Unix!Display(w) = d
                      THEN native[d] = "open" /\ d \in egl \cup shared
                      ELSE d \in X11Displays =>
                              d \notin egl /\ (native[d] = "open" => opener[d] = "application")
  BY DEF Unix!DisplaysFollowUse
<1>2. CASE \E w \in Wrappers : Unix!Live(w) /\ Unix!Display(w) = d
  BY <1>1, <1>2 DEF UnixInv, HeldInv
<1>3. CASE ~(\E w \in Wrappers : Unix!Live(w) /\ Unix!Display(w) = d)
  <2>1. Users(d) = {}
    BY <1>1, <1>3, Unused
  <2> QED BY <1>1, <1>3, <2>1 DEF UnixInv, OwnerInv
<1> QED BY <1>2, <1>3

-----------------------------------------------------------------------------
(* The process on either system: the other system's part stays as it began. *)

LEMMA ProcessInit == MCInit => Inv /\ UnixInv
BY InitInv, UnixInitInv, DisplaysAssumption DEF MCInit

LEMMA ProcessNext == Inv /\ UnixInv /\ [MCNext]_mcVars => Inv' /\ UnixInv'
<1> SUFFICES ASSUME Inv, UnixInv, [MCNext]_mcVars PROVE Inv' /\ UnixInv'
  OBVIOUS
<1>1. [Next]_vars
  BY DEF MCNext, mcVars
<1>2. [Unix!Next]_(Unix!vars)
  BY DEF MCNext, mcVars, unixVars, Unix!vars, Unix!displayVars, Unix!handleVars
<1> QED BY <1>1, <1>2, NextInv, UnixNextInv, DisplaysAssumption

\* NativeConnectionWrapper::drop: no native display is closed that a live connection or
\* device uses, and no EGL display terminated, however many borrow it and however they are
\* dropped, unless from_display_handle was given an X11 display that was in use, whose
\* EGL display two wrappers own; and once nothing uses an X11 display, its EGL display is
\* terminated, and the display closed if surfman opened it.
THEOREM DisplaysStayOpen == MCSpec => []DisplaysFollowUse
<1>1. UnixInv => DisplaysFollowUse
  BY UnixSafe, DisplaysAssumption DEF DisplaysFollowUse
<1> QED BY <1>1, ProcessInit, ProcessNext, PTL DEF MCSpec

\* HiddenWindow::new and drop, in the process that the run checks: windows follow their
\* owners whichever system it is on.
THEOREM ProcessWindowsAreClosed == MCSpec => []WindowsFollowOwners
BY WindowsSafe, ProcessInit, ProcessNext, PTL DEF MCSpec
=============================================================================
