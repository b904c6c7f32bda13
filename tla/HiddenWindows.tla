--------------------------- MODULE HiddenWindows ---------------------------
(***************************************************************************)
(* What the threads of a Windows process share under WGL (wgl/device.rs,   *)
(* wgl/context.rs): the extension functions, loaded once; the mutex over   *)
(* the context ids; and the window class of the hidden windows.  Every     *)
(* Device and Context has a hidden window.  A thread of its own creates it *)
(* and pumps its messages; creating it waits for the handle, dropping it   *)
(* posts WM_CLOSE and joins the thread.  That there is a window is not      *)
(* checked: without one the message reaches nobody, and the join waits on. *)
(*                                                                         *)
(* Devices and contexts do not move between threads, and each is known by  *)
(* its hidden window.  A panic ends the call; the application may go on.   *)
(***************************************************************************)
EXTENDS FiniteSets

CONSTANTS
    Threads,   \* of the application
    Windows,   \* hidden windows, each with its thread: bounds how many are ever made
    Nobody, NoWindow,
    Faults     \* what may fail

ASSUME HiddenWindowsAssumption ==
    /\ Nobody \notin Threads /\ NoWindow \notin Windows
    /\ Faults \subseteq {"load", "device", "context", "make_current", "window"}

VARIABLES
    loader,      \* WGL_EXTENSION_FUNCTIONS, a LazyLock
    extensions,  \* the groups of functions that were found
    mutex,       \* CREATE_CONTEXT_MUTEX: [holder, poisoned]
    registered,  \* the window class is registered
    call,        \* thread -> [op, at, window]: its call, and how far it is
    failing,     \* threads whose call is panicking
    pump,        \* window -> where its thread is
    posted,      \* windows to which WM_CLOSE was posted
    owner        \* window -> [by, as]: the thread and the object that holds it

procVars == <<loader, extensions, mutex, registered>>
threadVars == <<call, failing>>
windowVars == <<pump, posted, owner>>
vars == <<procVars, threadVars, windowVars>>

Extensions == {"create_context", "dx_interop"}
Ops == {"create_context", "wrap_context", "new_device", "wrap_device", "drop"}
Places == {"returned", "load", "lock", "spawn", "receive", "use", "close", "join"}

Idle == [op |-> "none", at |-> "returned", window |-> NoWindow]
Unowned == [by |-> Nobody, as |-> "nothing"]

TypeOK ==
    /\ loader \in {"unloaded", "loading", "loaded", "poisoned"}
    /\ extensions \subseteq Extensions
    /\ mutex \in [holder : Threads \cup {Nobody}, poisoned : BOOLEAN]
    /\ registered \in BOOLEAN
    /\ call \in [Threads -> [op : Ops \cup {"none"}, at : Places,
                             window : Windows \cup {NoWindow}]]
    /\ failing \subseteq Threads
    /\ pump \in [Windows -> {"absent", "asking", "registering", "creating", "pumping",
                             "windowless", "ended", "panicked", "gone"}]
    /\ posted \subseteq Windows
    /\ owner \in [Windows -> [by : Threads \cup {Nobody},
                              as : {"nothing", "call", "context", "device"}]]

-----------------------------------------------------------------------------
(* The application's threads. *)

Op(t) == call[t].op
Window(t) == call[t].window
At(t, p) == call[t].at = p
Goto(t, p) == call' = [call EXCEPT ![t].at = p]

Locks(o) == o \in {"create_context", "wrap_context"}

\* The call ends; a guard of the mutex is dropped, and poisons it in a panic.
Ends(t, panics) ==
    /\ call' = [call EXCEPT ![t] = Idle]
    /\ failing' = failing \ {t}
    /\ mutex' = IF mutex.holder # t THEN mutex
                ELSE [holder |-> Nobody, poisoned |-> mutex.poisoned \/ panics]

\* The call ends without a window.
EndsEmpty(t, panics) ==
    /\ Ends(t, panics)
    /\ owner' = [owner EXCEPT ![Window(t)] = Unowned]
    /\ UNCHANGED posted

Begin(t, op) ==
    /\ At(t, "returned")
    /\ op \in Ops \ {"drop"}
    /\ \E w \in Windows :
          /\ owner[w] = Unowned /\ pump[w] = "absent"
          /\ owner' = [owner EXCEPT ![w] = [by |-> t, as |-> "call"]]
          /\ call' = [call EXCEPT ![t] =
                [op |-> op, window |-> w,
                 at |-> CASE op \in {"create_context", "new_device"} -> "load"
                          [] op = "wrap_context" -> "lock"
                          [] op = "wrap_device" -> "spawn"]]
    /\ UNCHANGED <<procVars, failing, pump, posted>>

\* A Device's own Drop runs before those of its fields, and needs the extensions.
BeginDrop(t, w) ==
    /\ At(t, "returned")
    /\ owner[w].by = t
    /\ owner' = [owner EXCEPT ![w].as = "call"]
    /\ call' = [call EXCEPT ![t] =
          [op |-> "drop", window |-> w,
           at |-> IF owner[w].as = "device" THEN "load" ELSE "close"]]
    /\ UNCHANGED <<procVars, failing, pump, posted>>

\* The first to need the extensions starts the loader's thread; the rest wait with it.
LoadExtensions(t) ==
    /\ At(t, "load")
    /\ loader = "unloaded"
    /\ loader' = "loading"
    /\ UNCHANGED <<extensions, mutex, registered, threadVars, windowVars>>

Missing(t) ==
    \/ Op(t) = "create_context" /\ "create_context" \notin extensions
    \/ Op(t) = "new_device" /\ "dx_interop" \notin extensions
    \/ Op(t) = "new_device" /\ "device" \in Faults    \* Direct3D refuses

Proceeds(t) ==
    /\ At(t, "load") /\ loader = "loaded"
    /\ IF Op(t) = "create_context" THEN "create_context" \in extensions
       ELSE "dx_interop" \in extensions
    /\ Goto(t, CASE Op(t) = "create_context" -> "lock"
                 [] Op(t) = "new_device" -> "spawn"
                 [] Op(t) = "drop" -> "close")
    /\ UNCHANGED <<procVars, failing, windowVars>>

Refused(t) ==
    /\ At(t, "load") /\ Op(t) # "drop"
    /\ \/ loader = "poisoned" /\ EndsEmpty(t, TRUE)
       \/ loader = "loaded" /\ Missing(t) /\ EndsEmpty(t, FALSE)
    /\ UNCHANGED <<loader, extensions, registered, pump>>

\* Without the extensions a Device's Drop panics, and its fields are dropped even so.
DropPanics(t) ==
    /\ At(t, "load") /\ Op(t) = "drop"
    /\ loader = "poisoned" \/ (loader = "loaded" /\ "dx_interop" \notin extensions)
    /\ Goto(t, "close")
    /\ failing' = failing \cup {t}
    /\ UNCHANGED <<procVars, windowVars>>

\* lock().unwrap(): a poisoned mutex panics for ever.
Lock(t) ==
    /\ At(t, "lock")
    /\ mutex.holder = Nobody
    /\ IF mutex.poisoned THEN EndsEmpty(t, TRUE)
       ELSE /\ mutex' = [mutex EXCEPT !.holder = t]
            /\ Goto(t, "spawn")
            /\ UNCHANGED <<failing, posted, owner>>
    /\ UNCHANGED <<loader, extensions, registered, pump>>

-----------------------------------------------------------------------------
(* HiddenWindow, as its users' threads see it. *)

Spawn(t) ==
    /\ At(t, "spawn")
    /\ Goto(t, "receive")
    /\ pump' = [pump EXCEPT ![Window(t)] = "asking"]
    /\ UNCHANGED <<procVars, failing, posted, owner>>

\* Without a window a thread waits for messages all the same.
Pumping(w) == pump[w] \in {"pumping", "windowless"}

\* recv().unwrap(): a thread that panicked has dropped its sender.
Receive(t) ==
    /\ At(t, "receive")
    /\ \/ /\ Pumping(Window(t))
          /\ Goto(t, "use")
          /\ UNCHANGED <<mutex, failing, windowVars>>
       \/ /\ pump[Window(t)] = "panicked"
          /\ pump' = [pump EXCEPT ![Window(t)] = "gone"]
          /\ EndsEmpty(t, TRUE)
    /\ UNCHANGED <<loader, extensions, registered>>

\* The HGLRC is made and made current, or wrapped; a device needs no more.
Use(t) ==
    /\ At(t, "use")
    /\ owner' = [owner EXCEPT ![Window(t)].as =
          IF Locks(Op(t)) THEN "context" ELSE "device"]
    /\ Ends(t, FALSE)
    /\ UNCHANGED <<loader, extensions, registered, pump, posted>>

\* The window is dropped before the guard of the mutex, in a return and in a panic.
UseFails(t) ==
    /\ At(t, "use") /\ Locks(Op(t))
    /\ \/ Op(t) = "create_context" /\ "context" \in Faults /\ UNCHANGED failing
       \/ /\ "make_current" \in Faults \/ pump[Window(t)] = "windowless"
          /\ failing' = failing \cup {t}
    /\ Goto(t, "close")
    /\ UNCHANGED <<procVars, windowVars>>

\* Mistake: the thread is joined without being told to end.
CloseSilently(t) ==
    /\ At(t, "close")
    /\ Goto(t, "join")
    /\ UNCHANGED <<procVars, failing, windowVars>>

\* Mistake: the handle is dropped and the window forgotten.
CloseForgets(t) ==
    /\ At(t, "close")
    /\ EndsEmpty(t, t \in failing)
    /\ UNCHANGED <<loader, extensions, registered, pump>>

\* A message to no window goes to the caller's own queue.
Close(t) ==
    /\ At(t, "close")
    /\ posted' = IF pump[Window(t)] = "pumping" THEN posted \cup {Window(t)} ELSE posted
    /\ Goto(t, "join")
    /\ UNCHANGED <<procVars, failing, pump, owner>>

Join(t) ==
    /\ At(t, "join")
    /\ pump[Window(t)] = "ended"
    /\ pump' = [pump EXCEPT ![Window(t)] = "gone"]
    /\ posted' = posted \ {Window(t)}
    /\ owner' = [owner EXCEPT ![Window(t)] = Unowned]
    /\ Ends(t, t \in failing)
    /\ UNCHANGED <<loader, extensions, registered>>

-----------------------------------------------------------------------------
(* The loader's thread, and those of the hidden windows. *)

LoaderEnds ==
    /\ loader = "loading"
    /\ \/ loader' = "loaded" /\ extensions' \in SUBSET Extensions
       \/ "load" \in Faults /\ loader' = "poisoned" /\ UNCHANGED extensions
    /\ UNCHANGED <<mutex, registered, threadVars, windowVars>>

Steps(w, from, to) == pump[w] = from /\ pump' = [pump EXCEPT ![w] = to]

GetClassInfo(w) ==
    /\ Steps(w, "asking", IF registered THEN "creating" ELSE "registering")
    /\ UNCHANGED <<procVars, threadVars, posted, owner>>

\* RegisterClassA returns 0 if the class exists, which the assertion forbids.
RegisterClass(w) ==
    /\ Steps(w, "registering", IF registered THEN "panicked" ELSE "creating")
    /\ registered' = TRUE
    /\ UNCHANGED <<loader, extensions, mutex, threadVars, posted, owner>>

\* The handle is sent, whatever it is, and the messages are awaited.
CreateWindow(w) ==
    /\ \/ Steps(w, "creating", "pumping")
       \/ "window" \in Faults /\ Steps(w, "creating", "windowless")
    /\ UNCHANGED <<procVars, threadVars, posted, owner>>

GetMessage(w) ==
    /\ w \in posted
    /\ Steps(w, "pumping", "ended")
    /\ UNCHANGED <<procVars, threadVars, posted, owner>>

-----------------------------------------------------------------------------
Init ==
    /\ loader = "unloaded" /\ extensions = {}
    /\ mutex = [holder |-> Nobody, poisoned |-> FALSE]
    /\ registered = FALSE
    /\ call = [t \in Threads |-> Idle]
    /\ failing = {}
    /\ pump = [w \in Windows |-> "absent"]
    /\ posted = {}
    /\ owner = [w \in Windows |-> Unowned]

Calls(t) == (\E op \in Ops : Begin(t, op)) \/ (\E w \in Windows : BeginDrop(t, w))

\* What a thread inside a call does.
Runs(t) ==
    \/ LoadExtensions(t) \/ Proceeds(t) \/ Refused(t) \/ DropPanics(t) \/ Lock(t)
    \/ Spawn(t) \/ Receive(t) \/ Use(t) \/ UseFails(t) \/ Close(t) \/ Join(t)

WindowThread(w) ==
    GetClassInfo(w) \/ RegisterClass(w) \/ CreateWindow(w) \/ GetMessage(w)

Next ==
    \/ LoaderEnds
    \/ \E t \in Threads : Calls(t) \/ Runs(t)
    \/ \E w \in Windows : WindowThread(w)

\* Every thread that can run does.  Of the mutex nothing is asked: who waits for it
\* may be overtaken by all the others, of which there are as many as windows are made.
Fairness ==
    /\ WF_vars(LoaderEnds)
    /\ \A t \in Threads : WF_vars(Runs(t))
    /\ \A w \in Windows : WF_vars(WindowThread(w))

Spec == Init /\ [][Next]_vars /\ Fairness

-----------------------------------------------------------------------------
(* Properties. *)

\* Every call ends, though it waits for the loader's thread, for the mutex, for the
\* handle of the window and for the end of its thread; unless a thread joins one that
\* has no window, which waits for ever, and with it who needs the mutex that it holds.
EveryCallEnds ==
    \A t \in Threads :
        ~At(t, "returned") ~>
            \/ At(t, "returned")
            \/ \E u \in Threads : At(u, "join") /\ pump[Window(u)] = "windowless"

\* Every thread of a window has an owner that will close it, and the window of an object
\* that is alive is open if there is one: on every path out of a call, panics included.
WindowsFollowOwners ==
    \A w \in Windows :
        /\ pump[w] \notin {"absent", "gone"} => owner[w] # Unowned
        /\ owner[w].as \in {"context", "device"} => Pumping(w) /\ w \notin posted
        /\ w \in posted => \E t \in Threads : At(t, "join") /\ Window(t) = w

\* The window class is registered when a hidden window needs it, whoever else is
\* creating one (the assertion at wgl/device.rs:1369).
ClassIsRegisteredOnce == \A w \in Windows : pump[w] # "panicked"
=============================================================================
