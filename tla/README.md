# surfman in TLA+

`surfman` manages *surfaces*, blocks of GPU memory that one thread draws to and
others read. This directory models the parts of it that keep state and that
several calls, contexts or threads share, checks the models with TLC on small
instances and proves their main properties with TLAPS for all instances.

## The system

| Component (files) | State | Operations | Talks to | What is hard | What makes it correct |
|---|---|---|---|---|---|
| **Swap chain** (`chains.rs`: `SwapChain`, `SwapChainData`, `BackBuffer`) | back buffer (attached, detached, taken), pending surface, recycled list, size | swap, resize, attach, take and recycle surfaces and textures, clear, destroy | the device (create, bind, unbind, destroy); producer and consumer threads through one mutex per chain | calls that fail half-way; surfaces in consumers' hands across a resize or a destroy; passing the attachment; the recycled list used from both sides | back buffer present, bound and of the right size; every surface alive in one place; no use after destruction; bounded pool; frames in order |
| **Table of swap chains** (`chains.rs`: `SwapChains`) | `ids` per context, `table` of chains, one lock each | create, destroy, get, iter, size… | several threads | two maps changed under two locks; locks held across calls; chains found after they are destroyed | the maps agree; iteration yields the caller's chains; calls return |
| **EGL contexts and surfaces** (`base/egl`) used by the **Wayland, X11 and surfaceless devices** | the thread's current context and surface, each context's framebuffer, GL names per context | make current, create, bind, unbind, draw, present, wrap in a texture, destroy | EGL and GL, through state that belongs to the thread | hidden current-context state; guards that restore it; errors that are dropped; names deleted in the wrong context | EGL's surface follows what is bound; names and surfaces correspond; unbinding flushes; the current context comes back |
| **Unix devices together** (`multi`, `wayland`, `x11`, `mesa_surfaceless`) | which platform each object is of; EGL's current display | every method, dispatched | EGL devices of up to three platforms in one thread | objects of two platforms in one call; a guard of one restores the context of another | a context is current on its own display; what was passed is handed back |
| **Connections** (`connection.rs`, `multi`, `wayland`, `x11`, `mesa_surfaceless`, `hardware_buffer`) | native and EGL displays, who owns them, counted references | connect, wrap, lend, clone, create devices, drop | window systems | shared displays; order of drops; failures between opening and owning | open while in use, disposed of once, by the last user |
| **Context ids** (`context.rs`) | a process-wide counter behind a mutex | take an id | all backends | incremented before in one place, after in others; poisoning | live contexts have different ids |
| **Context descriptors** (`base/egl/context.rs`, `context.rs`, `renderbuffers.rs` and each device) | a driver's config, a version, a profile | attributes to descriptor, descriptor to context, back again; renderbuffers of a surface | the driver; the current context | put together from three places, one of them whichever context is current; each back end has its own | what was asked for survives any number of conversions, and surfaces have it |
| **Hardware buffers** (`hardware_buffer`) | as EGL, over AHardwareBuffer or OHNativeBuffer | as EGL | EGL | unbind makes its context current; bind does not | textures live in the context they were made in; what is drawn to is current's own |
| **ANGLE** (`angle`) | D3D11 textures, share handles, keyed mutexes | bind and unbind surfaces, textures in other devices and threads | EGL, D3D11 | acquire and release order across threads; waits without a limit | the mutex is held exactly while its surface is in use |
| **WGL** (`wgl`) | DX interop objects and locks; hidden windows and their threads; the loaded extensions; a window class | lock and unlock per bind; open and close windows | WGL, D3D11, window threads | locks on failing paths; external framebuffers; joins while a mutex is held | a surface is locked exactly while bound; windows live as long as their owner; calls end |
| **CGL and IOSurfaces** (`cgl`, `base/io_surface`) | counted CGL contexts; front and back IOSurface of a view; a condition variable | present, resize, wrap in a texture | the display link's thread | waiting for a callback; destroying the view | references match handles; present returns; callbacks leave the condition's references alone |
| **glutin** (`glutin`) | contexts that move between two states; the last current one | as the others | glutin | contexts taken out and not put back on errors; two records of what is current | a usable context draws to its own window only |
| GL helpers, EGL function tables, macros, traits | none of their own | | | | |

## Modules

| Module | Models |
|---|---|
| `SwapChain` | the chains of one producer context over a device that may fail |
| `SurfaceExchange` | abstract: the ways on which surfaces move between producer, chain and consumers |
| `SwapChainExchange` | `SwapChain` implements `SurfaceExchange`: the refinement mapping |
| `SwapChainHistory` | `SwapChain` with the frames that were drawn and shown |
| `SwapChains` | the table, several threads, one step per lock |
| `EglDevice` | EGL contexts and surfaces of a thread, for one platform |
| `UnixDevice` | extends `EglDevice`: devices of three platforms in one thread, and `multi`'s dispatch |
| `Connections` | displays and the connections and devices that hold them, on free Unix |
| `HardwareBufferDevice` | Android's and OpenHarmony's device |
| `GlutinDevice` | glutin's |
| `WglDevice`, `HiddenWindows` | WGL: contexts and surfaces of a thread; what the threads of a process share |
| `AngleDevice` | ANGLE's device, several threads |
| `CglDevice` | CGL's contexts, IOSurfaces, views and the display link |
| `ContextDescriptors` | the attributes of contexts on every back end, and what becomes of them |
| `SwapChainProofs`, `SwapChainExchangeProofs`, `SwapChainsProofs`, `EglDeviceProofs`, `WindowsProofs`, `CglDeviceProofs`, `GlutinHardwareProofs`, `ProcessProofs` | theorems |

The modules `MC...` prepare specifications for TLC where they need it: a symmetry set where one is
sound and, where two specifications share a run (`MCEglDevice`, `MCWindows`, `MCGlutinHardware`, `MCProcess`), a
variable that says which of them the behaviour is of; the variables of the other
keep their values. Each module takes the failing calls (`Faults`) and the
calls that the documentation discourages (`Misuse`) as constants, so that a property can be
checked and proved under exactly the assumptions that it needs.

### SwapChain and the code

One action is one method. Each method holds the chain's mutex from its first line
to its last, so threads interleave between methods only. `back`, `detached`,
`pending`, `recycled`, `size` are the fields of `SwapChainData`; `bound` is the
surface of the producer's context; `held` and `texture` are what consumers and the
producer have taken out. `alive` says which surfaces exist; a surface that the code
drops is alive and in no place, which is what `NothingLost` looks for. An `unwrap()`
that fails sets `result` to `"panic"`, after which the producer calls no more. Failing
device calls are those in `Faults`: creating, binding, unbinding and destroying a surface and
making a texture of one. An `unbind` that fails leaves the surface with the context, or the device
has dropped it (`UnbindRefused`): both happen in the back ends. `Misuse` names the calls that
the API accepts and the header of `chains.rs` does not foresee: going on while a texture is out,
attaching another chain at any time, destroying while surfaces are held, clearing a
detached chain with no surface bound, using clones of a destroyed chain, returning a surface or a
texture to another chain, and passing a context that is not the producer's (`IncompatibleContext`). One
call is not made: the last handle of a chain is dropped only after `destroy` and with nothing held or
out as a texture (`DropChain`); before that its surfaces would be dropped, and panic.

`SwapChainHistory` adds the frame in each surface and the newest frame that consumers
have seen; its steps are those of `SwapChain`.

### SwapChains and the code

Threads call `create`, `destroy`, `get`, `iter`, a method of a chain, or
`take_attachment_from`; a thread's `pc` says which lock it takes next. `ids` and
`table` are the two maps with their reader-writer locks, and each chain has its mutex.
A guard that lives to the end of a statement in Rust is held in the model for
the same steps: `destroy` holds the write lock of `table` while it destroys
the chain, because the guard is a temporary of the `if let`. Each thread is the
producer of one context; consumers are threads that only look up. `handles` are the chains that
`get` and `iter` have returned; a handle is cloned and sent at will, so all threads share them.
`UseDestroy` is the public `SwapChain::destroy` on a handle, which leaves the chain in the table;
`byHandle` remembers such chains. `Misuse` has `"destroy_any"`, destroying another producer's chain,
and `"attach_any"`, `take_attachment_from` with chains that are not the caller's, or with one chain
twice.

### EglDevice and the code

`current` and `drawSurface` are EGL's state for the thread; `framebuffer` is the field
of each context; `fboBound` and `fbos` are GL's state per context: the binding, and
which surface each framebuffer name renders to. The draw and the read binding are one,
as every call of the library sets both. `unflushed` holds surfaces with drawing that no
flush has followed; making another context current flushes the one before, as EGL
prescribes. Surfaces with other threads are `"free"`; contexts cannot leave their thread,
so one thread suffices.

`Faults` are `"create"` (the context cannot be created) and `"make_current"`; releasing
the current context is taken to succeed. `Misuse` has `"none_current"`, calling methods
while no context is current, and `"destroy_elsewhere"`, destroying surfaces while
their context is not current.

### UnixDevice and the code

`platform` is the variant of `multi`'s enums that a context is wrapped in, a surface's
being that of its context, and `display` is EGL's current display. Each method is
`EglDevice`'s, dispatched if all objects are of the device's platform; otherwise the error
and the arguments are returned, or the call panics where it cannot return an error.
`On` says which display is current after a method: what was current before is restored
with its own display, everything else is made current on the device's. X11 windows need no
current context; the surfaceless device has none; only Wayland refuses to resize what has
no window.

### SurfaceExchange and its refinement

A surface is gone, drawn to, in front, in the pool, shown, or lost. The abstract actions say
which ways surfaces may take in one call, and leave open what fails. `PlaceOf` computes
the place from the slots of `SwapChain`; a surface in two slots, or destroyed and still in
one, has none, so that the refinement also says that places are unique and that
nothing is used after its destruction. A chain is open from its creation to its destruction.

### Connections and the code

A wrapper is a `NativeConnectionWrapper` in its `Arc`, `connections` and `devices` count the
clones. `native` and `egl` are the states of native and EGL displays. `New` tries Wayland,
X11 and Mesa as `multi` does, and keeps what a failed attempt left open. `from_display_handle` is
given displays of the application's, as often as it likes; `shared`, which no code reads, remembers
the X11 displays that were wrapped once more while they were in use. An application that
closes its display, or that drops the connection that lent a native connection, waits for those
who use it (`AppCloses`, `MayDrop`): nothing in the code retains a display for them.

### HiddenWindows and the code

`call` is where each application thread is in its call: at the `LazyLock`, at
`CREATE_CONTEXT_MUTEX`, at the channel's `recv`, at the join; `pump` is where each hidden
window's thread is. A panic goes on dropping what the call holds, in Rust's order:
`failing` marks it, the guard of the mutex poisons it. A window whose `CreateWindowExA` failed is
`"windowless"`: its thread sends the null handle and waits for messages, `WM_CLOSE` does
not reach it, and who joins it waits for ever. Each element of `Windows` is used once, so that
they bound the calls that are made.

### The devices of single platforms

`WglDevice`: `current` is the pair that `wglMakeCurrent` sets, `glrc` says whose HGLRC a
context holds (one that wraps a native context holds another's), `textures` and `fbo` are
GL's state per HGLRC, `locked` the interop objects that are locked. `AngleDevice`: contexts
have a thread, surfaces move freely; `mutex` is the keyed mutex of each surface's texture,
and a thread that would wait for it is `stopped`. Contexts take their ids as the two ways of making
them do, after and before the counter is advanced, in any order. `CglDevice`: `refs` counts the
references to a CGL context, `borrowed` how often `NativeContext::current`, which takes none, has
returned it (`MaxBorrowed` times at most); a context that `create_context` gives up without
releasing it is `"Leaked"`; no call is made with a CGL context that was freed. Each view has a front and a back IOSurface and a display link, whose callback is
two steps, before and after the lock of the condition; presenting is two steps, swapping and
waking. `GlutinDevice`: `inner` says which native context a context's cell holds,
`held` whether the cell is filled, `lastCurrent` is the device's record.
`HardwareBufferDevice`: `drawn` is EGL's current surface, `object` what each texture name of
each EGL context is bound to.

### ContextDescriptors and the code

`platform` (`devicePlatform` in `MCEglDevice`) is the device's back end, and a `CASE` over it picks the back end's own version of a
method. A config is the set of what it has, a descriptor a config with a version and the profile
flag, in the fields of the code's `ContextDescriptor`; `wanted` remembers what the application
first asked for, and no code reads it. `Granted` is the driver: it may give more than the version
asked for; `GlesGrants`, `CglGrants` and `ProfileGrants` are its rules for the kinds of contexts.
Drivers that make contexts of 3.1 are left out by the constants, as that
version has a compatibility profile in name only (see Proofs). The contents of a descriptor that `context_descriptor` reads are
the context's config, the version and extensions its functions were loaded with, and the
profile mask of the context that is current.

## Runs

Passing runs:

| Run | Shows | Bounds |
|---|---|---|
| `swap_protocol` | the attachment passes between chains, each keeps its surface and size, nothing is lost or used after destruction, for callers that keep to the protocol | two chains, as a pair is all that `take_attachment_from` relates; two sizes; five surfaces, one held per chain |
| `swap_faults` | with every fault, unbinding's included, and the seven kinds of misuse: a texture keeps its slot, losses are reported except by `destroy`, and surfaces move only as `SurfaceExchange` says | two chains, three surfaces, so that front, back and pool or a hand are filled; all failures anywhere |
| `swap_history` | a chain's surfaces are bounded in number, and consumers never go back in time | one chain, one surface held at a time, two sizes; six surfaces, one more than the bound allows; six frames |
| `table` | maps agree, a chain leaves the table before `SwapChains::destroy` destroys it, iteration is exact, every call returns unless calls of `take_attachment_from` wait for one another | two threads, two ids, three chains, five calls, so that ids are taken, reused and looked up meanwhile, and two threads pass attachments in opposite orders; `"attach_any"` |
| `egl_protocol` | objects one to one with surfaces, EGL follows what is bound, guards restore; what is asked of a context is kept through its descriptors, but for WGL's compatibility profile | two contexts, two surfaces, two names: names collide between contexts and are reused within one. Descriptors: six back ends, one of each kind of code; two contexts, one of which is current while the other is read; four configs, of which one lacks each of stencil, windows, pbuffers and 8-bit colours; two versions, on either side of 3.0 |
| `unix` | each context is current on its own display; unbinding flushes, whatever fails and whoever is current | three platforms, two contexts, so that a guard of one meets a context of another; one surface |
| `windows` | WGL: locks follow binding, names are kept apart, the window in use is the bound one. ANGLE: contexts made in the same way have different ids, the keyed mutex follows the surface, no dead surface is current unless ids were shared | two threads, two contexts, two surfaces, three names: both contexts may hold one HGLRC, and a name of one may exist in the other; three ids |
| `cgl` | references match handles, those borrowed and those leaked accounted for; front and back are never the same; callbacks leave the references of their condition alone; presenting returns | two contexts, that may share a CGL context, two native contexts, of which one may be borrowed; one surface with its callback thread |
| `glutin_hardware` | glutin: a usable context draws to its own window only. Hardware buffers: textures live where they were made, what is drawn to is current's own | three contexts, of which two may share a native one; two surfaces, two names |
| `process` | hidden windows live as long as their owners, displays are open while they are used; every call ends unless a thread joins that of a window which could not be created | Windows: two threads, three windows, each made once, so that the mutex, the loader and a join are waited for at once, and one window after another fails. Unix: one display of each kind, two wrappers, two handles of each kind |

The exact constants are in the `.cfg` files. Properties that hold of one surface, pair
of chains or pair of threads at a time do not gain from larger instances, and the
theorems cover all sizes for most of them. `CHECK_DEADLOCK FALSE` stands where the
program may stop: after a panic the caller calls no more, and with everything
created, used once or lost no call may be left; in `egl_protocol` the assertion of
`CreateWindowSurface` may end it; in `table` threads may wait for each other in
`take_attachment_from`, and in `process` join a thread that does not end.

Two runs end in a violation; the findings in `PROJECT.json` quote the code's own words.
In `window_class_race` two threads create hidden windows at the same time, one for a `Device`,
which takes no lock; both find that the class is missing, and the second to register it fails
its assertion. In `angle_ids` a thread creates an ANGLE context and then wraps a native one:
`create_context` takes the id the counter has after it is advanced (`angle/device.rs:388`),
`create_context_from_native_context` the id it has before (433), and both contexts have the same,
though an id "is unique to all currently-allocated contexts" (678).

Definitions marked `Mistake:` are plausible bugs. No action uses them; each property is
shown to fail when one takes the place of the definition after it
(`mutants` in `PROJECT.json`).

## Other disagreements that the models show

No run is kept for these as violations; the definition named contains the step, or the constant
named admits it, and a property that it concerns excepts it by name.

Swap chains (`chains.rs`):
- `clear_surface` of a detached chain with nothing bound leaves the chain without its
  back buffer, which stays bound to the context, and returns `Ok` (406; `ProducerGoesOn`
  with `"clear_unbound"`).
- `swap_buffers` while the back buffer is out as a texture has created, or taken off the
  recycled list, a surface that it drops undestroyed (190; `NothingLost` with
  `"texture_out"`).
- `take_attachment_from` accepts an attached chain, and a detached other chain
  (237, against the comment at 230; `TakeAttachmentOk`). It locks both chains before it checks
  them: with one chain twice, or in two threads with two chains in opposite orders, it waits for ever
  (509; `CallAttach`, `AttachmentsWait`).
- `destroy` swallows the error of an `unbind` that fails and returns `Ok`; the back buffer is
  lost (461; `Destroy` with `"unbind"`, which `NoSilentLoss` excepts). The other methods return it, and
  leave the chain without a back buffer for good (78; `TakeFails`).
- `SwapChain::destroy` on a chain from `get` or `iter` leaves the destroyed chain in the table, where
  the next look-up finds it (582; `UseDestroy`, which `DestroyTakesChainOut` excepts).
- `resize` returns between the new back buffer and the new size when destroying fails
  (276; `BackBufferSized` with `"destroy"`).
- A surface recycled into a destroyed chain is dropped (332; `NothingLost` with
  `"destroy_while_held"`).
- After `swap_remove` the end of the recycled list is not the surface recycled last
  (171, against the comment at 315).
- `destroy` that fails leaves its id, which another producer may reuse; `iter` then yields the
  other's chain (749; `IterYieldsOwnChains` with `"destroy"`).
- `create_attached` unwraps the surface of the context while the table is locked for
  writing; a context without one poisons the table (592).

EGL and the Unix devices:
- A guard made while no context is current restores nothing: presenting a window leaves it
  current, to be destroyed (`base/egl/context.rs:80`; `WindowOutlivesUse` with `"none_current"`).
- Creating a surface leaves its framebuffer object bound (`base/egl/surface.rs:133`).
- `destroy_surface` deletes GL names in whichever context is current, or leaks them
  (`base/egl/surface.rs:223`; `OwnFramebuffers` with `"destroy_elsewhere"`).
- `bind_surface` drops the error of `make_current` (`base/egl/context.rs:245`;
  `CurrentShowsFramebuffer` with `"make_current"`).
- `create_context` panics instead of returning the error when the context cannot be made
  current (`wayland/device.rs:129`; `CreateContext`).
- `present_surface` and `destroy_surface_texture` compare no contexts
  (`wayland/device.rs:455` and 442, against the comments at 452 and 431).
- X11 and surfaceless devices resize generic surfaces, by recording the new size only
  (`Resized`). `context_descriptor` asks whichever context is current for its profile
  (`UsesCompatibilityProfile`).
- An X11 display wrapped by two connections has one EGL display, which the first connection to
  go terminates, as both are marked as owning it (`x11/connection.rs:137`; `FromDisplayHandle`.
  `DisplaysFollowUse` excepts the EGL displays in `shared`). A Wayland
  display stays open if EGL does not know it (`WaylandLeaves`), and its EGL display is never
  terminated (`wayland/connection.rs:249`).

WGL (`wgl`):
- Unbinding an external framebuffer loses it and returns the error (`device.rs:696`; `Misuse`
  `"unbind_external"`). Unbinding a window leaves its device context current.
- If registering with Direct3D fails a texture name is leaked (`CreateGenericSurface`);
  `destroy_surface_texture` compares no contexts (`"texture_elsewhere"`).
- `destroy_context` that cannot make its context current drops the surface, which panics;
  `Context` itself does not panic when dropped, though its documentation says so.
- The error of making the bound surface current is dropped (`Rebind`).
- `CreateWindowExA` is not checked: after a failure `WM_CLOSE` goes to the caller's own queue
  and the join never ends (`device.rs:1373`; `CreateWindow` with `"window"`), while
  `create_context` holds `CREATE_CONTEXT_MUTEX` for every other thread; `EveryCallEnds` excepts it.
  A panic in a `Device`'s drop leaks the interop device.

ANGLE (`angle`):
- A native context wrapped after `create_context` gets that context's id (run `angle_ids`);
  `destroy_surface` then takes surfaces of the one for the other's, and may destroy what a thread has
  current (`CurrentSurfaceLives` excepts `IdShared`).
- If binding the texture image fails the mutex stays acquired, and the next to acquire it waits
  for ever (`CreateSurfaceTexture` with `"bind_tex_image"`).
- Destroying the texture that was made of the application's texture destroys the EGL surface of
  the surface that is handed back (`"reuse_wrapped"`).
- Unbinding leaves the surface current, and flushes nothing; `create_context` that fails leaks
  the EGL context; textures are deleted in whichever context is current.

CGL (`cgl`, `base/io_surface`):
- Presenting while another context is current rebinds that context's texture
  (`PresentSurface`); presenting a generic surface leaves its transaction open.
- `NativeContext::current` retains nothing, though its drop releases (`cgl/context.rs:129`;
  `NativeContextCurrent`): the CGL context is freed while others hold it. `create_context` whose
  context cannot be made current leaks it (`CreateContext`). `RefsMatchHandles` counts both.
- A callback that still runs when a view is dropped uses a condition that has no reference left
  (`base/io_surface/surface.rs:509`, a FIXME: "possible use-after-free"; `DropView`, `CallbackEnds`).
  The model has this race, and no property excludes it: `CondCounted` says only that callbacks give up
  no reference themselves.
- Unbinding that fails drops the surface, which panics.
- Resizing rounds the width of the IOSurface, not that of the GL texture.
- Waiting has no predicate: a wake-up for nothing ends it early (`PresentEnds`).

glutin (`glutin`):
- `create_context` makes a context current and does not record it, so that
  `make_no_context_current` does nothing; a failed `make_context_current` loses the context for
  good (`device.rs:398`).
- Contexts made from one native context share its cell: destroying one ends the others, and
  `native_context` of them panics.
- `present_surface` swaps a surface that is not bound, while another or none is current.
- Unbinding that fails drops the surface; of an external one it returns `Ok(None)`; surfaces do
  not panic when they are dropped; destroying a window does nothing; the connection's X display
  is never closed.

Hardware buffers (`hardware_buffer`):
- Binding does not make the context current again (`device.rs:320`), and a guard restores nothing
  if nothing was current, so that a window that was unbound stays current (`Restored`).
- `destroy_surface` deletes names in whichever context is current (`"elsewhere"`), and
  `destroy_surface_texture` goes on if its context could not be made current
  (`surface/android_surface.rs:316`).
- The result of swapping buffers is ignored. OpenHarmony asserts where Android returns an error
  (`OhosCreates`). A pbuffer that cannot be made panics with `CREATE_CONTEXT_MUTEX` locked.

Descriptors (`ContextDescriptors`):
- WGL's `context_descriptor_attributes` never returns the compatibility profile
  (`wgl/device.rs:557`), though it is to return "the attributes that the context descriptor was
  created with" (524) and a test has them round-trip (`tests.rs:115`); `AskedIsGiven` excepts it.
- ANGLE and hardware-buffer contexts are chosen to have pbuffers, not windows
  (`angle/device.rs:354`, `hardware_buffer/device.rs:119`); creating a window's surface
  asserts that they have windows (`stopped`).
- CGL's legacy profile is described as version 2.1 and a version 3.3 that was asked for as 3.2
  (`CglProfile`, `CglAttributes`).

## Fairness

`SwapChains`: `FairSpec` gives each thread weak fairness on the steps that continue a call
it has begun: a thread inside a call runs on unless a lock keeps it. Beginning calls is not
fair, and a bounded number is begun. No fairness among waiting threads is assumed, as
the locks of `std` promise none. Calls of `take_attachment_from` may wait for one another whatever
the scheduler does; `EveryCallReturns` says that nothing else keeps a call.

`HiddenWindows`: weak fairness for the loader's thread, for the threads of the windows and
for what an application thread does inside a call. Nothing is asked of `CREATE_CONTEXT_MUTEX`: a
thread that waits for it may be overtaken by every other, and it gets its turn because only as many
calls are begun as there are windows. The claim is that calls do not wait for one another for
ever, not that the mutex is just. Beginning a call is not fair.

`CglDevice`: weak fairness for the callbacks of a display link that is started, as the system
calls it at every refresh, and for the waiting thread to run once it is woken.

## Proofs

Each argument has one shape: an invariant that is inductive, one lemma for each action that says
what of it the action can disturb, and the theorems as its consequences. The assumptions
are of two kinds: the named `ASSUME`s of the modules, on the constants only (model values
differ, sets are not empty), and, in a theorem's own `ASSUME`, the faults or the misuse without which
it is not true. A theorem that has none of those holds for all faults and misuse.

`SwapChainProofs`. Type correctness and `TextureKeepsSlot` hold for all faults and
misuse. For a producer that keeps to the protocol on a device where binding does not
fail, `ProtocolInv` is the inductive invariant: types, the texture's slot, one current
back buffer, back buffers that are out only as the producer's texture, no panic, and nothing
left in chains that were destroyed. `BackBufferComesBack` alone is not inductive: that
`take_surface` finds what it unbinds depends on `OneCurrentBackBuffer`, and that on the
texture's slot. From `ProtocolInv`, and destruction that does not fail, follow `NothingLost`, by
showing that each action keeps each surface in a place or destroys it, and
`BackBufferSized`. The bound on a chain's surfaces (`PoolStaysBounded`, for every `MaxHeld`) needs
what the loop of `swap_buffers` finds: `LeastIndex` and `FirstFitFinds` say that it finds the first
recycled surface of the right size if there is one. So a surface is created only when nothing of
that size is spare, and `PoolInv` counts, by size, what the chain and its consumers
have; it is stated as a bound on cardinalities, for any finite or infinite set of surfaces.
`ConsumersNeverGoBack` is about `SwapChainHistory`. `swap_remove` leaves the list in no order,
so the invariant (`HistoryInv`) speaks only of what could be taken next: the front
buffer, what consumers hold, and, when both are missing, the end of the list. `Passes` lists what a step may
do to those three; each way keeps it (`AheadStep`), and every step is one of the ways. It needs
a back buffer in place whenever the producer swaps, or the front buffer would be lost from the end
of the list, and consumers that hold one surface at a time (`MaxHeld <= 1`), or they may return
an older one after a newer.

`SwapChainExchangeProofs`. The abstract place of a surface in `SurfaceExchange` is chosen by
the refinement mapping, which means something only if no surface is in two places.
`ExchangeInv` says so: every surface is alone in its slot, list or hand (`Placement`), no
recycled list holds one twice, no two chains share one, and what is in a place is alive. `PlaceAgrees` then
reads the mapping off it. For each method a lemma says, surface by surface, where it was and where
it is; that gives `ExchangeInv` after the step, and that the step is one of the
abstract moves or a stutter: `SurfacesAreExchanged` is the refinement, with every fault and each of `Misuses`.
`LossIsReported` follows the same case split: a call of the producer's that leaves a surface
alive and nowhere does not return `Ok`, but for `destroy`, which may leave the surface that is bound.

`SwapChainsProofs`. `LiveInv` (the chains in the table are live or were destroyed on a handle, under
one id each, and what a thread is about to destroy through the table is no longer in it) gives
`DestroyTakesChainOut` for any discipline. If threads destroy their own chains only and
that does not fail, `IdsInv` relates the two maps and every thread between its two locks,
which is where they differ; `IdsMatchTable` and `IterYieldsOwnChains` follow.

`EglDeviceProofs`. `BoundInv`, a context's surface is bound and its own, and
`UnflushedInv`, unflushed drawing is the current context's, are inductive for all faults
and misuse and give `FlushedWhenUnbound`: the flush of unbind concerns the current
context, which may be another one, and is enough only because switching contexts
flushes. With careful callers (no misuse, and contexts can be made current) `ShowsInv`
gives `CurrentShowsFramebuffer` and `WindowOutlivesUse`; `CurrentComesBack` and
`OwnFramebuffers`, inductive with `BoundInv`, follow too.
The second half is about `UnixDevice`. A call is a step of `EglDevice`, a refusal, or the creation
of an X11 window, so the invariants above hold with devices of several platforms too, and give
`FlushedWhenUnbound` again. `DisplayInv` adds to `OneDisplay` that the context of the surface that
EGL draws to, or the surface, still exists: otherwise its context could be replaced by one
of another platform, and the surface with it. `Moves` says what a call makes current,
`Leaves` what it leaves alone.
The last part is about `ContextDescriptors`. `Covers` says when a descriptor gives the
attributes that were asked for, `Gives` when what the driver made of it does, and `DescriptorInv` that this
holds of the descriptor at hand and of every context: so the round trip through
`context_descriptor` loses nothing (`AttributesComeBack`), however often it is made and whichever
context is current; WGL's compatibility profile is excepted by the property, for its
`context_descriptor_attributes` never returns it. It assumes `VersionsAreKept`, for two reasons. A
context of version 3.1 has no profile mask, so that whether it is described as compatible
depends on the driver: with 31 in `DriverVersions` TLC finds `AskedIsGiven` violated. And a CGL
descriptor gives the version of its profile, less than was asked if 3.3 was.

`WindowsProofs`, ANGLE. `IdInv`: no id in use is ahead of the counter, and those of wrapped
contexts, which are read before it is advanced, are behind it, so that two contexts share an id only
if one was created and the other wrapped (`KindsKeepTheirIds`). `BoundInv` and `LiveInv` say whose
surface EGL can have current in which thread, which is why `destroy_surface`, which looks at its own
thread only, destroys nothing that another thread draws to (`NoThreadShowsDeadSurface`). It tells
whose surface it is by the id, so that `LiveInv` is inductive only while ids differ; once two contexts
were given one id (`IdShared`) the property claims nothing. Assumed is that no surface is used after
its texture was destroyed with it (`"reuse_wrapped"`).
`MutexFollowsUse` names the one who holds each keyed mutex (`Holder`), the context it is bound to or
the surface texture it is read through; it needs `eglBindTexImage` not to fail, as that leaves
the mutex acquired.
WGL. `WglBoundInv` gives `LockedWhileBound` for all faults; with it
`CurrentDrawsToWidget` (`DrawInv`) is inductive as it stands.
`NameInv` speaks of a surface's own objects and of the texture that reads it alike,
and keeps the names of different ones apart; it needs textures to be destroyed with the context that made
them (`"texture_elsewhere"`).

`CglDeviceProofs`. `RefsMatchHandles` is an equation between a counter and the cardinality of a set,
so that it needs finitely many contexts; it is proved first, with all faults and misuse, and says
how many references are missing (`borrowed`) or too many (`"Leaked"`). A CGL context that is freed while it
is held is not called any more, so that the rest holds of those that exist. `Safe` then has six parts: who is bound to
what, names, readers, surfaces that wait for the display, images, and framebuffers. A texture's picture
tells its surface; hence `NamesInv`, which is `TextureShowsBack` extended to surfaces that wait,
keeps apart the names that different surfaces use, and `OthersStay` carries all surfaces but the
one a call is about over the step. `ConditionIsCounted` needs only what dropping and making views do.

`GlutinHardwareProofs`. glutin's devices draw to the surface last made current, by whichever `Context`
shares the native one; `GlutinBoundInv`, which says that a bound surface is its creator's and knows that it is bound, is
inductive together with `DrawsToBoundWindow`, for all faults. For hardware buffers, `EglInv`, `SurfaceInv`
and `OwnInv` (what is drawn to belongs to what is current) hold for all faults and misuse. That
textures survive needs more: they are deleted in the context that is current after a guard whose
result nobody looks at. `BorrowInv` says that the drawables of a wrapped context exist, so that
the guard can always switch (`AlwaysSwitches`), unless owners destroy what they have lent (`"outlived"`)
or `eglMakeCurrent` fails; `OtherCells`, `DiscardLeaves` and `NoRevival` then carry the textures of
the other surfaces over each step.

`ProcessProofs`, hidden windows. `ThreadInv` says where a window's own thread can be for each place in
a call that has the window, `WindowInv` what holds of the windows of objects and of those
that nobody has. A step of a thread concerns one window, which no other thread's call has
(`Local`), so that one lemma per step is enough for `WindowsFollowOwners`, with every fault and panic.
Connections. Wrappers that own displays dispose of them when their last handle goes,
and `DisplaysFollowUse` says that no other wrapper then still uses the display. The
code leaves that to those who borrow: each keeps the connection that lent to it. That it
is enough, for chains of lenders of any length, is `LendersLead`: a set of wrappers
that has the heads, those that borrow from none, and with a wrapper all that borrow from it, has every
user of the display. The owner of a native display is its only head; that of an EGL display is, unless
the display is `shared`. So a wrapper from which nobody borrows is, if it owns the display, the only user
(`LastOwner`).
The step lemmas show that each way of making a wrapper starts a display or extends such a
chain, and that dropping one leaves the others' chains intact.

Only model-checked: the refutations of `ClassIsRegisteredOnce` and `IdsDiffer`; and
everything under fairness (`EveryCallReturns`, `EveryCallEnds`, `PresentReturns`), which is out of the
prover's reach. Every other property of a passing run is the subject of a theorem.

## Not modelled

Sizes are values that are compared, not numbers. Poisoned locks are modelled for
`CREATE_CONTEXT_MUTEX` only. GL state other than framebuffers and textures (buffer bindings
that creation saves and restores, the names of renderbuffers, which live and die with their
surface), adapters, attribute lists, sharing between contexts, native contexts' descriptors,
loading of functions, error names and CPU access to surface data are left out: they are values passed through. So are
the asserts that a system call succeeded, where the source treats its failure as a bug: a panic
there ends the caller. Tables of functions, traits, macros, tests and examples have
no state to model.
