------------------------- MODULE ContextDescriptors -------------------------
(***************************************************************************)
(* What an application asks of a context, and what it gets: attributes     *)
(* become a descriptor, which a driver makes a context of; the context     *)
(* gives a descriptor again, whose attributes decide which renderbuffers   *)
(* the context's surfaces have.  base/egl/context.rs, context.rs,          *)
(* renderbuffers.rs and the devices' own versions of these methods.        *)
(*                                                                         *)
(* A driver's config (EGLConfig, pixel format) is the set of what it has.  *)
(* A GL version is one number, 41 for 4.1.  One thread, one device; errors *)
(* change nothing; sizes, sharing and native contexts are left out.        *)
(***************************************************************************)
EXTENDS Naturals, FiniteSets

CONSTANTS
    Platforms,       \* the back ends whose device the application may have
    Contexts, Surfaces,
    None,
    Flags,           \* ContextAttributeFlags that are asked for
    Versions,        \* versions that are asked for
    DriverVersions,  \* versions of the contexts that the driver makes
    Configs          \* the driver's configs

Buffers == {"alpha", "depth", "stencil"}
Features == Buffers \cup {"window", "pbuffer", "deep"}   \* deep: more than 8 bits of a colour

FreeUnix == {"wayland", "x11", "surfaceless"}
Gles == {"angle", "hardware"}
Egl == FreeUnix \cup Gles

DescriptorsAssumption ==
    /\ Platforms \subseteq Egl \cup {"wgl", "cgl", "glutin"}
    /\ Flags \subseteq Buffers \cup {"compatibility"}
    /\ Versions \cup DriverVersions \subseteq Nat
    /\ Configs \subseteq SUBSET Features
    /\ None \notin Contexts

VARIABLES
    platform,     \* the device's back end
    descriptor,   \* the ContextDescriptor the application holds, or None
    wanted,       \* the attributes that it, or the context it is of, was asked for with
    context,      \* Context -> what the driver made, and for which attributes
    current,      \* on free Unix: the current context
    surface,      \* Surface -> what it has, and what was asked of its context
    stopped       \* an assertion has failed

vars == <<platform, descriptor, wanted, context, current, surface, stopped>>

Attributes == [version : Versions, flags : SUBSET Flags]
Descriptors == [config : Configs, version : Nat, flags : SUBSET Flags]

TypeOK ==
    /\ platform \in Platforms
    /\ descriptor \in Descriptors \cup {None}
    /\ wanted \in Attributes \cup {None}
    /\ \A c \in Contexts : context[c] # None =>
          /\ context[c].descriptor \in Descriptors /\ context[c].wanted \in Attributes
          /\ context[c].version \in Nat /\ context[c].compatible \in BOOLEAN
    /\ current \in Contexts \cup {None}
    /\ \A s \in Surfaces : surface[s] # None =>
          /\ surface[s].owner \in Contexts /\ surface[s].has \subseteq Features
          /\ surface[s].wanted \in Attributes /\ surface[s].widget \in BOOLEAN
    /\ stopped \in BOOLEAN

-----------------------------------------------------------------------------
(* From attributes to a descriptor. *)

WaylandNeeds == {"window"}
X11Needs == {"window"}
SurfacelessNeeds == {"pbuffer"}
AngleNeeds == {"pbuffer"}
HardwareBufferNeeds == {"pbuffer"}

EglNeeds ==
    [wayland |-> WaylandNeeds, x11 |-> X11Needs, surfaceless |-> SurfacelessNeeds,
     angle |-> AngleNeeds, hardware |-> HardwareBufferNeeds]

Offers(needs, a) == {f \in Configs : needs \cup (a.flags \cap Buffers) \subseteq f}
Kept(a) == a.flags \cap {"compatibility"}
Compatibility(a) == "compatibility" \in a.flags

\* The first config whose colours have exactly 8 bits, of those that EGL chooses.
EglDescribed(a) ==
    IF Compatibility(a) /\ (a.version > 30 \/ platform = "hardware")
    THEN {}
    ELSE {[config |-> f, version |-> a.version, flags |-> Kept(a)] :
            f \in {g \in Offers(EglNeeds[platform], a) : "deep" \notin g}}

WglDescribed(a) ==
    {[config |-> f, version |-> a.version, flags |-> Kept(a)] : f \in Offers({"window"}, a)}

\* The profiles kCGLOGLPVersion_Legacy, 3_2_Core and GL4_Core.
CglProfile(v) == IF v >= 40 THEN 41 ELSE IF v >= 30 THEN 32 ELSE 10

CglDescribed(a) ==
    IF Compatibility(a) /\ a.version >= 30
    THEN {}
    ELSE {[config |-> f, version |-> CglProfile(a.version), flags |-> {}] :
            f \in Offers({}, a)}

\* glutin's descriptor keeps the attributes next to the config.
GlutinDescribed(a) ==
    {[config |-> f, version |-> a.version, flags |-> a.flags] : f \in Offers({"window"}, a)}

Described(a) ==
    CASE platform \in Egl -> EglDescribed(a)
      [] platform = "wgl" -> WglDescribed(a)
      [] platform = "cgl" -> CglDescribed(a)
      [] platform = "glutin" -> GlutinDescribed(a)

-----------------------------------------------------------------------------
(* From a descriptor to attributes. *)

EglAttributes(d) ==
    [version |-> d.version, flags |-> (d.config \cap Buffers) \cup d.flags]

WglAttributes(d) == [version |-> d.version, flags |-> d.config \cap Buffers]

CglAttributes(d) ==
    IF d.version < 30
    THEN [version |-> 21, flags |-> (d.config \cap Buffers) \cup {"compatibility"}]
    ELSE [version |-> d.version, flags |-> d.config \cap Buffers]

GlutinAttributes(d) == [version |-> d.version, flags |-> d.flags]

AttributesOf(d) ==
    CASE platform \in Egl -> EglAttributes(d)
      [] platform = "wgl" -> WglAttributes(d)
      [] platform = "cgl" -> CglAttributes(d)
      [] platform = "glutin" -> GlutinAttributes(d)

-----------------------------------------------------------------------------
(* Contexts. *)

\* What the driver may make of a descriptor: the rules of the extensions
\* EGL_KHR_create_context and WGL_ARB_create_context.  A version that is asked for may
\* be exceeded; up to 3.0 only by contexts that keep what 3.1 removed, and from 3.2 on
\* the profile is the one asked for.  OpenGL ES has no profiles, CGL one per profile.
Reaching(d) == {v \in DriverVersions : d.version <= v}

GlesGrants(d) ==
    {[version |-> v, compatible |-> FALSE] :
       v \in {w \in Reaching(d) : d.flags = {} /\ w <= 32}}

CglGrants(d) == {[version |-> CglAttributes(d).version, compatible |-> d.version < 30]}

ProfileGrants(d) ==
    {g \in [version : Reaching(d), compatible : BOOLEAN] :
       /\ d.version <= 30 => g.compatible
       /\ d.version >= 32 => (g.compatible <=> Compatibility(d))}

Granted(d) ==
    IF platform \in Gles THEN GlesGrants(d)
    ELSE IF platform = "cgl" THEN CglGrants(d) ELSE ProfileGrants(d)

\* Mistake: the list of extensions is not looked at.
ProfileMaskOnly(c, at) ==
    platform # "hardware" /\ at # None /\ context[at].version >= 32 /\ context[at].compatible

\* current_context_uses_compatibility_profile while `at' is current.  The profile mask,
\* which contexts have from 3.2 on, is the current context's; the list of extensions
\* is the one that c's functions were loaded with.
UsesCompatibilityProfile(c, at) ==
    /\ platform # "hardware"
    /\ \/ at # None /\ context[at].version >= 32 /\ context[at].compatible
       \/ context[c].compatible

\* from_egl_context looks at the context that is current; WGL makes its own current.
EglDescriptor(c, at) ==
    [config |-> context[c].descriptor.config, version |-> context[c].version,
     flags |-> IF UsesCompatibilityProfile(c, at) THEN {"compatibility"} ELSE {}]

WglDescriptor(c) ==
    [config |-> context[c].descriptor.config, version |-> context[c].version,
     flags |-> IF UsesCompatibilityProfile(c, c) THEN {"compatibility"} ELSE {}]

\* CGL asks the context for its pixel format; glutin's Context keeps its descriptor.
CglDescriptor(c) == context[c].descriptor
GlutinDescriptor(c) == context[c].descriptor

DescriptorOf(c, at) ==
    CASE platform \in Egl -> EglDescriptor(c, at)
      [] platform = "wgl" -> WglDescriptor(c)
      [] platform = "cgl" -> CglDescriptor(c)
      [] platform = "glutin" -> GlutinDescriptor(c)

Runs == ~stopped
Exists(c) == context[c] # None

\* create_context_descriptor, which may find no config, or refuse the profile.
CreateContextDescriptor(a) ==
    /\ Runs
    /\ \/ \E d \in Described(a) : descriptor' = d /\ wanted' = a
       \/ Described(a) = {} /\ UNCHANGED <<descriptor, wanted>>
    /\ UNCHANGED <<platform, context, current, surface, stopped>>

\* create_context, which on free Unix makes the new context current.
CreateContext(c) ==
    /\ Runs /\ descriptor # None /\ ~Exists(c)
    /\ \/ \E g \in Granted(descriptor) :
             /\ context' = [context EXCEPT ![c] =
                   [descriptor |-> descriptor, wanted |-> wanted,
                    version |-> g.version, compatible |-> g.compatible]]
             /\ current' = IF platform \in FreeUnix THEN c ELSE current
       \/ Granted(descriptor) = {} /\ UNCHANGED <<context, current>>
    /\ UNCHANGED <<platform, descriptor, wanted, surface, stopped>>

\* context_descriptor: the application takes it for the one the context was made with.
ContextDescriptor(c) ==
    /\ Runs /\ Exists(c)
    /\ descriptor' = DescriptorOf(c, current) /\ wanted' = context[c].wanted
    /\ UNCHANGED <<platform, context, current, surface, stopped>>

MakeContextCurrent(c) ==
    /\ Runs /\ Exists(c) /\ platform \in FreeUnix
    /\ current' = c
    /\ UNCHANGED <<platform, descriptor, wanted, context, surface, stopped>>

MakeNoContextCurrent ==
    /\ Runs /\ platform \in FreeUnix
    /\ current' = None
    /\ UNCHANGED <<platform, descriptor, wanted, context, surface, stopped>>

\* The surfaces of the context are destroyed before it.
DestroyContext(c) ==
    /\ Runs /\ Exists(c)
    /\ \A s \in Surfaces : surface[s] # None => surface[s].owner # c
    /\ context' = [context EXCEPT ![c] = None]
    /\ current' = IF current = c THEN None ELSE current
    /\ UNCHANGED <<platform, descriptor, wanted, surface, stopped>>

-----------------------------------------------------------------------------
(* Surfaces. *)

\* Depth and stencil share a renderbuffer if both are needed.
NewRenderbuffers(a) ==
    IF {"depth", "stencil"} \subseteq a.flags
    THEN {{"depth", "stencil"}}
    ELSE {{b} : b \in a.flags \cap {"depth", "stencil"}}

\* Attached to the framebuffer object of the surface, which always has a colour texture.
BoundToFramebuffer(renderbuffers) == UNION renderbuffers

Placed(s, c, widget, has) ==
    surface' = [surface EXCEPT ![s] =
        [owner |-> c, widget |-> widget, has |-> has, wanted |-> context[c].wanted]]

\* ANGLE's generic surfaces are pbuffers of the context's config; those of the other
\* back ends are framebuffer objects, for which the context is made current.
CreateGenericSurface(s, c) ==
    /\ Runs /\ Exists(c) /\ surface[s] = None /\ platform # "glutin"
    /\ Placed(s, c, FALSE,
          IF platform = "angle" THEN DescriptorOf(c, c).config
          ELSE BoundToFramebuffer(NewRenderbuffers(AttributesOf(DescriptorOf(c, c)))))
    /\ UNCHANGED <<platform, descriptor, wanted, context, current, stopped>>

\* A window surface is created with the context's config, and the code asserts that it
\* was.  CGL renders to a view as to any other surface; surfaceless devices refuse.
CreateWindowSurface(s, c) ==
    /\ Runs /\ Exists(c) /\ surface[s] = None
    /\ platform \in {"wayland", "x11", "wgl"} \cup Gles
    /\ \/ "window" \in DescriptorOf(c, c).config
          /\ Placed(s, c, TRUE, DescriptorOf(c, c).config) /\ UNCHANGED stopped
       \/ "window" \notin DescriptorOf(c, c).config
          /\ stopped' = TRUE /\ UNCHANGED surface
    /\ UNCHANGED <<platform, descriptor, wanted, context, current>>

DestroySurface(s) ==
    /\ Runs /\ surface[s] # None
    /\ surface' = [surface EXCEPT ![s] = None]
    /\ UNCHANGED <<platform, descriptor, wanted, context, current, stopped>>

Init ==
    /\ platform \in Platforms
    /\ descriptor = None /\ wanted = None
    /\ context = [c \in Contexts |-> None]
    /\ current = None
    /\ surface = [s \in Surfaces |-> None]
    /\ stopped = FALSE

Next ==
    \/ \E a \in Attributes : CreateContextDescriptor(a)
    \/ \E c \in Contexts :
          \/ CreateContext(c) \/ ContextDescriptor(c) \/ DestroyContext(c)
          \/ MakeContextCurrent(c)
          \/ \E s \in Surfaces : CreateGenericSurface(s, c) \/ CreateWindowSurface(s, c)
    \/ MakeNoContextCurrent
    \/ \E s \in Surfaces : DestroySurface(s)

Spec == Init /\ [][Next]_vars

-----------------------------------------------------------------------------
(* Properties. *)

\* What was asked for is given, through any number of trips from attributes to
\* descriptor to context and back, whichever context is current meanwhile ("Verify that
\* the attributes round-trip", tests.rs:115): a descriptor's attributes cover what was
\* asked of it or of its context, but for WGL's profile, which wgl/device.rs:557 leaves
\* out; every surface has the buffers that were asked of its context; and only OpenGL ES
\* devices fail to assert that a context is fit for a window.
AskedIsGiven ==
    /\ descriptor # None =>
          /\ wanted.flags \subseteq AttributesOf(descriptor).flags
                                      \cup (IF platform = "wgl" THEN {"compatibility"} ELSE {})
          /\ wanted.version <= AttributesOf(descriptor).version
    /\ \A s \in Surfaces : surface[s] # None =>
          surface[s].wanted.flags \cap {"depth", "stencil"} \subseteq surface[s].has
    /\ stopped => platform \in Gles
=============================================================================
