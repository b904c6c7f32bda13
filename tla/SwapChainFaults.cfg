CONSTANTS
    Chains = {c1, c2}
    Surfaces = {s1, s2, s3}
    NoSurface = NoSurface
    Sizes = {1}
    MaxHeld = 1
    Faults = {"create", "bind", "unbind", "destroy", "texture"}
    Misuse = {"texture_out", "attach_anytime", "destroy_while_held", "clear_unbound",
              "use_destroyed", "return_elsewhere", "other_context"}
SPECIFICATION Spec
SYMMETRY Symmetry
INVARIANT TextureKeepsSlot
PROPERTIES NoSilentLoss ImplementsExchange
CHECK_DEADLOCK FALSE
