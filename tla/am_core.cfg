SPECIFICATION Spec
CONSTANTS
    Instances = {a1, a2, a3, a4}
    None = None
    MaxHops = 2
    FrontlightPresent = FALSE
SYMMETRY Symmetry
INVARIANTS
    TypeOK
    RenderTargetIsCurrent
    RequestIsServable
    OneOwner
    WakeUpIsComing
    FrameIsComing
PROPERTIES
    HandlerMatchesChild
    ImplementsNavigation
