SPECIFICATION Spec
CONSTANTS
    Instances = {a1, a2, a3}
    None = None
    MaxHops = 2
    FrontlightPresent = TRUE
SYMMETRY Symmetry
PROPERTIES
    HandlerMatchesChild
