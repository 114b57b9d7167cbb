CONSTANTS
    Contexts = {x1, x2}
    Fds = {1, 2, 3}
    Slots = {1, 2}
    MaxThings = 2
    Shared = FALSE
    None = None
SPECIFICATION Spec
CHECK_DEADLOCK FALSE
INVARIANTS
    OneHolder
PROPERTIES
    ImplementsSockets
