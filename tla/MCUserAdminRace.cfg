SPECIFICATION Spec
CONSTANTS
    a = a
    b = b
    c = c
    h1 = h1
    h2 = h2
    Users <- ThreeUsers
    Admin = a
    Handlers <- TwoHandlers
CHECK_DEADLOCK FALSE
INVARIANTS AdminRemains
