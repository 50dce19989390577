CONSTANTS
    Updates = {u0, u1, u2}
    First = u0
    Users = {v1}
    Chats = {c1, c2}
    None = None
    Workers = 2
    MaxFaults = 1
    MaxCrashes = 1
    MaxStalled = 1
    MaxExpiries = 1
SYMMETRY Alike
CONSTRAINTS OneTrouble OneExpiry
SPECIFICATION Spec
INVARIANTS AdmittedOnce CodeBindsOnce PointersFit
PROPERTIES NeverZeroMenus
CHECK_DEADLOCK FALSE
