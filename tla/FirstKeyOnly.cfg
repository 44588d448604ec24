SPECIFICATION Spec
CONSTANTS
    None = None
    Calls = {c1, c2, c3}
    BusinessIds = {b1}
PROPERTIES
    FirstKeyOnly
CHECK_DEADLOCK FALSE
