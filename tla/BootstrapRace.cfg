SPECIFICATION Spec
CONSTANTS
    None = None
    Calls = {c1, c2}
    BusinessIds = {b1}
PROPERTIES
    BootstrapOnlyWithoutKey
CHECK_DEADLOCK FALSE
