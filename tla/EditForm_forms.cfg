SPECIFICATION Spec
CONSTANTS
    Forms <- AllForms
    Records = {1, 2}
    New = 0
    Born = 3
    MaxOps = 5
INVARIANTS  OneRecord ShownOwn
CHECK_DEADLOCK FALSE
