SPECIFICATION Spec
CONSTANTS
    Senders = {x1, x2}
    Receivers = {}
    MaxBytes = 2
INVARIANTS StateRule
