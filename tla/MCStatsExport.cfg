SPECIFICATION Spec
CONSTANTS
    Senders = {x1, x2}
    Receivers = {y1}
    MaxBytes = 2
INVARIANTS GaugesCurrent
