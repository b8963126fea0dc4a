SPECIFICATION Spec
CONSTANTS
    f1 = f1  f2 = f2  f3 = f3
    Creators = {c1, c2, c3}
    Factories = {f1, f2, f3}
    Order <- InOrder
    MaxCount = 4
SYMMETRY CreatorSymmetry
INVARIANTS Balanced
CHECK_DEADLOCK FALSE
