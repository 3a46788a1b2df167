CONSTANTS
    Capacity = 8
    Lengths = {0, 5}
    Sizes = {}
SPECIFICATION Spec
INVARIANTS MaskedByPosition
