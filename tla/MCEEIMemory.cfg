CONSTANTS
    WordBytes = 4
    AddrBytes = 2
    MemBytes = 5
    Offsets = {0, 2}
    Widths = {2, 4, 5}

SPECIFICATION Spec

INVARIANT UIntRoundTrip
INVARIANT ConvKeepsValue
