\* An in-memory file built by either constructor, read and written with
\* one- and two-byte elements, with a 3-bit std::size_t.
CONSTANTS
    Width = 3
    PreallocSizes = {0, 2}
    ElemSizes = {1, 2}
    Counts = {1, 2}
    MaxSize = 4

SPECIFICATION Spec
INVARIANT AccessIsExact
