SPECIFICATION Spec
CONSTANTS
    Pages = {p1, p2, p3}
    PageSize = 2
    Requests = {r1, r2}
    a = a
    b = b
    Tokens <- MCTokens
    Prompts <- MCPrompts
    MaxSeqLen = 4
    MaxVersion = 1
    None = None
SYMMETRY Symmetry
INVARIANTS
    PageOwnership
    IndexIsTrie
    IndexedPagesMatch
    ReadsOwnPrefix
    SharedPagesAgree
CHECK_DEADLOCK FALSE
