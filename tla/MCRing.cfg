CONSTANTS
    Node = {n1, n2, n3}
    NoNode = NoNode
    Space = 6
    MaxTokens = 2
SPECIFICATION RingSpec
SYMMETRY NodeSymmetry
INVARIANTS
    LookupIsNearest
    MigrationsExact
    SuccessorsInOrder
PROPERTY
    OnlyOneNodeMoves
