CONSTANTS
    NONE = NONE
    Base = 3
    Named <- MCNamed
    Points <- MCPoints
    Available <- MCAvailable
SPECIFICATION Spec
INVARIANTS Denotes AlwaysCanonical EqualityIsSemantic ClauseIsRead PickIsRight
