SPECIFICATION Spec
CONSTANT
    MaxTurns = 3
INVARIANTS
    SpendingBounded
    BuiltOnWhole
PROPERTIES
    AnswerNotRebought
CHECK_DEADLOCK FALSE
