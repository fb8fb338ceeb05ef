SPECIFICATION Spec
CONSTANT Width = 5
INVARIANT TypeOK
INVARIANT Field
PROPERTY OthersKept
