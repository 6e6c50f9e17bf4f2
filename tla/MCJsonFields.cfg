SPECIFICATION Spec
CONSTANT Docs <- SmallDocs
INVARIANTS
    JInv
    NoFieldMissing
PROPERTY ReturnsWhenNotShort
CHECK_DEADLOCK FALSE
