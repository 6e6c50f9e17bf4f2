SPECIFICATION Spec
CONSTANTS
    ByteMod = 4
    Buffer = 52
    Bodies = {2, 13, 14}
    Fields <- SmallFields
    NotUtf8 = 3
    MaxFields = 2
    MaxAnswers = 2
INVARIANTS
    SentIsPacket
    ReadIsAnswer
    MemoryInv
    NothingLeft
CHECK_DEADLOCK FALSE
