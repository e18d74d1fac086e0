SPECIFICATION Spec
CONSTANTS
    Opcodes = {3, 7, 15, 19, 23, 27, 35, 39, 47, 51, 55, 59, 67, 71, 75, 79, 83, 99, 103, 111, 115, 11, 127}
    Rds = {0, 3}
    Rs2s = {0, 1, 2, 3, 5}
INVARIANTS
    TypeOK
    FirstDecoderDecides
    OperandsUsable
    StepIsLength
    CompressedAsBase
CHECK_DEADLOCK FALSE
