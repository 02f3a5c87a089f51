SPECIFICATION Spec
CONSTANTS
    Stream <- MCStream
    Starts <- MCStarts
    Setup <- MCSetup
    MaxSetup = 2
INVARIANTS
    WidthsFresh
    ReturnsToCaller
PROPERTIES
    EmulationIs6502
    FastPathAgrees
    DecimalArithmetic
CHECK_DEADLOCK FALSE
