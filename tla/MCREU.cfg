SPECIFICATION Spec
CONSTANTS
    Radix = 2
    BankValues = 2
    TopSpace = 16
    Fitted = 2
    Trigger = 3
    C64Init <- MCC64
    ExpInit <- MCExp
    Stores <- MCStores
    Commands <- MCCommands
    Controls <- MCControls
    Masks <- MCMasks
    Bytes = {0, 1}
    MaxWrites = 4
INVARIANTS
    OneTransferAtATime
PROPERTIES
    ImplementsBlockTransfer
CHECK_DEADLOCK FALSE
