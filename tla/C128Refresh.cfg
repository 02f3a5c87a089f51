SPECIFICATION FairSpec
INVARIANT NoPulseDuringTransfer
PROPERTIES Core3KeepsOut WaitsEnd NotStranded
