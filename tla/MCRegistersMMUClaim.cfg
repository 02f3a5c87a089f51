SPECIFICATION Spec
CONSTANTS
    Addrs <- MCAddrs
    Offsets = {0}
    Configs <- MCConfigs
    OptimWrites <- MCOptimWrites
    PortWrites <- MCPortWrites
    SIMMConfigs = {0, 4}
    MB = 1
INVARIANT
    MMUAlwaysVisible
