SPECIFICATION Spec
CONSTANTS
    Addrs <- MCAddrs
    Offsets = {0, 1, 3, 5, 9, 17}
    Configs <- MCConfigs
    OptimWrites <- MCOptimWrites
    PortWrites <- MCPortWrites
    SIMMConfigs = {0, 4}
    MB = 1
INVARIANTS
    WindowsFollowRegisters
    ReportedSpeedIsPaced
    PathsAgree
