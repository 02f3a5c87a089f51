SPECIFICATION FairSpec
CONSTANTS
    FirstSample = 10
    LastSample = 25
    SampleStep = 5
    AddrTimes <- TwoTimes
    DataTimes <- ThreeTimes
    Reach = 1
    Configured = 12
    ConfiguredWrite <- MidPoint
    Attempts = 2
    Eyes <- EyesOf
    None = None
    Configs <- AllConfigs
    ShortPulse = FALSE
INVARIANTS MachineGivenBack C128Refreshed MapAgrees OrdinaryWritesLand
PROPERTIES PointsCentred ButtonReboots
CHECK_DEADLOCK FALSE
