SPECIFICATION FairSwitchSpec
CONSTANT DebounceFrames = 2
PROPERTIES FreshFrameFirst SelectingVICParks
