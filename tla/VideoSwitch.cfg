SPECIFICATION FairSwitchSpec
CONSTANT DebounceFrames = 2
INVARIANT ModeAgrees
PROPERTIES MirrorResumesQuietly RequestHonoured
