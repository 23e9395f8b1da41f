SPECIFICATION FairSpec
CONSTANTS
    MaxClicks = 8
    MaxOthers = 2
INVARIANTS InStep OneHideTimer NeverStuck
PROPERTIES CardRecovers
CHECK_DEADLOCK FALSE
