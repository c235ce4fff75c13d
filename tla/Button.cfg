SPECIFICATION Spec
CONSTANTS
    Wrap = 16
    Debounce = 2
    LongPress = 4
    MultiPress = 3
    MaxStep = 2
INVARIANTS TypeOK FsmFollowsPin PressReported
PROPERTIES CountTellsTaps LongOncePerPress
