SPECIFICATION FairSpec
CONSTANTS
    Wrap = 8
    Hz = 2
    MaxStep = 2
    Durations <- MCDurations
    Always = Always
    PressDuration = 1
    Reinit = Reinit
    BusDepth = 1
    CmdDepth = 2
INVARIANTS TypeOK TtlTellsWindow
PROPERTY PressOpensNetwork
