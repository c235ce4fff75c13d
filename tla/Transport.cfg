SPECIFICATION FairSpec
CONSTANTS
    framework = framework  app = app  sys = sys  read = read  write = write
    none = none
    Callers <- MCCallers
    Framework = framework
    Nobody = Nobody
    Commands <- MCCommands
    NoCommand <- MCNoCommand
    RawDepth = 2
    AreqDepth = 2
    MaxCalls = 2
    MaxReports = 1
    MaxFaults = 1
INVARIANTS TypeOK AnswerLag AnswerFresh
PROPERTIES AreqFifo MutexReleased
