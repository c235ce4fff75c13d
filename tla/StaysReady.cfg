SPECIFICATION FairSpec
CONSTANTS
    p1 = p1  c1 = c1  c2 = c2  k1 = k1
    Pans <- MCPans
    Channels <- MCChannels
    Keys <- MCKeys
    Requests <- MCRequests
    Settings <- MCSettings
    Zero = Zero
    Absent = Absent
    DefaultPan = p1
    DefaultChannel = c1
    DefaultKey = k1
    AreqDepth = 3
    CmdDepth = 1
    MaxInitRetries = 1
    MaxFaults = 1
    MaxEvents = 1
PROPERTIES StaysReady
