SPECIFICATION Spec
CONSTANTS
    onNetwork = onNetwork  onCap = onCap  guest = guest
    Types <- MCTypes
    Callbacks <- MCCallbacks
    OnNetwork = onNetwork
    OnCap = onCap
    Guest = guest
    Slots = 2
    QueueDepth = 2
    Free = Free
    CmdDepth = 1
    Reports <- MCReports
    MaxHappens = 2
INVARIANT OpensOnReady
