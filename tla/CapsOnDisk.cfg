SPECIFICATION Spec
CONSTANTS
    d1 = d1  d2 = d2  d3 = d3  a1 = a1  a2 = a2  onOff = onOff  level = level
    Devices <- MCDevices3
    Addresses <- MCAddresses
    Caps = {onOff, level}
    CapsOf <- MCCapsOf3
    Readers = {app}
    NoDevice = NoDevice
    Zero = Zero
    NotFound = NotFound
    MaxDevices = 2
    MaxCaps = 1
    AreqDepth = 2
    MaxEvents = 4
    MaxFaults = 0
INVARIANTS CapsOnDisk
SYMMETRY MCSymmetry
CHECK_DEADLOCK FALSE
