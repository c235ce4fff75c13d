SPECIFICATION Spec
CONSTANTS
    Bytes <- MCBytes
    ByteXor <- MCXor
    Sof <- MCSof
    MaxPayload = 2
    Frames <- MCFrames
    RawDepth = 1
    MaxFaults = 2
INVARIANTS TypeOK RecoversUnlessStuck
PROPERTIES PostsWhatDecodes InStepFramesArrive
