SPECIFICATION Spec
CONSTANTS
    PanelOrientations <- Orientations
    MixerSizes <- Mixers
    FbSizes <- Fbs
    MaxAppLayers = 2
    MaxFrames = 3
INVARIANTS
    FrameComplete
    ShownWhereMeant
    PrimariesKept
