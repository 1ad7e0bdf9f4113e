CONSTANTS
    AnyObject = any
    o1 = o1
    o2 = o2
    Objects <- MCObjects
    MaxTracks = 2
    MinHits = 2
    MaxCoast = 1
    MaxTentativeCoast = 1
    Modes = {"DETECT_TRACK", "COLOUR_TRACK", "FACE_DETECT", "LANDING_TARGET"}
    MaxItems = 1
    MaxDetections = 2
    MaxFrames = 3
SPECIFICATION Spec
SYMMETRY ObjectSymmetry
INVARIANTS
    ConfirmedInSeparateFrames
