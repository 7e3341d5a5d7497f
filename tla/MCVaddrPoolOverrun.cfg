CONSTANTS
    NBits = 8
    MaxCnt = 3

SPECIFICATION Spec

INVARIANT RunsInsideBitmap
