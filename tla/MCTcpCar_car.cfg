\* Two connections: three frames; two frames and the closing; one frame and
\* four scans of the lidar, of which the last may be warned of; or seven scans:
\* two warnings take six (clear, clear, obstacle, twice), and the second is due
\* or too soon for the cooldown according to the gaps.
SPECIFICATION Spec
CONSTANTS
    c1 = c1
    c2 = c2
    Conns = {c1, c2}
    Frames <- FewFrames
    Scans <- FewScans
    ShowSteps <- OneScene
    AudioFiles = {"alert.mp3", "sbsp.mp3"}
    Budgets <- ThreeFramesOrScans
    MaxFrames = 4
    Gaps = {1, 3}
    Cooldown = 6
    Grace = 2
    Dwell = 2
    Distance = 5
    ClearDistance = 8
    RangeMin = 1
    RangeMax = 10
    FrontAngle = 35
SYMMETRY Symmetry
INVARIANTS
    TypeOK
    LightsFollowTheLastFrame
    StopIsHeard
PROPERTIES
    WarningsAreApart
CHECK_DEADLOCK FALSE
