CONSTANTS
    DekShapes <- AllDeks
    MaxIssued = 5
SPECIFICATION Spec
INVARIANT
    RestartSeesSame
    ErrorRefreshesCert
PROPERTY
    KeyNeverLost
    RotationKeepsCa
