\* Up to three updates of the device, at awkward moments, in every format.
SPECIFICATION Spec
CONSTANTS
    Starts <- MCStarts
    Modes <- MCModes
    MaxTicks = 3
PROPERTIES
    ShowsOneMoment
    CatchesUp
