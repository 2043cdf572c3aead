\* The hour after noon, and after midnight, in twelve-hour mode.
SPECIFICATION Spec
CONSTANTS
    Starts <- MCStarts
    Modes <- MCModes
    MaxTicks = 1
PROPERTY TwelveHourConverted
