\* Two shells; the echo's limit, the width and the byte are within reach.
SPECIFICATION FairSpec
CONSTANTS
    MaxShells = 2
    Chars = {"x", "y"}
    KEYBOARD_BUFFER_SIZE = 3
    SCREEN_WIDTH = 4
    Byte = 8
    PromptLength = 2
    MaxKeys = 5
INVARIANTS
    TypeOK
    EchoMatchesLine
    NoKeyTwice
PROPERTIES
    EnterSurvives
    KeyboardReopens
