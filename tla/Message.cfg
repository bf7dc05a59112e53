SPECIFICATION MessageSpec
CONSTANTS
    Char <- AnyChar
    Typed <- Lines
INVARIANTS MessageTypeOK StaysInside DuplicatesAreRemoved PassedOnIsPrintable  PlainTextIsShown
PROPERTIES LoopsEnd
CHECK_DEADLOCK FALSE
