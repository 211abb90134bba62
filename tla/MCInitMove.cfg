SPECIFICATION Spec
CONSTANTS
    NoCondition = NoCondition
    Segment <- Segment4
    Codepoint <- Codepoint5
    Feature = {}
    Glyph <- Glyph6
    Font <- MoveFont
    Closure <- MCClosure
    FontCodepoints <- MCFontCodepoints
    Input <- MoveInput
INVARIANT
    IncrementalIsExact
