SPECIFICATION Spec
CONSTANTS
    NoCondition = NoCondition
    Segment <- Segment7
    Codepoint <- Codepoint7
    Feature = {}
    Glyph <- Glyph9
    Font <- CombinedFont
    Closure <- MCClosure
    FontCodepoints <- MCFontCodepoints
    Input <- CombinedInput
INVARIANT
    IncrementalIsExact
