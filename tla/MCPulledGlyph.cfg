SPECIFICATION Spec
CONSTANTS
    NoCondition = NoCondition
    Segment <- Segment6
    Codepoint <- Codepoint6
    Feature = {}
    Glyph <- PulledGlyph
    Font <- PulledFont
    Closure <- MCClosure
    FontCodepoints <- MCFontCodepoints
    Input <- PulledInput
INVARIANT
    SegmentationIsValid
