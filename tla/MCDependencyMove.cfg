SPECIFICATION Spec
CONSTANTS
    Segment <- Segment3
    Codepoint <- Codepoint6
    Glyph <- Glyph6
    Font <- AbsorbingFonts
    Closure <- MCClosure
    FontCodepoints <- CodepointsForGlyphs
    Feature <- MCFeature
    UnicodeData <- MCUnicodeData
    CompositionExclusion = {}
    Mirror <- MCMirror
    Request <- AbsorbingRequest
    Move <- MCMove
INVARIANTS
    ConditionSetExact
CHECK_DEADLOCK FALSE
