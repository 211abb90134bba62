SPECIFICATION Spec
CONSTANTS
    Segment <- Segment3
    Codepoint <- Codepoint6
    Glyph <- Glyph6
    Font <- MCFont
    Closure <- MCClosure
    FontCodepoints <- CodepointsForGlyphs
    Feature <- MCFeature
    UnicodeData <- MCUnicodeData
    CompositionExclusion = {}
    Mirror <- MCMirror
    Request <- MCRequest
    Move <- MCMove
INVARIANTS
    ConditionsAreExact
    CacheIsFresh
    AnalysisAgrees
    ConditionSetExact
CHECK_DEADLOCK FALSE
