SPECIFICATION Spec
CONSTANTS
    NoCondition = NoCondition
    Segment <- Segment4
    Codepoint <- Codepoint5
    Feature = {}
    Glyph <- Glyph6
    Font <- SmallFonts
    Closure <- MCClosure
    FontCodepoints <- MCFontCodepoints
    Input <- SmallInput
INVARIANTS
    NoInternalError
    IncrementalIsExact
    ConditionsInSync
    SegmentationIsValid
    ClosureRequirement
    DisjunctionsAreNeeded
PROPERTIES
    MergesOnlyCoarsen
    EveryIterationAdvances
