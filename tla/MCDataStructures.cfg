SPECIFICATION Spec
CONSTANTS
    Segment = {0, 1, 2, 3}
    Operand <- MCOperand
    Cond <- MCCond
    Gid = {1, 2, 3}
    Glyph <- Glyph3
    Codepoint <- Codepoint4
    Feature = {}
    Font <- MCFont
    Closure <- MCClosure
    FontCodepoints <- NoFurtherCodepoints
    Analysis <- MCAnalysis
    Ungrouped = Ungrouped
    NoCondition = NoCondition
    NumGlyphs = 4
    p1 = p1
    p2 = p2
    Instance = {p1, p2}
    Assigned = {p2}
    Read = {p1}
    Width = 6
    PatchMapEntries <- MCPatchMapEntries
    DeltaLimit = 12
    MaxChildren = 1
INVARIANTS
    MeaningExact
    KeyFollowsMeaning
    IndexConsistent
    EntriesRoundTrip
    SetsRoundTrip
    ActivatesWhenNeeded
    OnlySegmentsOfTheCondition
    FindsGlyphByGlyph
PROPERTIES
    WeakenIsSuperset
    ImplementsMap
    ImplementsPartition
    SearchEnds
CHECK_DEADLOCK FALSE
