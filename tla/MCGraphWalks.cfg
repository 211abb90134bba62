SPECIFICATION Spec
CONSTANTS
    Segment <- Segment3
    Codepoint <- Codepoint6
    Glyph <- Glyph6
    Font <- WalkFont
    Closure <- MCClosure
    FontCodepoints <- CodepointsForGlyphs
    Feature <- MCFeature
    UnicodeData <- MCUnicodeData
    CompositionExclusion = {}
    Mirror <- MCMirror
    Walk <- MCWalk
    Vertex <- Vertex3
    Graph <- MCGraph
INVARIANTS
    TraversalIsClosure
    NoEdgeForgotten
    ComponentsInOrder
PROPERTIES
    Terminates
CHECK_DEADLOCK FALSE
