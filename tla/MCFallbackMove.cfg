SPECIFICATION Spec
CONSTANTS
    NoCondition = NoCondition
    Segment <- Segment5
    Codepoint <- Codepoint5
    Feature = {}
    Glyph <- Glyph7
    Font <- UnmapFont
    Closure <- MCClosure
    FontCodepoints <- MCFontCodepoints
    Input <- UnmapInput
INVARIANT
    UnmappedGlyphsMoved
