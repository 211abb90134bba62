SPECIFICATION Spec
CONSTANTS
    Codepoint = {1, 2, 3}
    Feature = {"liga", "smcp"}
    DefaultFeatures = {"liga"}
    Axis = {"wght"}
    Position = {1, 2, 3, 4}
    AxisDefault <- MCAxisDefault
    Input <- MCInput
    Client <- MCClient
INVARIANTS
    NoInternalError
    RecursionDescends
    PatchesApply
    GlyphPatchesFit
    OutlinesMatch
PROPERTIES
    ImplementsExtension
