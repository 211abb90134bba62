SPECIFICATION Spec
CONSTANTS
    Codepoint = {1, 2, 3}
    Feature = {"liga", "smcp"}
    DefaultFeatures = {"liga"}
    Axis = {"wght"}
    Position = {1, 2, 3, 4}
    AxisDefault <- MCAxisDefault
    Input <- OverlapInput
    Client <- MCClient
INVARIANT NoInternalError
