SPECIFICATION Spec
CONSTANTS
    Segment = {0, 1, 2, 3}
    Codepoint = {1, 2, 3}
    Feature = {"liga"}
    Axis = {"wght"}
    Position = {1, 2, 3, 4}
    MaxChildren = 3
    CodepointCost <- MCCodepointCost
    Input <- MCInput
    Client <- MCClient
INVARIANTS
    NoInternalError
    EdgeCountsExact
    OrderFollowsForOwnParts
PROPERTIES
    SavesWhatWasComputed
    ImplementsSelection
