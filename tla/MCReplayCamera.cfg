CONSTANTS
    Threads = {h1, h2}
    Ids = {a}
    Images = {image}
    Contents = {x, y}
    Pattern = pattern
    Nothing = nothing
SPECIFICATION CameraHistorySpec
SYMMETRY Symmetry
INVARIANTS
    ResultsDescribeArtifacts
    AnnouncedArtifactsExist
PROPERTIES
    RepeatsReturnTheSame
