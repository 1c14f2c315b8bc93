CONSTANTS
    Handlers = {h1, h2}
    Categories = {c}
    Stems = {a}
    Contents = {x, y}
    Snapshots = {s}
    Kinds <- Every
    MaxImages = 2
    None = none
SPECIFICATION HistorySpec
VIEW View
SYMMETRY Symmetry
INVARIANTS
    CountsDescribeFiles
PROPERTIES
    FilesAreKept
