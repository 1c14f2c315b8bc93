CONSTANTS
    a = a
    b = b
    c = c
    d = d
    gone = gone
    channel = channel
    other = other
    image = image
    mask = mask
    PortIds <- MCPortIds
    Types = {image, mask, generic}
    Generic = generic
    Ids = {a, b, c, d, gone}
    Blank = blank
    Names = {channel, other, blank}
    Workflows <- MCWorkflows
    Graphs <- MCGraphs
SPECIFICATION ValidationSpec
INVARIANTS
    OrderIsTopological
    CycleErrorIsExact
    PreferenceDecides
    AcceptsExactlyTheSound
CHECK_DEADLOCK FALSE
