\* Highlights, sizes, side state and committed lines, in bursts larger than the
\* history too: what the host is told and what it shows.
SPECIFICATION Spec
CONSTANTS
    Rows <- StyledRows
    Sizes <- StyledSizes
    InitSize <- StyledInit
    DefaultAttrs = "plain"
    Cursors = {"home", "end"}
    InitCursor = "home"
    Titles = {"t"}
    Rings = FALSE
    Scrollback = 1
    Vacated = "stale"
    MaxChanges = 3
    MaxBurst = 2
    MaxOff = 2
INVARIANTS
    RendererInv
    HostMirrors
    IdsDefined
    Transcript
    CountExact
PROPERTIES
    IdsStable
    AtomicPages
CHECK_DEADLOCK FALSE
