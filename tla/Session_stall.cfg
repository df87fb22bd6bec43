\* The host types while the child writes, and neither kernel buffer is endless.
SPECIFICATION FairSpec
CONSTANTS
    ChannelCapacity = 1
    OutputCapacity = 1
    TtyOut = 1
    TtyIn = 1
    PipeRoom = 1
    ClosedTty = "fails"
    MaxSize = 2
    InitSize = 1
    Format = "jsonl"
    Controls = {"input"}
    Sizes = {}
    Queries = {}
    MaxChunks = 6
    MaxControls = 2
PROPERTIES
    StdinEofEnds
CHECK_DEADLOCK FALSE
