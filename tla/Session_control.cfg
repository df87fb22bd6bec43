\* Two control messages of every class, over MessagePack, racing output that
\* holds terminal queries.
SPECIFICATION Spec
CONSTANTS
    ChannelCapacity = 2
    OutputCapacity = 1
    TtyOut = 1
    TtyIn = 4
    PipeRoom = 1
    ClosedTty = "accepts"
    MaxSize = 2
    InitSize = 1
    Format = "msgpack"
    Controls = {"input", "ping", "garbage"}
    Sizes = {}
    Queries = {1, 2}
    MaxChunks = 2
    MaxControls = 2
INVARIANTS
    ControlsInOrder
    EofLosesNothing
    QueriesAnswered
    PipelineInv
    ControlInv
