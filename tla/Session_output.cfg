\* More output than all the buffers hold, with queries in it, against every
\* interleaving of the four threads.
SPECIFICATION Spec
CONSTANTS
    ChannelCapacity = 1
    OutputCapacity = 1
    TtyOut = 1
    TtyIn = 2
    PipeRoom = 1
    ClosedTty = "fails"
    MaxSize = 2
    InitSize = 9
    Format = "jsonl"
    Controls = {"resize", "signal", "shutdown"}
    Sizes = {0}
    Queries = {}
    MaxChunks = 6
    MaxControls = 1
INVARIANTS
    TypeOK
    ExitComplete
    IdleInSync
    ChildReaped
    Backpressure
PROPERTIES
    FedInOrder
    KeepsPromise
