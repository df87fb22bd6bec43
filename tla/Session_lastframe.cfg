\* A child asks the terminal something and exits without waiting for the answer.
SPECIFICATION Spec
CONSTANTS
    ChannelCapacity = 1
    OutputCapacity = 1
    TtyOut = 1
    TtyIn = 1
    PipeRoom = 1
    ClosedTty = "fails"
    MaxSize = 2
    InitSize = 1
    Format = "jsonl"
    Controls = {}
    Sizes = {}
    Queries = {1}
    MaxChunks = 1
    MaxControls = 0
INVARIANTS
    FinalFrame
