\* Progress, with a tty that is soon full and a child that may go at any time.
SPECIFICATION FairSpec
CONSTANTS
    ChannelCapacity = 1
    OutputCapacity = 1
    TtyOut = 1
    TtyIn = 1
    PipeRoom = 1
    ClosedTty = "fails"
    MaxSize = 2
    InitSize = 1
    Format = "jsonl"
    Controls = {"input", "ping"}
    Sizes = {}
    Queries = {1}
    MaxChunks = 2
    MaxControls = 1
PROPERTIES
    ChildExitEnds
    EofEndsUnlessBlocked
    OutputShownUnlessBlocked
    AnsweredUnlessBlocked
CHECK_DEADLOCK FALSE
