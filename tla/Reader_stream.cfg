\* Items of every class and length in both formats, cut into chunks anywhere.
SPECIFICATION FairSpec
CONSTANTS
    Formats = {"jsonl", "msgpack"}
    Cap = 2
    ReadSize = 3
    Items <- MCItems
    MaxItems = 3
INVARIANTS
    ReaderInv
    InStep
    StopsAtFatal
PROPERTIES
    NothingInvented
    EofEnds
