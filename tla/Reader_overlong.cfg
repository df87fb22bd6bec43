\* A line just longer than the cap.
SPECIFICATION Spec
CONSTANTS
    Formats = {"jsonl"}
    Cap = 2
    ReadSize = 3
    Items <- LongLine
    MaxItems = 1
INVARIANTS
    OverlongRejected
