\* Every event type of the protocol, sent by the host.
SPECIFICATION Spec
CONSTANTS
    Formats = {"jsonl", "msgpack"}
    Cap = 2
    ReadSize = 3
    Items <- Misdirected
    MaxItems = 1
INVARIANTS
    DirectionAnswered
