\* Rows, attributes, colours and messages over bounded inputs.
SPECIFICATION Spec
CONSTANTS
    NarrowCells <- Narrow
    WideCells <- WideOnes
    SpacerCells <- Spacers
    Looks <- StyledCells
    Messages <- SomeMessages
    NotBase64 <- NoBase64
    MaxCells = 5
INVARIANTS
    RoundTrip
    Shortest
    LooksSurvive
    PaletteIsXterm
    ErrorTable
CHECK_DEADLOCK FALSE
