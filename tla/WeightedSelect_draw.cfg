\* Every pool of up to three members, every draw.
SPECIFICATION SelectSpec
CONSTANTS
    Stakes <- MCStakes
    MaxPool = 3
    MaxCount = 4
INVARIANTS
    SelectionExplained
PROPERTY
    SelectionEnds
CHECK_DEADLOCK FALSE
