SPECIFICATION Spec
CONSTANTS
    Mint = {1, 2, 3, 4}
    Address = {1, 2}
    Capacity = 3
    MaxUserPositions = 2
    MaxBalance = 1
INVARIANTS
    MapSorted
    KeysMatchSlots
    FreeSlotMeansRoom
PROPERTIES
    StableSlots
    RefinesPositionMap
