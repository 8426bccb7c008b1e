SPECIFICATION Spec
CONSTANTS
    Positions <- MCPositions
    Gears <- MCGears
    GearLevels <- MCGearLevels
    PressedKeys <- MCPressedKeys
    MaxCalibrations = 1
    MaxMoves = 1
    MaxPresses = 1
INVARIANTS
    TypeOK
    SticksInRange
    CentredWhenCalibrated
    PacketCarriesChannels
VIEW MCView
