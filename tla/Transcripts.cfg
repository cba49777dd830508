SPECIFICATION PartSpec
CONSTANTS
    Off = Off
    Absent = Absent
    h1 = h1
    h2 = h2
    g1 = g1
    g2 = g2
    Callers = {a, b}
    Discovery = d
    None = none
    MaxRounds = 2
    MaxPages = 2
SYMMETRY Symmetry
CHECK_DEADLOCK FALSE
INVARIANT GroupGone
INVARIANT RoundsBounded
PROPERTY NoOverlap
PROPERTY DefinitionPinned
PROPERTY DialogSound
PROPERTY ConversationSound
