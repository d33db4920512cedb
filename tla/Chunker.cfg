SPECIFICATION Spec
CONSTANTS
    MaxLength = 8
    Texts <- MCTexts
    Sizes <- MCSizes
    Overlaps <- MCOverlaps
INVARIANTS
    TypeOK
    PhrasesStayWhole
    ChunksAdvance
PROPERTY
    Terminates
