\* Two days, three datagrams, and three failures of any kind.
CONSTANTS
    MaxDay = 2
    MaxEvents = 3
    Chunk = 2
    MaxFailures = 3
    Garbage = Garbage
SPECIFICATION Spec
INVARIANTS FilesSound LinesIntact SoundLinesStay PrintedInOrder
PROPERTY LeavesNothing
