SPECIFICATION Spec
CONSTANTS
    Tasks = 2
    Max = 27
    Dict <- Words2
    Period = 4
    MaxLength = 3
INVARIANT StopEndsTasks
