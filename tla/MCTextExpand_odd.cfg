SPECIFICATION Spec
CONSTANTS
    Tasks = 3
    Max = 27
    Dict <- Words2
    Period = 4
    MaxLength = 3
INVARIANTS TypeOK RunningCounts AllWords StopEndsTasks
PROPERTY Returns
