SPECIFICATION Spec
CONSTANTS
    a1 = a1
    a2 = a2
    t1 = t1
    Acts <- TwoActs
    Tools <- None
    Members <- Files
    MaxVersion = 2
    MaxWait = 2
    Commands <- None
PROPERTIES NoDowngrade UpdatersEnd
CHECK_DEADLOCK FALSE
