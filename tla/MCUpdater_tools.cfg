SPECIFICATION Spec
CONSTANTS
    a1 = a1
    a2 = a2
    t1 = t1
    Acts <- OneActs
    Tools <- OneTool
    Members <- Files
    MaxVersion = 2
    MaxWait = 1
    Commands <- Both
INVARIANTS TypeOK InstallWhole CheckedOnce
CHECK_DEADLOCK FALSE
