SPECIFICATION VideoSpec
CONSTANTS
    MaxTasks = 4
    NTerms = 2
    TickPoints <- NotWindow
INVARIANTS
    TypeOK
    TaskCount
    ProcessTree
    ParentSuspended
    Resumable
    RunsAsItself
    ReturnsToCaller
    NoSpurious256
    DisplayedHasScreen
    PreemptedIsHidden
PROPERTY
    ImplementsProcTree
