SPECIFICATION Spec
CONSTANTS
    MaxTasks = 4
    NTerms = 2
    TickPoints <- NotWindow
INVARIANT
    ExceptionReported
