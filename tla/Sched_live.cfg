SPECIFICATION FairSpec
CONSTANTS
    MaxTasks = 4
    NTerms = 2
    TickPoints <- NotWindow
PROPERTIES
    EveryTreeRuns
    ProgramStarts
    CallerResumes
