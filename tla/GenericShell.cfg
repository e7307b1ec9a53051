SPECIFICATION FairSpec
CONSTANT Sessions <- Mixed
INVARIANTS EvaluatorFlag CleanExit
PROPERTIES ImplementsLineShell ShellDeleted EveryLineRuns
