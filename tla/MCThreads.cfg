CONSTANTS
    Threads = {main, t1, t2}
    Main = main
    Cpus <- MCCpus
    Environments <- MCEnvironments
    Tools = {2, 4}
    KeysMax = 1
    None = None
SPECIFICATION Spec
\* The process ends when main returns.
CHECK_DEADLOCK FALSE
INVARIANTS ThreadsInv Pinned Isolated OwnRuntimeEnds
PROPERTY JoinEnds
