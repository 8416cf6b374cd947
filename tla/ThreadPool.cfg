\* Three workers and four tasks: a backlog deeper than the idle workers.
SPECIFICATION FairSpec
CONSTANTS
    Workers = {w1, w2, w3}
    Tasks = {t1, t2, t3, t4}
    Main = Main
    NoThread = NoThread
    NoTask = NoTask
INVARIANTS
    TypeOK
    RunOnce
    NoSleepOnBacklog
PROPERTIES
    QueuedTasksRun
    ImplementsTaskQueue
CHECK_DEADLOCK TRUE
