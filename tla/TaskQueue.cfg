\* Safety and liveness of the task ring with Process, a task that never returns.
SPECIFICATION FairSpec
CONSTANTS
    MAXINUMQUEUES = 3
    Swap = Swap
    get_received_char = get_received_char
    transmitting_data = transmitting_data
    Process = Process
    Tasks <- MCTasks
    ThreadTasks <- MCThreadTasks
    InterruptTasks <- MCInterruptTasks
    Spawns <- MCSpawns
    Endless = {Process}
    NoTask = NoTask
INVARIANTS
    TypeOK
    RingContiguous
    NoneLeftBehind
PROPERTIES
    QueueSpec
    TasksStart
