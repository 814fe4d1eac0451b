\* A full ring leaves interrupts disabled: a triggered PendSV never runs.
\* No interrupt comes and every task returns: only enqueue()'s return is left.
SPECIFICATION FairSpec
CONSTANTS
    MAXINUMQUEUES = 3
    Swap = Swap
    get_received_char = get_received_char
    transmitting_data = transmitting_data
    Process = Process
    Tasks <- MCTasks
    ThreadTasks <- MCThreadTasks
    InterruptTasks = {}
    Spawns <- MCNoSpawns
    Endless = {}
    NoTask = NoTask
PROPERTY
    TriggeredRuns
