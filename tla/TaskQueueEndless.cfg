\* The console queues Process, which never returns: PendSV never ends.
SPECIFICATION FairSpec
CONSTANTS
    MAXINUMQUEUES = 3
    Swap = Swap
    get_received_char = get_received_char
    transmitting_data = transmitting_data
    Process = Process
    Tasks <- MCTasks
    ThreadTasks <- MCThreadTasks
    InterruptTasks <- MCInterruptTasks
    Spawns <- MCSpawns
    Endless = {Process}
    NoTask = NoTask
PROPERTY
    BackWhenEmpty
