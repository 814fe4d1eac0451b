\* Commands to the track from start-up on.
SPECIFICATION FairSpec
CONSTANTS
    dir_mag = dir_mag
    switch = switch
    power = power
    off = off
    s1 = s1
    s2 = s2
    s9 = s9
    Trigger = Trigger
    None = None
    Program <- MCProgram
    TrainCommands <- MCTrain
    Pin0 = "atmel1"
    Pin1 = "atmel3"
    Sensors <- MCSensors
    FollowUps <- MCFollowUps
    Blocks = 10
    MAXINUMQUEUES = 2
INVARIANTS
    TypeOK
    FramesComeBack
    StartupObeyed
PROPERTIES
    LineSpec
    SensorsHeeded
