\* Sensors that wait behind another of their controller.
SPECIFICATION FairSpec
CONSTANTS
    dir_mag = dir_mag
    switch = switch
    power = power
    off = off
    s1 = s1
    s2 = s2
    s9 = s9
    Trigger = Trigger
    None = None
    Program <- NoStartup
    TrainCommands <- NoTrain
    Pin0 = "atmel1"
    Pin1 = "atmel3"
    Sensors <- MoreSensors
    FollowUps <- MoreFollowUps
    Blocks = 9
    MAXINUMQUEUES = 2
PROPERTY
    SensorsHeeded
