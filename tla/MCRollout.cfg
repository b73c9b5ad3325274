SPECIFICATION MCSpec
CONSTANTS
    NodeRunners = {"api"}
    GoRunners = {"go"}
    Cli = "cli"
    Services = {"web", "api"}
    MaxVersion = 2
    Broken = {2}
    MaxFaults = 1
    MaxDeploys = 2
    MaxCommands = 1
    Configurations <- MCConfigurations
    Clients = {"probe"}
    MaxMaterial = 3
    Damaged = {2}
INVARIANTS
    PendingIsCurrent
    ServingIsMigrated
    ReleaseIsProven
    ServedIsCurrent
PROPERTIES
    ServicesComeUp
    StopEnds
CHECK_DEADLOCK FALSE
