SPECIFICATION LiveSpec
CONSTANTS
    Driver = Driver
    Others = {}
    Watchdog = Watchdog
    Checker = Checker
    Commanders = {client}
    Commands <- EqualizerCommands
    Kerberos = FALSE
    PerBin = TRUE
    RequiredStable = 2
    RequiredConv = 2
    MaxAttempts = 1
    MaxChecks = 3
    QuietUpdates = 1
    Snapshots = 1
    Expiring = {"settle", "cooldown", "per_bin"}
    MaxCommands = 2
    MaxLosses = 0
    MaxPeriodic = 1
    Apart = TRUE
INVARIANTS TypeOK NoiseAsNeeded
PROPERTIES PerBinEnds
