SPECIFICATION Spec
CONSTANTS
    Driver = Driver
    Others = {other}
    Watchdog = Watchdog
    Checker = Checker
    Commanders = {client}
    Commands <- RetuneCommands
    Kerberos = FALSE
    PerBin = TRUE
    RequiredStable = 3
    RequiredConv = 4
    MaxAttempts = 2
    MaxChecks = 5
    QuietUpdates = 1
    Snapshots = 1
    Expiring = {"settle", "cooldown"}
    MaxCommands = 2
    MaxLosses = 0
    MaxPeriodic = 0
    Apart = FALSE
INVARIANTS
    CalibrationIsVerified
    EqualizerIsCurrent
PROPERTIES
    CorrectionNeedsLag
