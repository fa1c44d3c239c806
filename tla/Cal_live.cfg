SPECIFICATION LiveSpec
CONSTANTS
    Driver = Driver
    Others = {}
    Watchdog = Watchdog
    Checker = Checker
    Commanders = {client}
    Commands = {}
    Kerberos = FALSE
    PerBin = FALSE
    RequiredStable = 1
    RequiredConv = 1
    MaxAttempts = 2
    MaxChecks = 1
    QuietUpdates = 1
    Snapshots = 1
    Expiring = {"recovery"}
    MaxCommands = 0
    MaxLosses = 2
    MaxPeriodic = 0
    Apart = FALSE
INVARIANTS LossNotForgotten
PROPERTIES LossesAreHandled
