SPECIFICATION Spec
CONSTANTS
    Driver = Driver
    Others = {}
    Watchdog = Watchdog
    Checker = Checker
    Commanders = {client}
    Commands <- KerberosCommands
    Kerberos = TRUE
    PerBin = FALSE
    RequiredStable = 1
    RequiredConv = 2
    MaxAttempts = 1
    MaxChecks = 2
    QuietUpdates = 1
    Snapshots = 1
    Expiring = {"settle", "recovery"}
    MaxCommands = 2
    MaxLosses = 1
    MaxPeriodic = 0
    Apart = FALSE
PROPERTIES KerberosCauses OnlyVerificationCompletes
