\* Two owners; up to three commands, of maintenance or of the instance manager.
SPECIFICATION OperationsSpec
CONSTANTS
    ann = ann
    bob = bob
    home = home
    other = other
    v1 = v1
    v2 = v2
    Owner = {ann, bob}
    Primary = ann
    MaxCommands = 3
    MaxWrites = 2
    MaxFaults = 2
    StartsBeside = FALSE
    Alias = {home, other}
    Port = {1, 2}
    Image = {v1, v2}
    First <- FirstInstance
    MaxJobs = 2
    MaxErrors = 1
    Mixes <- SomeMixes
CHECK_DEADLOCK FALSE
INVARIANTS KeysKept CreatedStays ImagesAgree
PROPERTY ReportIsTrue
