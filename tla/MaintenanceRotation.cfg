\* Two owners, one command.
SPECIFICATION Spec
CONSTANTS
    ann = ann
    bob = bob
    Owner = {ann, bob}
    Primary = ann
    MaxCommands = 1
    MaxWrites = 2
    MaxFaults = 1
    StartsBeside = FALSE
CHECK_DEADLOCK FALSE
PROPERTIES RotationReaches
