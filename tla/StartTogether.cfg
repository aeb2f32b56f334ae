SPECIFICATION FairSpec
CONSTANTS
    p1 = p1
    p2 = p2
    Process <- MCProcess
    Migrations = 3
    MaxFaults = 2
INVARIANTS
    SchemaIsRecorded
    ServesComplete
    OneAdmin
    PrintedPasswordWorks
PROPERTIES
    StartedAgainServes
