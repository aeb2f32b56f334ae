SPECIFICATION FairSpec
CONSTANTS
    a = a
    b = b
    x = x
    s1 = s1
    q1 = q1
    q2 = q2
    Name <- MCName
    Team <- MCTeam
    Score <- MCScore
    Request <- MCRequest
    Batch <- MCBatch
    RequestedGroups <- MCAllGroups
    PluginGroups <- MCPlugin
    PluginCuts <- MCCuts
    MaxRounds = 1
    MaxHeats = 2
    MaxDivisions = 0
    MaxFaults = 1
INVARIANTS
    TypeOK
    ClosedRoundFinished
    ScheduledTogether
    CascadeJustified
    ClosureUnderWay
PROPERTIES
    NothingReopens
    KeepsPromise
    KeepsPromiseFairly
    ResubmissionHeals
