SPECIFICATION Spec
CONSTANTS
    a = a
    b = b
    x = x
    s1 = s1
    q1 = q1
    q2 = q2
    Name <- MCName
    Team <- MCTeam
    Score <- MCScore
    Request <- MCRequest
    Batch <- MCFullBatch
    RequestedGroups <- MCFewGroups
    PluginGroups <- MCPlugin
    PluginCuts <- MCCuts
    MaxRounds = 1
    MaxHeats = 2
    MaxDivisions = 2
    MaxFaults = 0
INVARIANTS
    DivisionRankedByItsHeat
