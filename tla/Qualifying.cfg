SPECIFICATION Spec
CONSTANTS
    a = a
    b = b
    c = c
    d = d
    Team <- MCTeam
    Result <- MCResults
    FirstGroups <- MCGroups
    CutLists <- MCCuts
    MaxRounds = 3
INVARIANTS
    TeamsConserved
PROPERTIES
    HeatsMixed
    CutsDealRankingOut
    StandingsKeepOrder
