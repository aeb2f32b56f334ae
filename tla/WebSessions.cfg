SPECIFICATION Spec
CONSTANTS
    organizer = organizer
    spectator = spectator
    q1 = q1
    q2 = q2
    Account <- MCAccounts
    Organizer <- MCOrganizers
    Request <- MCTwoRequests
    MaxTokens = 2
    MaxFaults = 1
INVARIANTS
    LoggedOutIsEmpty
PROPERTIES
    LiveSessionKept
    NoSessionLeftBehind
    LogoutEnds
