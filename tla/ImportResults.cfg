SPECIFICATION ImportSpec
CONSTANTS
    c1 = c1
    c2 = c2
    a = a
    b = b
    blank = blank
    Client <- MCClients
    File <- MCFiles
    Cell <- MCCells
    Blank = blank
    MaxUploads = 1
    MaxAdded = 0
    MaxFaults = 0
INVARIANTS
    ResultsAreShown
