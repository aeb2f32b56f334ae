SPECIFICATION ImportSpec
CONSTANTS
    c1 = c1
    c2 = c2
    a = a
    b = b
    blank = blank
    Client <- MCClients
    File <- MCFiles
    Cell <- MCCells
    Blank = blank
    MaxUploads = 2
    MaxAdded = 1
    MaxFaults = 2
INVARIANTS
    EveryRowAccounted
    StoredIsABeginning
    AnsweredErrorStoredNothing
    ProblemsNameRows
