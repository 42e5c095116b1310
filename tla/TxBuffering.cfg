SPECIFICATION FairSpec
CONSTANTS
    c1 = c1
    Clients <- OneClient
    MaxCount = 2
    BusLen = 3
    MaxInds = 2
    MaxCommands = 2
INVARIANTS TypeOK 
  
