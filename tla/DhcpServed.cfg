\* Patient stations over a lossy link.
SPECIFICATION FairSpec
CONSTANTS
    m1 = m1
    m2 = m2
    m3 = m3
    Macs <- OneMac
    Fickle <- NoMacs
    StaMax = 2
    CacheSize = 1
    Size = 8
    MyHost = 1
    Remembered <- RememberedAnything
    MaxInFlight = 2
PROPERTY EveryStationServed
