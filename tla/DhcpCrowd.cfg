\* Three stations, one registration and five addresses: most of what is
\* acknowledged is not recorded.
SPECIFICATION Spec
CONSTANTS
    m1 = m1
    m2 = m2
    m3 = m3
    Macs <- ThreeMacs
    Fickle <- NoMacs
    StaMax = 2
    CacheSize = 1
    Size = 8
    MyHost = 1
    Remembered <- RememberedOne
    MaxInFlight = 1
CONSTRAINT FewInFlight
SYMMETRY MacSymmetry
INVARIANTS
    TypeOK
    RegisteredLeaseExclusive
