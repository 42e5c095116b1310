\* Two stations, room for both: every message, loss, delay and duplicate.
SPECIFICATION Spec
CONSTANTS
    m1 = m1
    m2 = m2
    m3 = m3
    Macs <- TwoMacs
    Fickle <- TwoMacs
    StaMax = 2
    CacheSize = 2
    Size = 8
    MyHost = 1
    Remembered <- RememberedSome
    MaxInFlight = 2
CONSTRAINT FewInFlight
SYMMETRY MacSymmetry
INVARIANTS
    RegistrationsExclusive
    LeasesExclusive
    OffersBacked
    RefusalsDeserved
    NeverHung
PROPERTY RegistrationStable
