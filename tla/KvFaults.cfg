SPECIFICATION HSpec
CONSTANTS
    chip_factory = chip_factory
    chip_config = chip_config
    BEKEN0 = BEKEN0
    ns1 = ns1
    ns2 = ns2
    n1 = n1
    n2 = n2
    b1 = b1
    b2 = b2
    Blank = Blank
    Torn = Torn
    Absent = Absent
    Factory = chip_factory
    Namespaces <- PowerNamespaces
    Beken <- NoBeken
    Names = {n1, n2}
    Accesses <- PowerAccesses
    LongTexts <- PowerLong
    Values <- MCTwoValues
    ReadLens = {1}
    Bits <- MCBits
    NumBlocks = 2
    NumSlots = 3
    SectorSize = 3
    MaxPowerLoss = 1
    MaxMallocFail = 1
INVARIANTS TypeOK RecordsOrdered PutsAreFree
PROPERTIES PowerLossKeepsOldNewOrNothing PowerLossSparesOtherKeys RecordDataStable CallsAdvance
