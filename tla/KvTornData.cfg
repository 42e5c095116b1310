SPECIFICATION HSpec
CONSTANTS
    chip_factory = chip_factory
    chip_config = chip_config
    BEKEN0 = BEKEN0
    ns1 = ns1
    ns2 = ns2
    n1 = n1
    n2 = n2
    b1 = b1
    b2 = b2
    Blank = Blank
    Torn = Torn
    Absent = Absent
    Factory = chip_factory
    Namespaces <- BlockNamespaces
    Beken <- NoBeken
    Names = {n1, n2}
    Accesses <- BlockAccesses
    LongTexts <- PowerLong
    Values <- MCValues
    ReadLens <- MCReadLens
    Bits <- MCBits
    NumBlocks = 1
    NumSlots = 3
    SectorSize = 5
    MaxPowerLoss = 1
    MaxMallocFail = 0
INVARIANT PutsIntoErasedCells
