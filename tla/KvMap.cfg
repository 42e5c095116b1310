SPECIFICATION HSpec
CONSTANTS
    chip_factory = chip_factory
    chip_config = chip_config
    BEKEN0 = BEKEN0
    ns1 = ns1
    ns2 = ns2
    n1 = n1
    n2 = n2
    b1 = b1
    b2 = b2
    Blank = Blank
    Torn = Torn
    Absent = Absent
    Factory = chip_factory
    Namespaces <- MapNamespaces
    Beken <- MapBeken
    Names = {n1, n2}
    Accesses <- MapAccesses
    LongTexts <- MapLong
    Values <- MCTwoValues
    ReadLens <- MCReadLens
    Bits <- MCBits
    NumBlocks = 2
    NumSlots = 3
    SectorSize = 4
    MaxPowerLoss = 0
    MaxMallocFail = 0
INVARIANTS PutsIntoErasedCells DirectorySound
PROPERTY ImplementsKvStore
