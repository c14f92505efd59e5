SPECIFICATION TransferSpec
CONSTANTS
    Lengths = {1, 8}
    MaxMessages = 2
    ReadSize <- Reads
    Sizes = {3, 4, 17}
    MaxParts = 1
    FILE_CHUNK = 16
INVARIANTS LengthsRight InStep BodiesWhole PartExact FullReadsAligned
PROPERTIES PartExecuted ImplementsChannel
CHECK_DEADLOCK FALSE
