CONSTANTS
    MaxSize = 4
    PieceLengths <- SomeLengths
    DefaultLength = 3
    Orders <- SomeOrders
    Encoder <- Encode
    Reads <- Decodes
    Sha1 <- Numbering
SPECIFICATION Spec
INVARIANTS
    TypeOK
    PiecesDescribePayload
    TorrentReadsBack
    InfoHashIsOfTheFile
