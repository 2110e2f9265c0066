CONSTANTS
    Digits <- MCDigits
    Radix = 2
    MaxSize = 3
    Replies <- MCReplies
    LineCap = 3
    Blocks = {1, 4}
    ReplyBlock = 2
    ReplyCap = 3
    ToSend = 3
SPECIFICATION FairSpec
INVARIANTS
    TypeOK
    BodyIsWhatWasSent
    EofMeansWhole
PROPERTIES
    ExchangeEnds
