SPECIFICATION HistorySpec
CONSTANTS
    Senders = {s1, s2, s3}
    NoSender = NoSender
    Levels = {1, 2}
    FailsafeFrame = FailsafeFrame
    ForeignData = ForeignData
    SyncTimeout = 1
    OutputTimeout = 2
    MergeTimeout = 4
    MaxGap = 1
PROPERTY NextSenderTakesControl
