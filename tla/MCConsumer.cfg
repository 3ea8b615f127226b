CONSTANTS
    a = a
    b = b
    Nil = Nil
    Partitions = {a, b}
    BaseOffset <- Base
    FetchMax = 2
    ChannelSize = 2
    MaxRecords = 3
SPECIFICATION FairSpec
INVARIANT TypeOK
INVARIANT EachRecordOnce
INVARIANT OwnAnswer
PROPERTY BothLoopsServed
PROPERTY ApplicationSeesLog
