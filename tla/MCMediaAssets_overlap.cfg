\* Two downloads of one asset at the same time: does it still catch up?
CONSTANTS
    Tasks = {t1, t2}
    Urls = {u1, u2}
    Files = {png}
    None = None
    Unknown = Unknown
    Serial = FALSE
    MaxChanges = 1
    MaxFailures = 0
SPECIFICATION FairSpec
PROPERTY EventuallyCurrent
