\* Tasks one after the other: every failure, and the asset catches up.
CONSTANTS
    Tasks = {t1}
    Urls = {u1, u2}
    Files = {png, jpg}
    None = None
    Unknown = Unknown
    Serial = TRUE
    MaxChanges = 2
    MaxFailures = 2
SPECIFICATION FairSpec
INVARIANT TypeOK
INVARIANT InfoDescribesAsset
INVARIANT NoOrphans
PROPERTY EventuallyCurrent
PROPERTY ImplementsStore
