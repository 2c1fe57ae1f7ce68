\* One pair, two calls, every book an earlier session may have left.
SPECIFICATION FairSpec
CONSTANTS
    EvenPages = {0}
    Suffixes = {"jpg", "jpeg", "dng", "txt"}
    ImageSuffixes = {"jpg", "jpeg", "dng"}
    Reports <- AnyReports
    MaxTakes = 2
    NoFile = NoFile
INVARIANTS
    TypeOK
    NoPageLost
    FailureChangesNothing
    FlushedBeforePublished
    OnlyImagesPublished
PROPERTIES
    ImplementsTransaction
    CallEnds
CHECK_DEADLOCK FALSE
