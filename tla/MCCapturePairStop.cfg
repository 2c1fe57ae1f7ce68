\* Do the page pairs in the book survive a stop of the process?
SPECIFICATION Spec
CONSTANTS
    EvenPages = {0}
    Suffixes = {"jpg", "jpeg", "dng", "txt"}
    ImageSuffixes = {"jpg", "jpeg", "dng"}
    Reports <- AnyReports
    MaxTakes = 1
    NoFile = NoFile
INVARIANT PairsSurviveStop
CHECK_DEADLOCK FALSE
