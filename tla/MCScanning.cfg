\* Two pairs of pages with one file each, any number of captures, rescans, failures
\* and restarts.
SPECIFICATION Spec
CONSTANTS
    Cameras = {left, right}
    MaxPage = 2
    PublishedSuffixes = {"jpg"}
    Content = {first, second, third}
    NoFile = NoFile
SYMMETRY Alike
PROPERTIES
    ImplementsSession
    PagesStand
    PairsMatch
CHECK_DEADLOCK FALSE
