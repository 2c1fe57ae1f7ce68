\* Does the session always rest where an operation is accepted?
SPECIFICATION Spec
CONSTANTS
    Cameras = {left, right}
    MaxPage = 2
INVARIANT RestsOperable
