CONSTANTS
    Handles = {h1}
    Calls = {c1, c2, c3, c4}
    MaxConcurrent = 2
SPECIFICATION Spec
PROPERTY
    ExpiredIsEvicted
