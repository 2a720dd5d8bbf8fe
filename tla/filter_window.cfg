SPECIFICATION Spec
CONSTANTS
    Bands = 2
    Rows = 2
    Values = {0, 1}
    Signatures <- MCSignatures
    Threshold = 2
    Capacity = 2
    MaxPosts = 5
    None = None
\* A poll may go on to the next one for ever.
INVARIANTS
    FilterTypeOK
    IndexMatchesWindow
    AcceptedAreDistinct
PROPERTIES
    ImplementsWindow
