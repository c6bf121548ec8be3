SPECIFICATION Spec
CONSTANTS
    Documents = {f}
    Directives = {x, y}
    None = None
    MaxOffset = 2
    MaxEdits = 2
    MaxRequests = 3
    MaxPanels = 2
    MaxFailures = 1
PROPERTIES
    NeverGoesBack
CHECK_DEADLOCK FALSE
