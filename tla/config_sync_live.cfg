SPECIFICATION FairSpec
CONSTANTS
    Devices <- OneDevice
    Edits <- NoEdit
    d1 = d1
    d2 = d2
    e1 = e1
    e2 = e2
    MaxVersion = 2
    MaxQueue = 1
    MaxChecks = 2
PROPERTIES
    Noticed
