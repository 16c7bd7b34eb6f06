SPECIFICATION Spec
CONSTANTS
    Devices <- MCDevices
    Edits <- OneEdit
    d1 = d1
    d2 = d2
    e1 = e1
    e2 = e2
    MaxVersion = 3
    MaxQueue = 1
    MaxChecks = 1
PROPERTIES
    NeverSilentOverwrite
