SPECIFICATION Spec
CONSTANTS
    Devices <- OneDevice
    Edits <- MCEdits
    d1 = d1
    d2 = d2
    e1 = e1
    e2 = e2
    MaxVersion = 2
    MaxQueue = 2
    MaxChecks = 1
SYMMETRY EditSymmetry
INVARIANTS
    MemoryIsStored
PROPERTIES
    UploadCarriesTheScreen
