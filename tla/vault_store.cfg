SPECIFICATION FairSpec
CONSTANTS
    Windows <- MCWindows
    Fields <- MCFields
    Values <- MCValues
    Legacy <- MCLegacy
    Remote <- MCRemote
    Writes <- MCWrites
    Absent = Absent
    w1 = w1
    w2 = w2
    calendars = calendars
    accounts = accounts
    v1 = v1
    MaxSeals = 3
    MaxQueue = 2
INVARIANTS
    VaultOpenable
    
PROPERTIES
    ImplementsContract
    
