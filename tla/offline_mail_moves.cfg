SPECIFICATION Spec
CONSTANTS
    c1 = c1
    c2 = c2
    Conversations <- TwoConversations
    Syncs <- TwoSyncs
    MaxMessages = 1
    MaxChanges = 2
    MaxToggles = 2
SYMMETRY Symmetry
INVARIANT CopyConsistent
