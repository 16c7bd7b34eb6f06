SPECIFICATION FairSpec
CONSTANTS
    c1 = c1
    c2 = c2
    Conversations <- OneConversation
    MaxNumber = 2
    MaxSeen = 4
INVARIANTS NothingLost ReadMailHasNoCard
PROPERTIES NotifiedOnce NewMailIsNotified
