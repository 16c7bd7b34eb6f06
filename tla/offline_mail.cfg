SPECIFICATION FairSpec
CONSTANTS
    c1 = c1
    c2 = c2
    Conversations <- OneConversation
    Syncs <- OneSync
    MaxMessages = 2
    MaxChanges = 3
    MaxToggles = 0
  
PROPERTY FetchedMailArrives
