CONSTANTS
  m1 = m1
  m2 = m2
  m3 = m3
  Messages = {m1, m2}
  ImapMessages = {m1, m2, m3}
  MaxCalls = 2
  Parallel = 2
  MaxMoves = 1
  Batch = 1
  MaxSends = 2
  MaxAttachments = 2
  Size = 3
  Subjects = 2
  Page = 2
  First = 4
  MaxChanges = 1
  MaxAsks = 3
  MaxOpens = 2
  MaxDeletes = 2
  Conversations = {"x", "y"}
  Long = {"x"}
  Length = 2
  Limit = 1
  MaxTransfers = 2
  MaxFound = 2
  Stored = 3
  MaxSearches = 2
  MaxEvents = 1
SPECIFICATION MCSpec
CHECK_DEADLOCK FALSE
INVARIANTS OneSystemLabel AnswerIsTrue GroupsAreComponents  DeletedStaysOut MovedIsCopied
 
