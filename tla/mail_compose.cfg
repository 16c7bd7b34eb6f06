CONSTANTS
  n1 = n1
  r1 = r1
  s1 = s1
  s2 = s2
  NewTexts = {n1}
  ReplyTexts = {r1}
  SharedTexts = {s1, s2}
  MaxWritten = 2
  MaxSends = 2
  MaxDrafts = 1
SPECIFICATION FairSpec
CHECK_DEADLOCK FALSE
INVARIANTS
  CancelledNeverSent
  
PROPERTIES
  DraftOutlivesSend
  SendEnds
