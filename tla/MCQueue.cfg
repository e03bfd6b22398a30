SPECIFICATION FairSpec
CONSTANTS
  r1 = r1
  r2 = r2
  y1 = y1
  s1 = s1
  s2 = s2
  None = None
  Roots <- MCRoots
  Replies <- MCReplies
  ReplyTo <- MCReplyTo
  Rank <- MCRank
  Subs <- MCSubs
  Configs <- MCConfigs
INVARIANTS TakenByItsHolder NotLost RepliesWithAck BlockingHandled
PROPERTIES Handled
