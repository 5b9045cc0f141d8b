SPECIFICATION FairSpec
CONSTANTS
  Asked <- MCAsked
  Servers <- MCServers
  Replies <- MCReplies
  Exports <- MCExports
  MaxReplies = 9
  UllongMax = 2147483647
CHECK_DEADLOCK FALSE
INVARIANTS
  TypeOK
  InSync
  MappedFaithfully
PROPERTIES
  NegotiationSettles
