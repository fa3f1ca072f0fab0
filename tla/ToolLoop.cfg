SPECIFICATION FairSpec
CONSTANTS
  Tools <- MCTools
  Retried <- MCRetried
  Replies <- MCReplies
  MaxLength = 2
  MaxRounds = 2
  Cap = 1
INVARIANTS ToolMessagesTrue  EventsSound NeverCharged
PROPERTIES StreamedInOrder Released
