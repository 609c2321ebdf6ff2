\* Two questions at once: classified, planned, searched for and answered.
SPECIFICATION FairSpec
CONSTANTS
  Requests = {r1, r2}
  Questions <- MCQuestions
  Replies <- MCReplies
  Settings <- MCSettings
  MaxRetries = 1
  Threshold <- MCThreshold
INVARIANTS
  PlansExecutable PlanIsLastReply 
PROPERTIES
  RetrievalNeverRefuses QueriesAnswered
CHECK_DEADLOCK FALSE
