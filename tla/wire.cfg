SPECIFICATION FairSpec
CONSTANTS
  a = a
  b = b
  Files = {a, b}
  NoText = NoText
  Outputs <- Announced
  HasService <- Served
  Nameless = {}
  Titles = {a}
  News <- FewNews
  Replies <- FewReplies
  Said <- FewSaid
  NoNumber = NoNumber
  NoId = NoId
  HasStatus = TRUE
  Watched = 1
  Batches <- AandB
  MaxSessions = 2
  MaxPings = 1
  MaxBatches = 1
  MaxTurns = 1
CHECK_DEADLOCK FALSE
INVARIANT OwnIdIsCurrent
INVARIANT NeverRejected
INVARIANT FieldsAreThere
INVARIANT PostsAreOwn
PROPERTY PingsAreAnswered
PROPERTY LoginEnds
