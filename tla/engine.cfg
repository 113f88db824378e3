SPECIFICATION FairSpec
CONSTANTS
  admin = admin
  guest = guest
  Users = {admin, guest}
  Self = Self
  Texts <- AllTexts
  EmptyText = ""
  Calls <- CallsOf
  NoName = "none"
  Within <- WithinRelation
  Permitted <- PermittedUsers
  HelpText = "help"
  FailText = "failed"
  Documents <- Dictionaries
  Utterances <- Talk
  MaxRepeat = 2
  MaxMessages = 3
  MaxEdits = 1
  MaxHangups = 1
  MaxSaid = 3
CHECK_DEADLOCK FALSE
INVARIANT AnswersAreBounded
PROPERTY OnlyAnswers
PROPERTY OnlyStartStarts
PROPERTY ConversationEnds
PROPERTY StartIsHeard
PROPERTY AnswersMatch
PROPERTY ReloadTakesEffect
