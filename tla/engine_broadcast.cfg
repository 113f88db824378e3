SPECIFICATION Spec
CONSTANTS
  admin = admin
  guest = guest
  Users = {admin, guest}
  Self = Self
  Texts <- AllTexts
  EmptyText = ""
  Calls <- CallsOf
  NoName = "none"
  Within <- WithinRelation
  Permitted <- PermittedUsers
  HelpText = "help"
  FailText = "failed"
  Documents <- Loud
  Utterances <- Broadcasts
  MaxRepeat = 2
  MaxMessages = 1
  MaxEdits = 0
  MaxHangups = 0
  MaxSaid = 8
CHECK_DEADLOCK FALSE
PROPERTY AnswersMatch
