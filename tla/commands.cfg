SPECIFICATION FairSpec
CONSTANTS
  wirebot = wirebot
  guest = guest
  taken = taken
  here = here
  plain = plain
  cat = cat
  path = path
  saved = saved
  gone = gone
  Begins <- Prefixes
  Nicks <- SomeNicks
  Statuses <- SomeStatuses
  Icons <- SomeIcons
  NoValue = NoValue
  NoIcon = NoIcon
  DefaultIcon = plain
  IconPath = path
  Present = {guest}
  Refused = {taken}
  Values <- SomeValues
  Answers <- SomeAnswers
  Bookmarks <- SomeBookmarks
  NoNumber = NoNumber
  Wrap = 3
  Burst = 2
  MaxEvents = 3
CHECK_DEADLOCK FALSE
INVARIANT TypeOK
INVARIANT IdentityAgrees
INVARIANT ErrorsAreNamed
INVARIANT TalkIsSafe
PROPERTY NumbersNeedSession
PROPERTY ReloadShowsIcon
