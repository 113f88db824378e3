SPECIFICATION Spec
CONSTANTS
  Users = {u1, u2}
  Self = Self
  NoUser = NoUser
  Chats = {Public, c1}
  Public = Public
  Nicks = {n1, n2}
  SelfNick = SelfNick
  UniqueNicks = TRUE
  PrivateFirst = TRUE
  Kicks = FALSE
  Orderly = TRUE
  MaxEvents = 3
  MaxLosses = 1
CHECK_DEADLOCK FALSE
INVARIANT QuietAgrees
INVARIANT ContainersAgree
INVARIANT AnswerReachesSender
INVARIANT TypeOK
INVARIANT SenderAlwaysFound
INVARIANT InvitesNamedUser
