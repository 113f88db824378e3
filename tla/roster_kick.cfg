SPECIFICATION Spec
CONSTANTS
  Users = {u1, u2}
  Self = Self
  NoUser = NoUser
  Chats = {Public}
  Public = Public
  Nicks = {n1, n2}
  SelfNick = SelfNick
  UniqueNicks = TRUE
  PrivateFirst = TRUE
  Kicks = TRUE
  Orderly = TRUE
  MaxEvents = 3
  MaxLosses = 1
CHECK_DEADLOCK FALSE
INVARIANT QuietAgrees
