SPECIFICATION FairSpec
CONSTANTS
  Users = {u1, u2}
  Self = Self
  NoUser = NoUser
  Chats = {Public, c1}
  Public = Public
  Nicks = {n1}
  SelfNick = SelfNick
  UniqueNicks = FALSE
  PrivateFirst = FALSE
  Kicks = TRUE
  Orderly = FALSE
  MaxEvents = 3
  MaxLosses = 0
CHECK_DEADLOCK FALSE
INVARIANT ChatAlwaysFound
PROPERTY MembersBecomeKnown
