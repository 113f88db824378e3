------------------------------- MODULE Roster -------------------------------
(***************************************************************************)
(* Who is on which chat: chats.c, users.c, the chat, user and message      *)
(* handlers of messages.c, the lookups wb_bot_dispatch_message and /msg    *)
(* make, and /privchat.                                                    *)
(*                                                                         *)
(* The bot keeps, for every chat it is on, the users in order of arrival   *)
(* (users_array) and by id (users_dictionary), and nothing but the         *)
(* messages of the session to keep them in step with the server.  It       *)
(* recognises and answers a user through the public chat alone, and finds  *)
(* the receiver of a private answer by nick.                               *)
(*                                                                         *)
(* The server is external: it reports joins, leaves and changes to the     *)
(* members of a chat in the order they happen.                             *)
(***************************************************************************)
EXTENDS Naturals, SequencesExt

CONSTANTS
  Users,        \* ids of the other users
  Self,         \* wb_user_id
  NoUser,       \* 0, no user to invite
  Chats,
  Public,       \* WR_PUBLIC_CID
  Nicks,
  SelfNick,
  UniqueNicks,  \* the server refuses a nick that is in use
  PrivateFirst, \* a user leaves its private chats before the public one
  Kicks,        \* users, the bot among them, may be kicked from a chat
  Orderly,      \* one /privchat at a time, and the server grants it
  MaxEvents,    \* bound: what users do, on the server or by a command
  MaxLosses     \* bound: connection losses

Uids == Users \cup {Self}

ASSUME UsersAssumption  == /\ Self \notin Users
                           /\ NoUser \notin Uids
                           /\ IsFiniteSet(Users)
ASSUME ChatsAssumption  == Public \in Chats
ASSUME NicksAssumption  == SelfNick \notin Nicks
ASSUME SwitchAssumption == {UniqueNicks, PrivateFirst, Kicks, Orderly} \subseteq BOOLEAN

VARIABLES
  (* The server. *)
  members,      \* the users on each chat
  nick,         \* the nick of each user
  created,      \* the chats that exist
  (* The channels of the session. *)
  toServer,
  toBot,
  (* The bot. *)
  link,         \* "offline", "online" or "crashed"
  fault,        \* what a crash dereferenced: "none", "chat", "user" or "window"
  chats,        \* the keys of wr_chats
  array,        \* users_array of each chat
  dict,         \* users_dictionary of each chat: the ids with an object
  nickOf,       \* the nick of each object on the public chat
  inviteUid,    \* wr_private_chat_invite_uid
  (* Bounds and history. *)
  events,
  losses,
  answers,      \* private answers given: from whom, to whom
  wanted,       \* whom the /privchat that led to each chat named
  invites       \* invitations sent: chat and user

serverVars == <<members, nick, created>>
roster     == <<chats, array, dict, nickOf>>
bot        == <<link, fault, roster, inviteUid>>
history    == <<answers, wanted, invites>>
vars       == <<serverVars, toServer, toBot, bot, events, losses, history>>

Request == [op : {"join_chat", "create_chat", "invite_user", "send_message"},
            chat : Chats, user : Uids \cup {NoUser}]
Types   == {"user_list", "user_join", "user_leave", "user_status", "chat_say",
            "user_kick", "message", "broadcast", "chat_created", "invitation"}
Message == [type : Types, chat : Chats, user : Uids, nick : Nicks \cup {SelfNick}]

TypeOK ==
  /\ members \in [Chats -> SUBSET Uids]
  /\ nick \in [Uids -> Nicks \cup {SelfNick}]
  /\ created \in SUBSET Chats
  /\ toServer \in Seq(Request)
  /\ toBot \in Seq(Message)
  /\ link \in {"offline", "online", "crashed"}
  /\ fault \in {"none", "chat", "user", "window"}
  /\ chats \in SUBSET Chats
  /\ array \in [Chats -> Seq(Uids)]
  /\ dict \in [Chats -> SUBSET Uids]
  /\ nickOf \in [Uids -> Nicks \cup {SelfNick}]
  /\ inviteUid \in Uids \cup {NoUser}
  /\ events \in Nat
  /\ losses \in Nat
  /\ answers \in SUBSET (Uids \X Uids)
  /\ wanted \in [Chats -> Uids \cup {NoUser}]
  /\ invites \in SUBSET (Chats \X Uids)

NickFree(u, n) == UniqueNicks => \A v \in members[Public] \ {u} : nick[v] # n

Empty == [c \in Chats |-> {}]
NoArrays == [c \in Chats |-> <<>>]

Init ==
  /\ nick \in {f \in [Uids -> Nicks \cup {SelfNick}] :
                 \A u \in Uids : f[u] = SelfNick <=> u = Self}
  /\ members \in {[Empty EXCEPT ![Public] = s] : s \in SUBSET Users}
  /\ \A u \in members[Public] : NickFree(u, nick[u])
  /\ created = {Public}
  /\ toServer = <<>>
  /\ toBot = <<>>
  /\ link = "offline"
  /\ fault = "none"
  /\ chats = {Public}
  /\ array = NoArrays
  /\ dict = Empty
  /\ nickOf = nick
  /\ inviteUid = NoUser
  /\ events = 0
  /\ losses = 0
  /\ answers = {}
  /\ wanted = [c \in Chats |-> NoUser]
  /\ invites = {}

-----------------------------------------------------------------------------
(* What the other users do (external).                                     *)

Event == events < MaxEvents /\ events' = events + 1

(* A /privchat is under way. *)
Creating == \/ \E i \in DOMAIN toServer : toServer[i].op = "create_chat"
            \/ \E i \in DOMAIN toBot : toBot[i].type = "chat_created"

Sent(type, c, u) ==
  Append(toBot, [type |-> type, chat |-> c, user |-> u, nick |-> nick'[u]])

Tell(type, c, u) ==
  toBot' = IF Self \in members[c] THEN Sent(type, c, u) ELSE toBot

Join(c, u, n) ==
  /\ Event
  /\ c \in created
  /\ u \notin members[c]
  /\ IF c = Public
       THEN (\A d \in Chats : u \notin members[d]) /\ NickFree(u, n)
       ELSE u \in members[Public] /\ n = nick[u]
  /\ members' = [members EXCEPT ![c] = @ \cup {u}]
  /\ nick' = [nick EXCEPT ![u] = n]
  /\ Tell("user_join", c, u)
  /\ UNCHANGED <<created, toServer, bot, losses, history>>

Leave(c, u) ==
  /\ Event
  /\ u \in members[c]
  /\ PrivateFirst /\ c = Public => \A d \in Chats \ {Public} : u \notin members[d]
  /\ members' = [members EXCEPT ![c] = @ \ {u}]
  /\ UNCHANGED nick
  /\ Tell("user_leave", c, u)
  /\ UNCHANGED <<created, toServer, bot, losses, history>>

(* wired.chat.kick_user by a user who is not modelled: the whole chat, the  *)
(* kicked user included, is told with user_kick, and the kicked user stays  *)
(* logged in.                                                               *)
Kick(c, u) ==
  /\ Kicks
  /\ Event
  /\ u \in members[c]
  /\ members' = [members EXCEPT ![c] = @ \ {u}]
  /\ UNCHANGED nick
  /\ Tell("user_kick", c, u)
  /\ UNCHANGED <<created, toServer, bot, losses, history>>

Rename(u, n) ==
  /\ Event
  /\ u \in members[Public]
  /\ n # nick[u] /\ NickFree(u, n)
  /\ nick' = [nick EXCEPT ![u] = n]
  /\ Tell("user_status", Public, u)
  /\ UNCHANGED <<members, created, toServer, bot, losses, history>>

Say(c, u) ==
  /\ Event
  /\ u \in members[c]
  /\ PrivateFirst => u \in members[Public]
  /\ UNCHANGED nick
  /\ Tell("chat_say", c, u)
  /\ UNCHANGED <<members, created, toServer, bot, losses, history>>

(* A private message or a broadcast reaches the session, not a chat, and    *)
(* its sender need not be on one.                                           *)
Write(type, u) ==
  /\ Event
  /\ link = "online"
  /\ UNCHANGED nick
  /\ toBot' = Sent(type, Public, u)
  /\ UNCHANGED <<members, created, toServer, bot, losses, history>>

OpenChat(c, u) ==
  /\ Event
  /\ c \notin created
  /\ Orderly => ~Creating
  /\ u \in members[Public]
  /\ created' = created \cup {c}
  /\ members' = [members EXCEPT ![c] = {u}]
  /\ UNCHANGED <<nick, toServer, toBot, bot, losses, history>>

Invite(c, u) ==
  /\ Event
  /\ c # Public
  /\ u \in members[c] \cap members[Public]
  /\ Self \notin members[c]
  /\ link = "online"
  /\ UNCHANGED nick
  /\ toBot' = Sent("invitation", c, u)
  /\ UNCHANGED <<members, created, toServer, bot, losses, history>>

-----------------------------------------------------------------------------
(* How the server answers the bot (external).                              *)

Takes(op) ==
  /\ toServer # <<>>
  /\ Head(toServer).op = op
  /\ toServer' = Tail(toServer)

ServeJoin ==
  /\ Takes("join_chat")
  /\ LET c == Head(toServer).chat IN
       IF Self \in members[c]
         THEN UNCHANGED <<members, toBot>>
         ELSE /\ members' = [members EXCEPT ![c] = @ \cup {Self}]
              /\ \E s \in SetToSeqs(members'[c]) :
                   toBot' = toBot \o
                     [i \in DOMAIN s |-> [type |-> "user_list", chat |-> c,
                                          user |-> s[i], nick |-> nick[s[i]]]]
  /\ UNCHANGED <<nick, created, bot, events, losses, history>>

ServeCreate(c) ==
  /\ Takes("create_chat")
  /\ c \notin created
  /\ created' = created \cup {c}
  /\ wanted' = [wanted EXCEPT ![c] = Head(toServer).user]
  /\ UNCHANGED nick
  /\ toBot' = Sent("chat_created", c, Self)
  /\ UNCHANGED <<members, bot, events, losses, answers, invites>>

RefuseCreate ==
  /\ ~Orderly \/ created = Chats
  /\ Takes("create_chat")
  /\ UNCHANGED <<serverVars, toBot, bot, events, losses, history>>

ServeOther ==
  /\ Takes("invite_user") \/ Takes("send_message")
  /\ UNCHANGED <<serverVars, toBot, bot, events, losses, history>>

-----------------------------------------------------------------------------
(* The bot.                                                                *)

Receives(type) ==
  /\ link = "online"
  /\ toBot # <<>>
  /\ Head(toBot).type = type
  /\ toBot' = Tail(toBot)

Crash(what) ==
  /\ link' = "crashed"
  /\ fault' = what
  /\ UNCHANGED <<roster, inviteUid, toServer, history>>

(* Slips the properties are tried on: the user is entered in one container  *)
(* or leaves one container only.                                            *)
AddUserArrayOnly(c, u, n) ==
  /\ array' = [array EXCEPT ![c] = Append(@, u)]
  /\ nickOf' = IF c = Public THEN [nickOf EXCEPT ![u] = n] ELSE nickOf
  /\ UNCHANGED dict

(* wr_chat_add_user, as new values of array, dict and nickOf. *)
AddUser(c, u, n) ==
  /\ array' = [array EXCEPT ![c] = Append(@, u)]
  /\ dict' = [dict EXCEPT ![c] = @ \cup {u}]
  /\ nickOf' = IF c = Public THEN [nickOf EXCEPT ![u] = n] ELSE nickOf

RemoveUserArrayOnly(c, u) ==
  array' = [array EXCEPT ![c] = RemoveFirst(@, u)] /\ UNCHANGED <<dict, nickOf>>

RemoveUserDictOnly(c, u) ==
  dict' = [dict EXCEPT ![c] = @ \ {u}] /\ UNCHANGED <<array, nickOf>>

(* wr_chat_remove_user: the first object that is equal, and the key. *)
RemoveUser(c, u) ==
  /\ array' = [array EXCEPT ![c] = RemoveFirst(@, u)]
  /\ dict' = [dict EXCEPT ![c] = @ \ {u}]
  /\ UNCHANGED nickOf

(* wr_chat_user_with_nick over a users_array and the nicks of its objects. *)
WithNick(s, nicks, n) == s[SelectInSeq(s, LAMBDA u : nicks[u] = n)]

(* wb_bot_dispatch_message from a user the bot knows as u on the public    *)
(* chat s: its own messages are ignored, another's may be answered, and an *)
(* answer may be a private one, sent to the first user with u's nick.      *)
Dispatch(u, s, nicks) ==
  \/ UNCHANGED <<toServer, answers>>
  \/ /\ u # Self
     /\ LET r == WithNick(s, nicks, nicks[u]) IN
          /\ toServer' = Append(toServer,
                           [op |-> "send_message", chat |-> Public, user |-> r])
          /\ answers' = answers \cup {<<u, r>>}

UserList ==
  /\ Receives("user_list")
  /\ LET m == Head(toBot) IN
       \/ m.chat \notin chats /\ Crash("chat")
       \/ /\ m.chat \in chats
          /\ AddUser(m.chat, m.user, m.nick)
          /\ UNCHANGED <<link, fault, chats, inviteUid, toServer, history>>
  /\ UNCHANGED <<serverVars, events, losses>>

UserJoin ==
  /\ Receives("user_join")
  /\ LET m == Head(toBot) IN
       \/ m.chat \notin chats /\ Crash("chat")
       \/ /\ m.chat \in chats
          /\ AddUser(m.chat, m.user, m.nick)
          /\ \/ /\ m.user \in dict'[Public]
                /\ Dispatch(m.user, array'[Public], nickOf')
                /\ UNCHANGED <<link, fault>>
             \/ /\ m.user \notin dict'[Public]
                /\ link' = "crashed" /\ fault' = "user"
                /\ UNCHANGED <<toServer, answers>>
          /\ UNCHANGED <<chats, inviteUid, wanted, invites>>
  /\ UNCHANGED <<serverVars, events, losses>>

UserLeave ==
  /\ Receives("user_leave")
  /\ LET m == Head(toBot) IN
       \/ m.chat \notin chats /\ Crash("chat")
       \/ /\ m.chat \in chats /\ m.user \notin dict[m.chat]
          /\ UNCHANGED <<bot, toServer, history>>
       \/ /\ m.chat \in chats /\ m.user \in dict[m.chat]
          /\ m.user \notin dict[Public]
          /\ Crash("user")
       \/ /\ m.chat \in chats /\ m.user \in dict[m.chat] \cap dict[Public]
          /\ Dispatch(m.user, array[Public], nickOf)
          /\ RemoveUser(m.chat, m.user)
          /\ UNCHANGED <<link, fault, chats, inviteUid, wanted, invites>>
  /\ UNCHANGED <<serverVars, events, losses>>

(* wr_message_chat_say; wr_message_chat_me is the same. *)
ChatSay ==
  /\ Receives("chat_say")
  /\ LET m == Head(toBot) IN
       \/ m.chat \notin chats /\ Crash("chat")
       \/ /\ m.chat \in chats /\ m.user \notin dict[m.chat]
          /\ UNCHANGED <<bot, toServer, history>>
       \/ /\ m.chat \in chats /\ m.user \in dict[m.chat] \ dict[Public]
          /\ Crash("user")
       \/ /\ m.chat \in chats /\ m.user \in dict[m.chat] \cap dict[Public]
          /\ Dispatch(m.user, array[Public], nickOf)
          /\ UNCHANGED <<bot, wanted, invites>>
  /\ UNCHANGED <<serverVars, events, losses>>

(* wr_message_message_message and wr_message_message_broadcast. *)
PrivateMessage ==
  /\ Receives("message") \/ Receives("broadcast")
  /\ LET u == Head(toBot).user IN
       \/ u \notin dict[Public] /\ UNCHANGED <<toServer, answers>>
       \/ u \in dict[Public] /\ Dispatch(u, array[Public], nickOf)
  /\ UNCHANGED <<serverVars, bot, events, losses, wanted, invites>>

\* A slip: the new nick is not stored.
UserStatusIgnored ==
  /\ Receives("user_status")
  /\ UNCHANGED <<serverVars, bot, toServer, events, losses, history>>

UserStatus ==
  /\ Receives("user_status")
  /\ LET m == Head(toBot) IN
       nickOf' = IF m.user \in dict[Public] THEN [nickOf EXCEPT ![m.user] = m.nick]
                                            ELSE nickOf
  /\ UNCHANGED <<serverVars, link, fault, chats, array, dict, inviteUid, toServer,
                 events, losses, history>>

\* A slip: the new chat is not entered under its id.
AddChatUnkeyed(c) ==
  /\ UNCHANGED chats
  /\ array' = [array EXCEPT ![c] = <<>>]
  /\ dict' = [dict EXCEPT ![c] = {}]

(* wr_messages_handle_message of a message that has no handler. *)
Unhandled ==
  /\ Receives("user_kick")
  /\ UNCHANGED <<serverVars, bot, toServer, events, losses, history>>

(* wr_chats_add_chat: a new object without users, under the key c. *)
AddChat(c) ==
  /\ chats' = chats \cup {c}
  /\ array' = [array EXCEPT ![c] = <<>>]
  /\ dict' = [dict EXCEPT ![c] = {}]

\* A slip: the guard on wr_private_chat_invite_uid is missing.
ChatCreatedUnguarded ==
  /\ Receives("chat_created")
  /\ LET c == Head(toBot).chat IN
       /\ AddChat(c)
       /\ toServer' = toServer \o
             <<[op |-> "join_chat", chat |-> c, user |-> Self],
               [op |-> "invite_user", chat |-> c, user |-> inviteUid]>>
       /\ invites' = invites \cup {<<c, inviteUid>>}
       /\ inviteUid' = NoUser
  /\ UNCHANGED <<serverVars, link, fault, nickOf, events, losses, answers, wanted>>

ChatCreated ==
  /\ Receives("chat_created")
  /\ LET c    == Head(toBot).chat
         join == [op |-> "join_chat", chat |-> c, user |-> Self]
     IN /\ AddChat(c)
        /\ IF inviteUid = NoUser
             THEN /\ toServer' = Append(toServer, join)
                  /\ UNCHANGED invites
             ELSE /\ toServer' = toServer \o
                       <<join, [op |-> "invite_user", chat |-> c, user |-> inviteUid]>>
                  /\ invites' = invites \cup {<<c, inviteUid>>}
        /\ inviteUid' = NoUser
  /\ UNCHANGED <<serverVars, link, fault, nickOf, events, losses, answers, wanted>>

Invitation ==
  /\ Receives("invitation")
  /\ LET m == Head(toBot) IN
       \/ m.user \notin dict[Public] /\ UNCHANGED <<roster, toServer>>
       \/ /\ m.user \in dict[Public]
          /\ AddChat(m.chat)
          /\ UNCHANGED nickOf
          /\ toServer' = Append(toServer,
                           [op |-> "join_chat", chat |-> m.chat, user |-> Self])
  /\ UNCHANGED <<serverVars, link, fault, inviteUid, events, losses, history>>

(* /privchat with the nick of a user of the public chat, or with none. *)
PrivChat(u) ==
  /\ Event
  /\ link = "online"
  /\ Orderly => ~Creating /\ created # Chats
  /\ inviteUid' = IF u = NoUser THEN inviteUid ELSE u
  /\ toServer' = Append(toServer, [op |-> "create_chat", chat |-> Public, user |-> u])
  /\ UNCHANGED <<serverVars, toBot, link, fault, roster, losses, history>>

(* /privchat with a nick that no user has: the complaint is printed to     *)
(* wr_current_window, and a bot without a terminal has no window.          *)
PrivChatUnknown ==
  /\ Event
  /\ link = "online"
  /\ \E n \in Nicks : \A u \in dict[Public] : nickOf[u] # n
  /\ Crash("window")
  /\ UNCHANGED <<serverVars, toBot, losses>>

Connect ==
  /\ link = "offline"
  /\ link' = "online"
  /\ toServer' = <<[op |-> "join_chat", chat |-> Public, user |-> Self]>>
  /\ UNCHANGED <<serverVars, toBot, fault, roster, inviteUid, events, losses, history>>

\* A slip: the user to invite survives the session.
ClearKeepsInvite ==
  chats' = {Public} /\ array' = NoArrays /\ dict' = Empty /\ UNCHANGED inviteUid

(* wr_chats_clear. *)
Clear ==
  /\ chats' = {Public}
  /\ array' = NoArrays
  /\ dict' = Empty
  /\ inviteUid' = NoUser

(* The session ends: the server drops the user, wr_chats_clear the roster. *)
LoseConnection ==
  /\ link = "online"
  /\ losses < MaxLosses
  /\ losses' = losses + 1
  /\ link' = "offline"
  /\ members' = [c \in Chats |-> members[c] \ {Self}]
  /\ toServer' = <<>>
  /\ toBot' = <<>>
  /\ Clear
  /\ UNCHANGED <<nick, created, fault, nickOf, events, history>>

-----------------------------------------------------------------------------
Serve == \/ ServeJoin
         \/ \E c \in Chats : ServeCreate(c)
         \/ RefuseCreate
         \/ ServeOther

Handle == \/ UserList
          \/ UserJoin
          \/ UserLeave
          \/ ChatSay
          \/ PrivateMessage
          \/ UserStatus
          \/ Unhandled
          \/ ChatCreated
          \/ Invitation

KickOne == \E c \in Chats, u \in Uids : Kick(c, u)

Act == \E u \in Users :
         \/ \E c \in Chats :
              \/ \E n \in Nicks : Join(c, u, n)
              \/ Leave(c, u)
              \/ Say(c, u)
              \/ OpenChat(c, u)
              \/ Invite(c, u)
         \/ \E n \in Nicks : Rename(u, n)
         \/ \E type \in {"message", "broadcast"} : Write(type, u)

Next == \/ Act
        \/ KickOne
        \/ Serve
        \/ Handle
        \/ \E u \in dict[Public] \cup {NoUser} : PrivChat(u)
        \/ PrivChatUnknown
        \/ Connect
        \/ LoseConnection

Spec == Init /\ [][Next]_vars

FairSpec == Spec /\ WF_vars(Serve) /\ WF_vars(Handle)

-----------------------------------------------------------------------------
(* Properties. *)

Quiet == link = "online" /\ toServer = <<>> /\ toBot = <<>>


(* When nothing is in flight the bot knows exactly the users the server has *)
(* on the public chat and on every private chat it was taken to, and the    *)
(* nick each of them has now (users_dictionary, user_status).               *)
QuietAgrees ==
  Quiet => /\ \A c \in chats : Self \in members[c] /\ dict[c] = members[c]
           /\ \A u \in dict[Public] : nickOf[u] = nick[u]

(* The two containers of a chat hold the same users and no user twice,      *)
(* so that no ghost of a user who left can be found by its nick.            *)
ContainersAgree ==
  \A c \in Chats : /\ ToSet(array[c]) = dict[c]
                   /\ Len(array[c]) = Cardinality(dict[c])

(* Every message about a chat finds it in wr_chats: the handlers of         *)
(* messages.c use the chat they look up without a test.                     *)
ChatAlwaysFound == fault # "chat"

(* Every message that is dispatched comes from a user of the public chat:   *)
(* wb_bot_dispatch_message uses the user it looks up there without a test.  *)
SenderAlwaysFound == fault # "user"

(* A private answer goes to the user who caused it, though /msg finds the   *)
(* receiver by nick and nicks change while messages are under way.          *)
AnswerReachesSender == \A a \in answers : a[1] = a[2]

(* A private chat made by /privchat invites the user named there, no other. *)
InvitesNamedUser == \A i \in invites : i[2] = wanted[i[1]]

(* A user on the public chat is eventually known to the bot, unless either  *)
(* of them leaves it, or is kicked from it, or the session ends.            *)
MembersBecomeKnown ==
  \A u \in Users :
    (link = "online" /\ {u, Self} \subseteq members[Public])
      ~> \/ u \in dict[Public]
         \/ ~({u, Self} \subseteq members[Public])
         \/ link # "online"
=============================================================================
