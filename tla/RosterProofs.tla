---------------------------- MODULE RosterProofs ----------------------------
(* Proofs about Roster, for any users, chats and nicks, and any number of   *)
(* events and losses.  Two invariants need no assumption on the server:     *)
(* what the bot knows of chats, and the types.  The others are invariants   *)
(* of the channel to the bot: what its messages do, undo and do again in    *)
(* the order they are read (SequenceFacts).                                 *)
EXTENDS Roster, SequenceFacts, SequenceTheorems, FiniteSetTheorems, TLAPS

(* The users of a chat, listed in some order. *)
LEMMA Listing ==
  ASSUME NEW S \in SUBSET Uids, NEW s \in SetToSeqs(S)
  PROVE  DOMAIN s = 1..Cardinality(S) /\ Cardinality(S) \in Nat
<1>1. IsFiniteSet(Uids)
  BY UsersAssumption, FS_AddElement DEF Uids
<1>2. Cardinality(S) \in Nat
  BY <1>1, FS_Subset, FS_CardinalityType
<1> QED
  BY <1>2 DEF SetToSeqs

-----------------------------------------------------------------------------
(* The chats the bot knows.  It asks to be let into chats it knows, is told  *)
(* only of those it is on, and forgets them when nothing is under way.       *)
AboutChat == {"user_list", "user_join", "user_leave", "chat_say"}

Known ==
  /\ Public \in chats /\ chats \subseteq Chats
  /\ \A c \in Chats : Self \in members[c] => c \in chats

Asked == \A i \in DOMAIN toServer : toServer[i].op = "join_chat" => toServer[i].chat \in chats

Heard == \A i \in DOMAIN toBot : /\ toBot[i].chat \in Chats
                                 /\ toBot[i].type \in AboutChat => toBot[i].chat \in chats

ChatInv ==
  /\ IsSeq(toServer) /\ IsSeq(toBot)
  /\ members \in [Chats -> SUBSET Uids]
  /\ Known /\ Asked /\ Heard
  /\ ChatAlwaysFound

(* Something about a chat the bot is on, or about no chat, is told.          *)
LEMMA Telling ==
  ASSUME ChatInv, NEW m, m.chat \in Chats, m.type \in AboutChat => m.chat \in chats,
         toBot' = Append(toBot, m), UNCHANGED chats
  PROVE  IsSeq(toBot)' /\ Heard'
BY Appending DEF ChatInv, Heard

LEMMA TellingChat ==
  ASSUME ChatInv, NEW type, NEW c \in Chats, NEW u, Tell(type, c, u), UNCHANGED chats
  PROVE  IsSeq(toBot)' /\ Heard'
<1> DEFINE m == [type |-> type, chat |-> c, user |-> u, nick |-> nick'[u]]
<1>1. CASE Self \in members[c]
  <2>1. toBot' = Append(toBot, m) /\ m.chat = c /\ c \in chats
    BY <1>1 DEF Tell, Sent, ChatInv, Known
  <2> QED
    BY <2>1, Telling
<1>2. CASE Self \notin members[c]
  BY <1>2 DEF Tell, ChatInv, Heard
<1> QED
  BY <1>1, <1>2

(* What the bot sends leaves what it knows alone. *)
LEMMA AskingOne ==
  ASSUME ChatInv, NEW r, r.op = "join_chat" => r.chat \in chats',
         toServer' = Append(toServer, r), chats \subseteq chats'
  PROVE  IsSeq(toServer)' /\ Asked'
BY Appending DEF ChatInv, Asked

LEMMA AskingTwo ==
  ASSUME ChatInv, NEW r, NEW q, r.op = "join_chat" => r.chat \in chats', q.op # "join_chat",
         toServer' = toServer \o <<r, q>>, chats \subseteq chats'
  PROVE  IsSeq(toServer)' /\ Asked'
<1>1. <<r, q>> \in Seq({r, q})
  OBVIOUS
<1>2. IsSeq(<<r, q>>)
  BY <1>1 DEF IsSeq
<1>3. \A i \in DOMAIN <<r, q>> : <<r, q>>[i] \in {r, q}
  OBVIOUS
<1> DEFINE pair == <<r, q>>
           both == toServer \o pair
<1>4. IsSeq(toServer) /\ Asked /\ toServer' = both
  BY DEF ChatInv
<1>5. IsSeq(pair) /\ \A i \in DOMAIN pair : pair[i] \in {r, q}
  BY <1>2, <1>3
<1> HIDE DEF pair
<1>6. IsSeq(both) /\ \A i \in DOMAIN both :
                       (i \in DOMAIN toServer /\ both[i] = toServer[i]) \/ both[i] \in {r, q}
  <2>1. /\ IsSeq(both)
        /\ \A i \in DOMAIN both :
              \/ i \in DOMAIN toServer /\ both[i] = toServer[i]
              \/ i - Len(toServer) \in DOMAIN pair /\ both[i] = pair[i - Len(toServer)]
    BY <1>4, <1>5, Joining
  <2> HIDE DEF both
  <2> QED
    BY <2>1, <1>5
<1> HIDE DEF both
<1>7. \A i \in DOMAIN both : both[i].op = "join_chat" => both[i].chat \in chats'
  BY <1>4, <1>6 DEF Asked
<1> QED
  BY <1>4, <1>6, <1>7 DEF Asked

LEMMA ActKeepsChats ==
  ASSUME ChatInv, Act \/ KickOne
  PROVE  ChatInv'
<1>1. UNCHANGED <<toServer, chats, fault>>
  BY DEF Act, KickOne, Join, Leave, Say, OpenChat, Invite, Rename, Write, Kick, bot, roster
<1>2. ASSUME NEW c \in Chats, NEW u \in Uids,
             \/ u # Self /\ members' = [members EXCEPT ![c] = @ \cup {u}]
             \/ members' = [members EXCEPT ![c] = @ \ {u}]
             \/ u # Self /\ members' = [members EXCEPT ![c] = {u}]
             \/ members' = members
      PROVE  members' \in [Chats -> SUBSET Uids] /\ Known'
  BY <1>1, <1>2 DEF ChatInv, Known
<1>3. ASSUME IsSeq(toBot)', Heard', members' \in [Chats -> SUBSET Uids], Known'
      PROVE  ChatInv'
  BY <1>1, <1>3 DEF ChatInv, Asked, ChatAlwaysFound
<1>4. ASSUME NEW c \in Chats, NEW u \in Users, NEW n, Join(c, u, n)
      PROVE  ChatInv'
  <2>1. u \in Uids /\ u # Self
    BY UsersAssumption DEF Uids
  <2>2. IsSeq(toBot)' /\ Heard'
    BY <1>1, <1>4, TellingChat DEF Join
  <2> QED
    BY <1>2, <1>3, <1>4, <2>1, <2>2 DEF Join
<1>5. ASSUME NEW c \in Chats, NEW u \in Uids, Leave(c, u) \/ Kick(c, u)
      PROVE  ChatInv'
  <2>1. IsSeq(toBot)' /\ Heard'
    BY <1>1, <1>5, TellingChat DEF Leave, Kick
  <2> QED
    BY <1>2, <1>3, <1>5, <2>1 DEF Leave, Kick
<1>6. ASSUME NEW c \in Chats, NEW u \in Users, Say(c, u)
      PROVE  ChatInv'
  <2>1. IsSeq(toBot)' /\ Heard'
    BY <1>1, <1>6, TellingChat DEF Say
  <2> QED
    BY <1>2, <1>3, <1>6, <2>1 DEF Say, Uids
<1>7. ASSUME NEW u \in Users, NEW n, Rename(u, n)
      PROVE  ChatInv'
  <2>1. IsSeq(toBot)' /\ Heard'
    BY <1>1, <1>7, TellingChat, ChatsAssumption DEF Rename
  <2> QED
    BY <1>2, <1>3, <1>7, <2>1, ChatsAssumption DEF Rename, Uids
<1>8. ASSUME NEW c \in Chats, NEW u \in Users, OpenChat(c, u)
      PROVE  ChatInv'
  <2>1. u \in Uids /\ u # Self
    BY UsersAssumption DEF Uids
  <2>2. IsSeq(toBot)' /\ Heard'
    BY <1>1, <1>8 DEF OpenChat, ChatInv, Heard
  <2> QED
    BY <1>2, <1>3, <1>8, <2>1, <2>2 DEF OpenChat
<1>9. ASSUME NEW c \in Chats, NEW u \in Users, NEW type \in {"message", "broadcast"},
             Invite(c, u) \/ Write(type, u)
      PROVE  ChatInv'
  <2>1. PICK m : /\ toBot' = Append(toBot, m)
                 /\ m.chat \in Chats /\ m.type \notin AboutChat
    BY <1>9, ChatsAssumption DEF Invite, Write, Sent, AboutChat
  <2>2. IsSeq(toBot)' /\ Heard'
    BY <1>1, <2>1, Telling
  <2> QED
    BY <1>2, <1>3, <1>9, <2>2 DEF Invite, Write, Uids
<1> QED
  BY <1>4, <1>5, <1>6, <1>7, <1>8, <1>9, ChatsAssumption DEF Act, KickOne, Uids

LEMMA ServeKeepsChats ==
  ASSUME ChatInv, Serve
  PROVE  ChatInv'
<1>1. UNCHANGED <<chats, fault>>
  BY DEF Serve, ServeJoin, ServeCreate, RefuseCreate, ServeOther, bot, roster
<1>2. toServer # <<>> /\ toServer' = Tail(toServer)
  BY DEF Serve, ServeJoin, ServeCreate, RefuseCreate, ServeOther, Takes
<1>3. IsSeq(toServer)' /\ Asked'
  BY <1>1, <1>2, Taking DEF ChatInv, Asked
<1>4. CASE ServeJoin
  <2> DEFINE c == Head(toServer).chat
  <2>1. c \in chats /\ c \in Chats
    BY <1>2, <1>4, Taking DEF ServeJoin, Takes, ChatInv, Asked, Known
  <2>2. CASE Self \in members[c]
    BY <1>1, <1>3, <1>4, <2>2 DEF ServeJoin, ChatInv, Known, Heard, ChatAlwaysFound
  <2>3. CASE Self \notin members[c]
    <3>1. members' = [members EXCEPT ![c] = @ \cup {Self}]
      BY <1>4, <2>3 DEF ServeJoin
    <3>2. members' \in [Chats -> SUBSET Uids] /\ Known'
      BY <1>1, <2>1, <3>1 DEF ChatInv, Known, Uids
    <3>3. PICK s \in SetToSeqs(members'[c]) :
            toBot' = toBot \o [i \in DOMAIN s |-> [type |-> "user_list", chat |-> c,
                                                   user |-> s[i], nick |-> nick[s[i]]]]
      BY <1>4, <2>3 DEF ServeJoin
    <3> DEFINE list == [i \in DOMAIN s |-> [type |-> "user_list", chat |-> c,
                                            user |-> s[i], nick |-> nick[s[i]]]]
    <3>4. IsSeq(list)
      <4>1. members'[c] \in SUBSET Uids
        BY <2>1, <3>2
      <4>2. DOMAIN s = 1..Cardinality(members'[c]) /\ Cardinality(members'[c]) \in Nat
        BY <3>3, <4>1, Listing
      <4>3. list \in Seq({list[i] : i \in DOMAIN s})
        BY <4>2
      <4> QED
        BY <4>3 DEF IsSeq
    <3>5. \A i \in DOMAIN list : list[i].type = "user_list" /\ list[i].chat = c
      OBVIOUS
    <3> HIDE DEF list
    <3>6. IsSeq(toBot)' /\ Heard'
      BY <1>1, <2>1, <3>3, <3>4, <3>5, Joining DEF ChatInv, Heard, AboutChat, list
    <3> QED
      BY <1>1, <1>3, <3>2, <3>6 DEF ChatInv, ChatAlwaysFound
  <2> QED
    BY <2>2, <2>3
<1>5. ASSUME NEW c \in Chats, ServeCreate(c)
      PROVE  ChatInv'
  <2>1. PICK m : /\ toBot' = Append(toBot, m)
                 /\ m.chat \in Chats /\ m.type \notin AboutChat
    BY <1>5 DEF ServeCreate, Sent, AboutChat
  <2>2. IsSeq(toBot)' /\ Heard'
    BY <1>1, <2>1, Telling
  <2> QED
    BY <1>1, <1>3, <1>5, <2>2 DEF ServeCreate, ChatInv, Known, ChatAlwaysFound
<1>6. CASE RefuseCreate \/ ServeOther
  BY <1>1, <1>3, <1>6 DEF RefuseCreate, ServeOther,
        serverVars, ChatInv, Known, Heard, ChatAlwaysFound
<1> QED
  BY <1>4, <1>5, <1>6 DEF Serve

(* A user enters a roster or leaves it, which changes neither chats nor what *)
(* the bot is told.                                                          *)
LEMMA ReadingKeepsChats ==
  ASSUME ChatInv, toBot # <<>>, toBot' = Tail(toBot),
         Public \in chats', chats' \subseteq Chats, chats \subseteq chats',
         IsSeq(toServer)', Asked', UNCHANGED <<serverVars>>, fault' # "chat"
  PROVE  ChatInv'
<1>1. IsSeq(toBot)' /\ Heard'
  BY Taking DEF ChatInv, Heard
<1> QED
  BY <1>1 DEF ChatInv, Known, serverVars, ChatAlwaysFound

LEMMA HeadIsKnown ==
  ASSUME ChatInv, toBot # <<>>
  PROVE  /\ Head(toBot).chat \in Chats
         /\ Head(toBot).type \in AboutChat => Head(toBot).chat \in chats
BY Taking DEF ChatInv, Heard

LEMMA HandleKeepsChats ==
  ASSUME ChatInv, Handle
  PROVE  ChatInv'
<1>1. toBot # <<>> /\ toBot' = Tail(toBot) /\ UNCHANGED serverVars
  BY DEF Handle, UserList, UserJoin, UserLeave, ChatSay, PrivateMessage, UserStatus, Unhandled,
         ChatCreated, Invitation, Receives
<1>2. Public \in chats /\ chats \subseteq Chats /\ IsSeq(toServer) /\ Asked /\ fault # "chat"
  BY DEF ChatInv, Known, ChatAlwaysFound
<1>3. ASSUME UNCHANGED <<chats, toServer>>, fault' # "chat"
      PROVE  ChatInv'
  BY <1>1, <1>2, <1>3, ReadingKeepsChats DEF Asked
<1>4. ASSUME NEW u, NEW s, NEW nicks, Dispatch(u, s, nicks), UNCHANGED chats, fault' # "chat"
      PROVE  ChatInv'
  <2>1. CASE UNCHANGED toServer
    BY <1>3, <1>4, <2>1
  <2>2. CASE toServer' # toServer
    <3>1. PICK r : toServer' = Append(toServer, r) /\ r.op # "join_chat"
      BY <1>4, <2>2 DEF Dispatch
    <3>2. IsSeq(toServer)' /\ Asked'
      BY <1>4, <3>1, AskingOne
    <3> QED
      BY <1>1, <1>2, <1>4, <3>2, ReadingKeepsChats
  <2> QED
    BY <2>1, <2>2
<1>6. CASE UserList
  <2>1. Head(toBot).chat \in chats
    BY <1>1, <1>6, HeadIsKnown DEF UserList, Receives, AboutChat
  <2> QED
    BY <1>2, <1>3, <1>6, <2>1 DEF UserList
<1>7. CASE UserJoin
  <2>1. Head(toBot).chat \in chats
    BY <1>1, <1>7, HeadIsKnown DEF UserJoin, Receives, AboutChat
  <2>2. UNCHANGED chats /\ fault' # "chat"
    BY <1>2, <1>7, <2>1 DEF UserJoin
  <2>3. CASE UNCHANGED toServer
    BY <1>3, <2>2, <2>3
  <2>4. CASE toServer' # toServer
    <3>1. Dispatch(Head(toBot).user, array'[Public], nickOf')
      BY <1>7, <2>1, <2>4 DEF UserJoin
    <3> QED
      BY <1>4, <2>2, <3>1
  <2> QED
    BY <2>3, <2>4
<1>8. CASE UserLeave
  <2>1. Head(toBot).chat \in chats
    BY <1>1, <1>8, HeadIsKnown DEF UserLeave, Receives, AboutChat
  <2>2. UNCHANGED chats /\ fault' # "chat"
    BY <1>2, <1>8, <2>1 DEF UserLeave, Crash, bot, roster
  <2>3. CASE UNCHANGED toServer
    BY <1>3, <2>2, <2>3
  <2>4. CASE toServer' # toServer
    <3>1. Dispatch(Head(toBot).user, array[Public], nickOf)
      BY <1>8, <2>1, <2>4 DEF UserLeave, Crash
    <3> QED
      BY <1>4, <2>2, <3>1
  <2> QED
    BY <2>3, <2>4
<1>9. CASE ChatSay
  <2>1. Head(toBot).chat \in chats
    BY <1>1, <1>9, HeadIsKnown DEF ChatSay, Receives, AboutChat
  <2>2. UNCHANGED chats /\ fault' # "chat"
    BY <1>2, <1>9, <2>1 DEF ChatSay, Crash, bot, roster
  <2>3. CASE UNCHANGED toServer
    BY <1>3, <2>2, <2>3
  <2>4. CASE toServer' # toServer
    <3>1. Dispatch(Head(toBot).user, array[Public], nickOf)
      BY <1>9, <2>1, <2>4 DEF ChatSay, Crash
    <3> QED
      BY <1>4, <2>2, <3>1
  <2> QED
    BY <2>3, <2>4
<1>10. CASE PrivateMessage
  <2>1. UNCHANGED chats /\ fault' # "chat"
    BY <1>2, <1>10 DEF PrivateMessage, bot, roster
  <2>2. UNCHANGED toServer \/ Dispatch(Head(toBot).user, array[Public], nickOf)
    BY <1>10 DEF PrivateMessage
  <2> QED
    BY <1>3, <1>4, <2>1, <2>2
<1>11. CASE UserStatus \/ Unhandled
  BY <1>2, <1>3, <1>11 DEF UserStatus, Unhandled, bot, roster
<1>12. CASE ChatCreated
  <2> DEFINE c == Head(toBot).chat
             join == [op |-> "join_chat", chat |-> c, user |-> Self]
             invite == [op |-> "invite_user", chat |-> c, user |-> inviteUid]
  <2>1. chats' = chats \cup {c} /\ c \in Chats /\ UNCHANGED fault
    BY <1>1, <1>12, HeadIsKnown DEF ChatCreated, AddChat
  <2>2. \/ toServer' = Append(toServer, join)
        \/ toServer' = toServer \o <<join, invite>>
    BY <1>12 DEF ChatCreated
  <2>3. join.op = "join_chat" /\ join.chat = c /\ invite.op # "join_chat"
    OBVIOUS
  <2> HIDE DEF join, invite
  <2>4. IsSeq(toServer)' /\ Asked'
    BY <2>1, <2>2, <2>3, AskingOne, AskingTwo
  <2> QED
    BY <1>1, <1>2, <2>1, <2>4, ReadingKeepsChats
<1>13. CASE Invitation
  <2> DEFINE m == Head(toBot)
  <2>1. m.chat \in Chats /\ UNCHANGED fault
    BY <1>1, <1>13, HeadIsKnown DEF Invitation
  <2>2. CASE UNCHANGED <<roster, toServer>>
    BY <1>2, <1>3, <2>1, <2>2 DEF roster
  <2>3. CASE /\ AddChat(m.chat)
             /\ toServer' = Append(toServer, [op |-> "join_chat", chat |-> m.chat, user |-> Self])
    <3>1. chats' = chats \cup {m.chat}
      BY <2>3 DEF AddChat
    <3>2. IsSeq(toServer)' /\ Asked'
      BY <2>3, <3>1, AskingOne
    <3> QED
      BY <1>1, <1>2, <2>1, <3>1, <3>2, ReadingKeepsChats
  <2> QED
    BY <1>13, <2>2, <2>3 DEF Invitation
<1> QED
  BY <1>6, <1>7, <1>8, <1>9, <1>10, <1>11, <1>12, <1>13 DEF Handle

LEMMA ChatKept ==
  ASSUME ChatInv, [Next]_vars
  PROVE  ChatInv'
<1>1. ASSUME NEW u, PrivChat(u)
      PROVE  ChatInv'
  <2>1. PICK r : toServer' = Append(toServer, r) /\ r.op # "join_chat"
    BY <1>1 DEF PrivChat
  <2>2. IsSeq(toServer)' /\ Asked'
    BY <1>1, <2>1, AskingOne DEF PrivChat, roster
  <2> QED
    BY <1>1, <2>2 DEF PrivChat, roster, serverVars, ChatInv, Known, Heard, ChatAlwaysFound
<1>2. CASE PrivChatUnknown
  BY <1>2 DEF PrivChatUnknown, Crash, roster, serverVars, ChatInv,
        Known, Asked, Heard, ChatAlwaysFound
<1>3. CASE Connect
  <2> DEFINE join == [op |-> "join_chat", chat |-> Public, user |-> Self]
  <2>1. toServer' = <<join>> /\ join.chat = Public /\ UNCHANGED chats
    BY <1>3 DEF Connect, roster
  <2> HIDE DEF join
  <2>2. <<join>> \in Seq({join}) /\ \A i \in DOMAIN <<join>> : <<join>>[i] = join
    OBVIOUS
  <2>3. IsSeq(toServer)' /\ Asked'
    BY <2>1, <2>2 DEF IsSeq, Asked, ChatInv, Known
  <2> QED
    BY <1>3, <2>3 DEF Connect, roster, serverVars, ChatInv, Known, Heard, ChatAlwaysFound
<1>4. CASE LoseConnection
  BY <1>4, EmptyIsSeq, ChatsAssumption
     DEF LoseConnection, Clear, ChatInv, Known, Asked, Heard, ChatAlwaysFound
<1>5. CASE UNCHANGED vars
  BY <1>5 DEF vars, bot, roster, serverVars, ChatInv, Known, Asked, Heard, ChatAlwaysFound
<1> QED
  BY <1>1, <1>2, <1>3, <1>4, <1>5, ActKeepsChats, ServeKeepsChats, HandleKeepsChats DEF Next

LEMMA StartKnowsPublic ==
  ASSUME Init
  PROVE  ChatInv
<1>1. PICK s \in SUBSET Users : members = [Empty EXCEPT ![Public] = s]
  BY DEF Init
<1>2. members \in [Chats -> SUBSET Uids] /\ \A c \in Chats : Self \notin members[c]
  BY <1>1, UsersAssumption, ChatsAssumption DEF Empty, Uids
<1> QED
  BY <1>2, EmptyIsSeq, ChatsAssumption DEF Init, ChatInv, Known, Asked, Heard, ChatAlwaysFound

(* A message about a chat never comes before the bot has entered the chat    *)
(* in wr_chats, or after wr_chats_clear: the handlers of messages.c, which   *)
(* use the chat without a test, always find it.                             *)
THEOREM ChatsAreFound == Spec => []ChatAlwaysFound
<1>1. Init => ChatInv
  BY StartKnowsPublic
<1>2. ChatInv /\ [Next]_vars => ChatInv'
  BY ChatKept
<1>3. ChatInv => ChatAlwaysFound
  BY DEF ChatInv
<1> QED
  BY <1>1, <1>2, <1>3, PTL DEF Spec

-----------------------------------------------------------------------------
(* The requests for a chat and the answers to them that are under way.       *)
Creates == {i \in DOMAIN toServer : toServer[i].op = "create_chat"}
Opened  == {i \in DOMAIN toBot : toBot[i].type = "chat_created"}

(* With one /privchat at a time there is one of them at most, and it is for  *)
(* the user of wr_private_chat_invite_uid.                                  *)
Single ==
  /\ \A i, j \in Nat : i \in Creates /\ j \in Creates => i = j
  /\ \A i, j \in Nat : i \in Opened /\ j \in Opened => i = j
  /\ \A i, j \in Nat : ~(i \in Creates /\ j \in Opened)
  /\ \A i \in Nat : i \in Creates => toServer[i].user = inviteUid /\ created # Chats
  /\ \A i \in Nat :
       i \in Opened => toBot[i].chat \in created /\ wanted[toBot[i].chat] = inviteUid
  /\ (\A i \in Nat : i \notin Creates /\ i \notin Opened) => inviteUid = NoUser

InviteInv ==
  /\ IsSeq(toServer) /\ IsSeq(toBot)
  /\ created \subseteq Chats /\ DOMAIN wanted = Chats
  /\ Single
  /\ link = "offline" => \A i \in Nat : i \notin Creates /\ i \notin Opened
  /\ \A x \in invites : x[1] \in created /\ x[2] = wanted[x[1]]

(* A step that adds neither a request for a chat nor an answer to one, and   *)
(* removes none, moves them at most.                                        *)
SameCreates ==
  /\ IsSeq(toServer)'
  /\ \E k \in Nat : \A i \in Nat : /\ i \in Creates' <=> i + k \in Creates
                                   /\ i \in Creates' => toServer'[i] = toServer[i + k]
                                   /\ i \in Creates => i - k \in Nat

SameOpened ==
  /\ IsSeq(toBot)'
  /\ \E k \in Nat : \A i \in Nat : /\ i \in Opened' <=> i + k \in Opened
                                   /\ i \in Opened' => toBot'[i] = toBot[i + k]
                                   /\ i \in Opened => i - k \in Nat

LEMMA NothingOpens ==
  ASSUME InviteInv, SameCreates, SameOpened,
         UNCHANGED <<created, inviteUid, wanted, invites>>,
         link' = "offline" => link = "offline"
  PROVE  InviteInv'
<1>1. PICK k \in Nat : \A i \in Nat : /\ i \in Creates' <=> i + k \in Creates
                                      /\ i \in Creates' => toServer'[i] = toServer[i + k]
                                      /\ i \in Creates => i - k \in Nat
  BY DEF SameCreates
<1>2. PICK h \in Nat : \A i \in Nat : /\ i \in Opened' <=> i + h \in Opened
                                      /\ i \in Opened' => toBot'[i] = toBot[i + h]
                                      /\ i \in Opened => i - h \in Nat
  BY DEF SameOpened
<1>3. \A i \in Nat : i + k \in Nat /\ i + h \in Nat
  OBVIOUS
<1>4. \A i \in Nat : /\ i \in Creates => i - k \in Nat /\ i - k \in Creates'
                     /\ i \in Opened => i - h \in Nat /\ i - h \in Opened'
  <2>1. \A i \in Nat : (i - k) + k = i /\ (i - h) + h = i
    OBVIOUS
  <2> QED
    BY <1>1, <1>2, <2>1
<1>5. Single'
  <2>1. \A i, j \in Nat : i \in Creates' /\ j \in Creates' => i = j
    BY <1>1, <1>3 DEF InviteInv, Single
  <2>2. \A i, j \in Nat : i \in Opened' /\ j \in Opened' => i = j
    BY <1>2, <1>3 DEF InviteInv, Single
  <2>3. \A i, j \in Nat : ~(i \in Creates' /\ j \in Opened')
    BY <1>1, <1>2, <1>3 DEF InviteInv, Single
  <2>4. \A i \in Nat : i \in Creates' => toServer'[i].user = inviteUid' /\ created' # Chats
    BY <1>1, <1>3 DEF InviteInv, Single
  <2>5. \A i \in Nat : i \in Opened' => toBot'[i].chat \in created' /\
             wanted'[toBot'[i].chat] = inviteUid'
    <3>1. SUFFICES ASSUME NEW i \in Nat, i \in Opened'
                   PROVE  toBot'[i].chat \in created /\ wanted[toBot'[i].chat] = inviteUid
      OBVIOUS
    <3>2. i + h \in Nat /\ i + h \in Opened /\ toBot'[i] = toBot[i + h]
      BY <1>2, <1>3, <3>1
    <3>3. toBot[i + h].chat \in created /\ wanted[toBot[i + h].chat] = inviteUid
      BY <3>2 DEF InviteInv, Single
    <3> QED
      BY <3>2, <3>3
  <2>6. (\A i \in Nat : i \notin Creates' /\ i \notin Opened') => inviteUid' = NoUser
    <3>1. SUFFICES ASSUME \A i \in Nat : i \notin Creates' /\ i \notin Opened'
                   PROVE  inviteUid = NoUser
      OBVIOUS
    <3>2. ASSUME NEW i \in Nat, i \in Creates PROVE FALSE
      <4>1. i - k \in Nat /\ i - k \in Creates'
        BY <1>4, <3>2
      <4> QED
        BY <3>1, <4>1
    <3>3. ASSUME NEW i \in Nat, i \in Opened PROVE FALSE
      <4>1. i - h \in Nat /\ i - h \in Opened'
        BY <1>4, <3>3
      <4> QED
        BY <3>1, <4>1
    <3> QED
      BY <3>2, <3>3 DEF InviteInv, Single
  <2> QED
    BY <2>1, <2>2, <2>3, <2>4, <2>5, <2>6 DEF Single
<1> QED
  BY <1>1, <1>2, <1>3, <1>5 DEF InviteInv, SameCreates, SameOpened

LEMMA CreatesStay ==
  ASSUME InviteInv,
         \/ toServer' = toServer
         \/ \E r : r.op # "create_chat" /\ toServer' = Append(toServer, r)
         \/ toServer # <<>> /\ Head(toServer).op # "create_chat" /\ toServer' = Tail(toServer)
  PROVE  SameCreates
<1>1. CASE toServer' = toServer
  BY <1>1 DEF SameCreates, Creates, InviteInv
<1>2. ASSUME NEW r, r.op # "create_chat", toServer' = Append(toServer, r)
      PROVE  SameCreates
  <2>1. IsSeq(toServer)'
    BY <1>2, Appending DEF InviteInv
  <2>2. \A i \in Nat : /\ i \in Creates' <=> i + 0 \in Creates
                       /\ i \in Creates' => toServer'[i] = toServer[i + 0]
    BY <1>2, Appending DEF Creates, InviteInv
  <2> QED
    BY <2>1, <2>2 DEF SameCreates
<1>3. CASE toServer # <<>> /\ Head(toServer).op # "create_chat" /\ toServer' = Tail(toServer)
  <2>1. IsSeq(toServer)'
    BY <1>3, Taking DEF InviteInv
  <2>2. \A i \in Nat : /\ i \in Creates' <=> i + 1 \in Creates
                       /\ i \in Creates' => toServer'[i] = toServer[i + 1]
                       /\ i \in Creates => i - 1 \in Nat
    BY <1>3, Taking DEF Creates, InviteInv
  <2> QED
    BY <2>1, <2>2 DEF SameCreates
<1> QED
  BY <1>1, <1>2, <1>3

LEMMA OpenedStay ==
  ASSUME InviteInv,
         \/ toBot' = toBot
         \/ \E m : m.type # "chat_created" /\ toBot' = Append(toBot, m)
         \/ toBot # <<>> /\ Head(toBot).type # "chat_created" /\ toBot' = Tail(toBot)
         \/ \E t : /\ IsSeq(t) /\ toBot' = toBot \o t
                   /\ \A i \in DOMAIN t : t[i].type # "chat_created"
  PROVE  SameOpened
<1>1. CASE toBot' = toBot
  BY <1>1 DEF SameOpened, Opened, InviteInv
<1>2. ASSUME NEW m, m.type # "chat_created", toBot' = Append(toBot, m)
      PROVE  SameOpened
  <2>1. IsSeq(toBot)'
    BY <1>2, Appending DEF InviteInv
  <2>2. \A i \in Nat : /\ i \in Opened' <=> i + 0 \in Opened
                       /\ i \in Opened' => toBot'[i] = toBot[i + 0]
    BY <1>2, Appending DEF Opened, InviteInv
  <2> QED
    BY <2>1, <2>2 DEF SameOpened
<1>3. CASE toBot # <<>> /\ Head(toBot).type # "chat_created" /\ toBot' = Tail(toBot)
  <2>1. IsSeq(toBot)'
    BY <1>3, Taking DEF InviteInv
  <2>2. \A i \in Nat : /\ i \in Opened' <=> i + 1 \in Opened
                       /\ i \in Opened' => toBot'[i] = toBot[i + 1]
                       /\ i \in Opened => i - 1 \in Nat
    BY <1>3, Taking DEF Opened, InviteInv
  <2> QED
    BY <2>1, <2>2 DEF SameOpened
<1>4. ASSUME NEW t, IsSeq(t), toBot' = toBot \o t, \A i \in DOMAIN t : t[i].type # "chat_created"
      PROVE  SameOpened
  <2>1. IsSeq(toBot)'
    BY <1>4, Joining DEF InviteInv
  <2>2. \A i \in Nat : /\ i \in Opened' <=> i + 0 \in Opened
                       /\ i \in Opened' => toBot'[i] = toBot[i + 0]
    <3>1. SUFFICES ASSUME NEW i \in Nat
                   PROVE  /\ i \in Opened' <=> i \in Opened
                          /\ i \in Opened' => toBot'[i] = toBot[i]
      OBVIOUS
    <3>2. CASE i \in DOMAIN toBot
      <4>1. i \in DOMAIN toBot' /\ toBot'[i] = toBot[i]
        BY <1>4, <3>2, Joining DEF InviteInv
      <4> QED
        BY <3>2, <4>1 DEF Opened
    <3>3. CASE i \notin DOMAIN toBot
      <4>1. i \in DOMAIN toBot' => toBot'[i].type # "chat_created"
        BY <1>4, <3>3, Joining DEF InviteInv
      <4> QED
        BY <3>3, <4>1 DEF Opened
    <3> QED
      BY <3>2, <3>3
  <2> QED
    BY <2>1, <2>2 DEF SameOpened
<1> QED
  BY <1>1, <1>2, <1>3, <1>4

LEMMA CreatingIs ==
  ASSUME InviteInv
  PROVE  Creating <=> \E i \in Nat : i \in Creates \/ i \in Opened
<1>1. DOMAIN toServer \subseteq Nat /\ DOMAIN toBot \subseteq Nat
  <2>1. PICK S : toServer \in Seq(S)
    BY DEF InviteInv, IsSeq
  <2>2. PICK T : toBot \in Seq(T)
    BY DEF InviteInv, IsSeq
  <2> QED
    BY <2>1, <2>2
<1> QED
  BY <1>1 DEF Creating, Creates, Opened

LEMMA ActKeepsInvites ==
  ASSUME Orderly, InviteInv, Act \/ KickOne
  PROVE  InviteInv'
<1>1. CASE UNCHANGED created
  <2>1. UNCHANGED <<toServer, inviteUid, wanted, invites, link>>
    BY DEF Act, KickOne, Join, Leave, Say, OpenChat, Invite, Rename, Write, Kick, bot, history
  <2>2. SameCreates
    BY <2>1, CreatesStay
  <2>3. ASSUME NEW type, type # "chat_created", NEW c, NEW u,
                    Tell(type, c, u) \/ toBot' = Sent(type, c, u)
        PROVE  SameOpened
    <3> DEFINE m == [type |-> type, chat |-> c, user |-> u, nick |-> nick'[u]]
    <3>1. m.type # "chat_created" /\ (toBot' = toBot \/ toBot' = Append(toBot, m))
      BY <2>3 DEF Tell, Sent
    <3> QED
      BY <3>1, OpenedStay
  <2>4. SameOpened
    <3>1. ASSUME UNCHANGED toBot PROVE SameOpened
      BY <3>1, OpenedStay
    <3> QED
      BY <2>3, <3>1 DEF Act, KickOne, Join, Leave, Say, OpenChat, Invite, Rename, Write, Kick
  <2> QED
    BY <1>1, <2>1, <2>2, <2>4, NothingOpens
<1>2. CASE created' # created
  <2>1. PICK c \in Chats, u \in Users : OpenChat(c, u)
    BY <1>2 DEF Act, KickOne, Join, Leave, Say, Invite, Rename, Write, Kick
  <2>2. ~Creating /\ UNCHANGED <<toServer, toBot, inviteUid, wanted, invites, link>>
    BY <2>1 DEF OpenChat, bot, history
  <2>3. created \subseteq created' /\ created' \subseteq Chats
    BY <2>1 DEF OpenChat, InviteInv
  <2>4. \A i \in Nat : i \notin Creates /\ i \notin Opened
    BY <2>2, CreatingIs
  <2>5. UNCHANGED <<Creates, Opened>>
    BY <2>2 DEF Creates, Opened
  <2> QED
    BY <2>2, <2>3, <2>4, <2>5 DEF InviteInv, Single
<1> QED
  BY <1>1, <1>2

(* The server grants what is asked for: there is a chat left, and none is    *)
(* opened in between.                                                        *)
LEMMA ServeKeepsInvites ==
  ASSUME Orderly, ChatInv, InviteInv, Serve
  PROVE  InviteInv'
<1>1. toServer # <<>> /\ toServer' = Tail(toServer) /\ UNCHANGED <<link, inviteUid, invites>>
  BY DEF Serve, ServeJoin, ServeCreate, RefuseCreate, ServeOther, Takes, bot, history
<1>2. Head(toServer).op = "create_chat" => 1 \in Creates
  BY <1>1, Taking DEF Creates, InviteInv
<1>3. CASE ServeJoin \/ ServeOther
  <2>1. SameCreates
    BY <1>1, <1>3, CreatesStay DEF ServeJoin, ServeOther, Takes
  <2>2. UNCHANGED <<created, wanted>>
    BY <1>3 DEF ServeJoin, ServeOther, serverVars, history
  <2>3. CASE toBot' = toBot
    BY <1>1, <2>1, <2>2, <2>3, OpenedStay, NothingOpens
  <2>4. CASE toBot' # toBot
    <3> DEFINE c == Head(toServer).chat
    <3>1. PICK s \in SetToSeqs(members'[c]) :
            toBot' = toBot \o [i \in DOMAIN s |-> [type |-> "user_list", chat |-> c,
                                                   user |-> s[i], nick |-> nick[s[i]]]]
      BY <1>3, <2>4 DEF ServeJoin, ServeOther
    <3> DEFINE list == [i \in DOMAIN s |-> [type |-> "user_list", chat |-> c,
                                            user |-> s[i], nick |-> nick[s[i]]]]
    <3>2. \A i \in DOMAIN list : list[i].type # "chat_created"
      OBVIOUS
    <3>3. IsSeq(list)
      <4>1. c \in Chats
        BY <1>1, <1>3, <2>4, Taking DEF ServeJoin, ServeOther, Takes, ChatInv, Asked, Known
      <4>2. members'[c] \in SUBSET Uids
        BY <4>1, ServeKeepsChats DEF ChatInv
      <4>3. DOMAIN s = 1..Cardinality(members'[c]) /\ Cardinality(members'[c]) \in Nat
        BY <3>1, <4>2, Listing
      <4>4. list \in Seq({list[i] : i \in DOMAIN s})
        BY <4>3
      <4> QED
        BY <4>4 DEF IsSeq
    <3> HIDE DEF list
    <3>4. SameOpened
      BY <3>1, <3>2, <3>3, OpenedStay DEF list
    <3> QED
      BY <1>1, <2>1, <2>2, <3>4, NothingOpens
  <2> QED
    BY <2>3, <2>4
<1>4. ASSUME NEW c \in Chats, ServeCreate(c)
      PROVE  InviteInv'
  <2> DEFINE m == [type |-> "chat_created", chat |-> c, user |-> Self, nick |-> nick'[Self]]
  <2>1. /\ c \notin created /\ created' = created \cup {c}
        /\ wanted' = [wanted EXCEPT ![c] = Head(toServer).user]
        /\ toBot' = Append(toBot, m) /\ m.type = "chat_created" /\ m.chat = c
        /\ 1 \in Creates /\ Head(toServer) = toServer[1] /\ 1 \in Nat
    BY <1>1, <1>2, <1>4, Taking DEF ServeCreate, Takes, Sent, InviteInv
  <2>2. toServer[1].user = inviteUid
    BY <2>1 DEF InviteInv, Single
  <2>3. \A i \in Nat : i \notin Opened /\ i \notin Creates'
    <3>1. \A i \in Nat : i \notin Opened
      BY <2>1 DEF InviteInv, Single
    <3>2. \A i \in Nat : i \in Creates' => i + 1 \in Nat /\ i + 1 \in Creates /\ i # 0
      BY <1>1, Taking DEF Creates, InviteInv
    <3>3. \A i \in Nat : i + 1 \in Creates /\ i + 1 \in Nat => i + 1 = 1
      BY <2>1 DEF InviteInv, Single
    <3> QED
      BY <3>1, <3>2, <3>3
  <2> HIDE DEF m
  <2>4. \A i \in Nat : i \in Opened' => i = Len(toBot) + 1 /\ toBot'[i] = m
    BY <2>1, <2>3, Appending DEF Opened, InviteInv
  <2>5. Len(toBot) + 1 \in Opened' /\ Len(toBot) + 1 \in Nat
    BY <2>1, Appending DEF Opened, InviteInv
  <2>6. DOMAIN wanted' = Chats /\ wanted'[c] = inviteUid /\
             \A d \in created : wanted'[d] = wanted[d]
    BY <2>1, <2>2 DEF InviteInv
  <2>7. IsSeq(toServer)' /\ IsSeq(toBot)'
    BY <1>1, <2>1, Taking, Appending DEF InviteInv
  <2>8. Single'
    BY <1>1, <2>1, <2>3, <2>4, <2>5, <2>6 DEF Single
  <2>9. link # "offline"
    BY <2>1 DEF InviteInv
  <2> QED
    BY <1>1, <2>1, <2>6, <2>7, <2>8, <2>9 DEF InviteInv
<1>5. ~RefuseCreate
  BY <1>2, SwitchAssumption DEF RefuseCreate, Takes, InviteInv, Single
<1> QED
  BY <1>3, <1>4, <1>5 DEF Serve

(* The answer to the /privchat that is under way is taken, and its user is   *)
(* invited into the chat that is opened for it.                             *)
LEMMA OpeningInvites ==
  ASSUME InviteInv, ChatCreated
  PROVE  InviteInv'
<1> DEFINE c == Head(toBot).chat
           join == [op |-> "join_chat", chat |-> c, user |-> Self]
           invite == [op |-> "invite_user", chat |-> c, user |-> inviteUid]
<1>1. /\ toBot # <<>> /\ toBot' = Tail(toBot) /\ Head(toBot).type = "chat_created"
      /\ link' = "online" /\ inviteUid' = NoUser /\ UNCHANGED <<created, wanted>>
  BY DEF ChatCreated, Receives, serverVars
<1>2. 1 \in Opened /\ Head(toBot) = toBot[1] /\ 1 \in Nat
  BY <1>1, Taking DEF Opened, InviteInv
<1>3. c \in created /\ wanted[c] = inviteUid
  BY <1>2 DEF InviteInv, Single
<1>4. \A i \in Nat : i \notin Creates /\ i \notin Opened'
  <2>1. \A i \in Nat : i \in Opened' => i + 1 \in Nat /\ i + 1 \in Opened /\ i # 0
    BY <1>1, Taking DEF Opened, InviteInv
  <2>2. \A i \in Nat : i + 1 \in Opened /\ i + 1 \in Nat => i + 1 = 1
    BY <1>2 DEF InviteInv, Single
  <2>3. \A i \in Nat : i \notin Creates
    BY <1>2 DEF InviteInv, Single
  <2> QED
    BY <2>1, <2>2, <2>3
<1>5. \/ toServer' = Append(toServer, join) /\ invites' = invites
      \/ toServer' = toServer \o <<join, invite>> /\ invites' = invites \cup {<<c, inviteUid>>}
  BY DEF ChatCreated
<1>6. join.op # "create_chat" /\ invite.op # "create_chat"
  OBVIOUS
<1> HIDE DEF join, invite
<1>7. IsSeq(toServer)' /\ \A i \in Nat : i \notin Creates'
  <2>1. CASE toServer' = Append(toServer, join)
    BY <1>4, <1>6, <2>1, Appending DEF Creates, InviteInv
  <2>2. CASE toServer' = toServer \o <<join, invite>>
    <3>1. IsSeq(<<join, invite>>)
      <4>1. <<join, invite>> \in Seq({join, invite})
        OBVIOUS
      <4> QED
        BY <4>1 DEF IsSeq
    <3>2. \A i \in DOMAIN <<join, invite>> : <<join, invite>>[i].op # "create_chat"
      BY <1>6
    <3> DEFINE t == <<join, invite>>
    <3>3. IsSeq(toServer) /\ IsSeq(t)
      BY <3>1 DEF InviteInv
    <3> HIDE DEF t
    <3>4. /\ IsSeq(toServer \o t)
          /\ \A i \in DOMAIN (toServer \o t) :
               \/ i \in DOMAIN toServer /\ (toServer \o t)[i] = toServer[i]
               \/ i - Len(toServer) \in DOMAIN t /\ (toServer \o t)[i] = t[i - Len(toServer)]
      BY <3>3, Joining
    <3>5. toServer' = toServer \o t /\ \A i \in DOMAIN t : t[i].op # "create_chat"
      BY <2>2, <3>2 DEF t
    <3>6. \A i \in Nat : i \in DOMAIN toServer => toServer[i].op # "create_chat"
      BY <1>4 DEF Creates
    <3>7. \A i \in Nat : i \in DOMAIN toServer' => toServer'[i].op # "create_chat"
      BY <3>4, <3>5, <3>6
    <3> QED
      BY <3>4, <3>5, <3>7 DEF Creates
  <2> QED
    BY <1>5, <2>1, <2>2
<1>8. IsSeq(toBot)'
  BY <1>1, Taking DEF InviteInv
<1>9. \A x \in invites' : x[1] \in created' /\ x[2] = wanted'[x[1]]
  BY <1>1, <1>3, <1>5 DEF InviteInv
<1> QED
  BY <1>1, <1>4, <1>7, <1>8, <1>9 DEF InviteInv, Single

LEMMA HandleKeepsInvites ==
  ASSUME InviteInv, Handle
  PROVE  InviteInv'
<1>1. CASE ChatCreated
  BY <1>1, OpeningInvites
<1>2. CASE UserList \/ UserJoin \/ UserLeave \/ ChatSay \/ PrivateMessage \/ UserStatus
           \/ Unhandled \/ Invitation
  <2>1. /\ toBot # <<>> /\ toBot' = Tail(toBot) /\ Head(toBot).type # "chat_created"
        /\ link' # "offline"
    BY <1>2 DEF UserList, UserJoin, UserLeave, ChatSay, PrivateMessage, UserStatus, Unhandled,
                Invitation, Receives, Crash, bot
  <2>2. UNCHANGED <<created, inviteUid, wanted, invites>>
    BY <1>2 DEF UserList, UserJoin, UserLeave, ChatSay, PrivateMessage, UserStatus, Unhandled,
                Invitation, Crash, serverVars, bot, history
  <2>3. SameOpened
    BY <2>1, OpenedStay
  <2>4. SameCreates
    <3>1. UNCHANGED toServer \/ \E r : r.op # "create_chat" /\ toServer' = Append(toServer, r)
      <4>1. ASSUME NEW u, NEW s, NEW nicks, Dispatch(u, s, nicks)
            PROVE  UNCHANGED toServer
                   \/ \E r : r.op # "create_chat" /\ toServer' = Append(toServer, r)
        BY <4>1 DEF Dispatch
      <4>2. CASE Invitation
        BY <4>2 DEF Invitation
      <4>3. CASE UserList \/ UserStatus \/ Unhandled
        BY <4>3 DEF UserList, UserStatus, Unhandled, Crash
      <4>4. CASE UserJoin \/ UserLeave \/ ChatSay \/ PrivateMessage
        BY <4>1, <4>4 DEF UserJoin, UserLeave, ChatSay, PrivateMessage, Crash
      <4> QED
        BY <1>2, <4>2, <4>3, <4>4
    <3> QED
      BY <3>1, CreatesStay
  <2> QED
    BY <2>1, <2>2, <2>3, <2>4, NothingOpens
<1> QED
  BY <1>1, <1>2 DEF Handle

(* A /privchat is taken when none is under way. *)
LEMMA AskingInvites ==
  ASSUME Orderly, InviteInv, NEW u, PrivChat(u)
  PROVE  InviteInv'
<1> DEFINE r == [op |-> "create_chat", chat |-> Public, user |-> u]
<1>1. /\ link = "online" /\ ~Creating /\ created # Chats
      /\ UNCHANGED <<created, toBot, link, wanted, invites>>
      /\ toServer' = Append(toServer, r) /\ r.op = "create_chat" /\ r.user = u
      /\ inviteUid' = IF u = NoUser THEN inviteUid ELSE u
  BY DEF PrivChat, serverVars, history
<1>2. \A i \in Nat : i \notin Creates /\ i \notin Opened
  BY <1>1, CreatingIs
<1>3. inviteUid' = u
  BY <1>1, <1>2 DEF InviteInv, Single
<1> HIDE DEF r
<1>4. \A i \in Nat : i \in Creates' => i = Len(toServer) + 1 /\ toServer'[i] = r
  BY <1>1, <1>2, Appending DEF Creates, InviteInv
<1>5. Len(toServer) + 1 \in Creates' /\ Len(toServer) + 1 \in Nat /\ IsSeq(toServer)'
  BY <1>1, Appending DEF Creates, InviteInv
<1>6. Opened' = Opened
  BY <1>1 DEF Opened
<1>7. Single'
  BY <1>1, <1>2, <1>3, <1>4, <1>5, <1>6 DEF Single
<1> QED
  BY <1>1, <1>2, <1>5, <1>7 DEF InviteInv

LEMMA InvitesKept ==
  ASSUME Orderly, ChatInv, InviteInv, [Next]_vars
  PROVE  InviteInv'
<1>1. ASSUME NEW u, PrivChat(u)
      PROVE  InviteInv'
  BY <1>1, AskingInvites
<1>2. CASE PrivChatUnknown
  <2>1. UNCHANGED <<created, inviteUid, wanted, invites, toServer, toBot>> /\ link' = "crashed"
    BY <1>2 DEF PrivChatUnknown, Crash, serverVars, history
  <2> QED
    BY <2>1, CreatesStay, OpenedStay, NothingOpens
<1>3. CASE Connect
  <2> DEFINE join == [op |-> "join_chat", chat |-> Public, user |-> Self]
  <2>1. /\ toServer' = <<join>> /\ join.op # "create_chat" /\ link = "offline" /\ link' = "online"
        /\ UNCHANGED <<created, toBot, inviteUid, wanted, invites>>
    BY <1>3 DEF Connect, serverVars, history
  <2> HIDE DEF join
  <2>2. \A i \in Nat : i \notin Creates /\ i \notin Opened
    BY <2>1 DEF InviteInv
  <2>3. <<join>> \in Seq({join}) /\ \A i \in DOMAIN <<join>> : <<join>>[i] = join
    OBVIOUS
  <2>4. IsSeq(toServer)' /\ \A i \in Nat : i \notin Creates'
    BY <2>1, <2>3 DEF IsSeq, Creates
  <2>5. Opened' = Opened
    BY <2>1 DEF Opened
  <2> QED
    BY <2>1, <2>2, <2>4, <2>5 DEF InviteInv, Single
<1>4. CASE LoseConnection
  <2>1. /\ toServer' = <<>> /\ toBot' = <<>> /\ inviteUid' = NoUser
        /\ UNCHANGED <<created, wanted, invites>>
    BY <1>4 DEF LoseConnection, Clear, history
  <2>2. \A i \in Nat : i \notin Creates' /\ i \notin Opened'
    BY <2>1 DEF Creates, Opened
  <2> QED
    BY <2>1, <2>2, EmptyIsSeq DEF InviteInv, Single
<1>5. CASE UNCHANGED vars
  <2>1. UNCHANGED <<created, inviteUid, wanted, invites, toServer, toBot, link>>
    BY <1>5 DEF vars, serverVars, bot, history
  <2> QED
    BY <2>1, CreatesStay, OpenedStay, NothingOpens
<1> QED
  BY <1>1, <1>2, <1>3, <1>4, <1>5, ActKeepsInvites, ServeKeepsInvites, HandleKeepsInvites DEF Next

(* One /privchat at a time invites the user it names, whoever opens chats    *)
(* and whenever the session is lost: wr_private_chat_invite_uid is set when  *)
(* the chat is asked for and used when the server answers.                  *)
THEOREM InvitesRight == Orderly = TRUE /\ Spec => []InvitesNamedUser
<1>1. Init => ChatInv
  BY StartKnowsPublic
<1>2. Init => InviteInv
  <2> SUFFICES ASSUME Init PROVE InviteInv
    OBVIOUS
  <2>1. \A i \in Nat : i \notin Creates /\ i \notin Opened
    BY DEF Init, Creates, Opened
  <2> QED
    BY <2>1, EmptyIsSeq, ChatsAssumption DEF Init, InviteInv, Single
<1>3. ChatInv /\ [Next]_vars => ChatInv'
  BY ChatKept
<1>4. InviteInv => InvitesNamedUser
  BY DEF InviteInv, InvitesNamedUser
<1>5. SUFFICES ASSUME Orderly = TRUE PROVE Spec => []InvitesNamedUser
  OBVIOUS
<1>6. ChatInv /\ InviteInv /\ [Next]_vars => InviteInv'
  BY <1>5, InvitesKept
<1> QED
  BY <1>1, <1>2, <1>3, <1>4, <1>6, PTL DEF Spec


-----------------------------------------------------------------------------
(* Where the first of a sequence is that a lookup is for. *)
LEMMA FirstIs ==
  ASSUME NEW T, NEW s \in Seq(T), NEW e, \E i \in 1..Len(s) : s[i] = e
  PROVE  LET k == SelectInSeq(s, LAMBDA v : v = e) IN k \in 1..Len(s) /\ s[k] = e
<1> DEFINE I == {i \in 1..Len(s) : s[i] = e}
<1>1. I \subseteq Nat /\ I # {}
  OBVIOUS
<1>2. \E k \in I : \A n \in I : k <= n
  BY <1>1, LeastNumber
<1>3. Min(I) \in I
  BY <1>2 DEF Min
<1> QED
  BY <1>1, <1>3 DEF SelectInSeq

LEMMA RemovingFirst ==
  ASSUME NEW T, NEW s \in Seq(T), NEW e
  PROVE  /\ RemoveFirst(s, e) \in Seq(T)
         /\ \A x \in ToSet(s) : x # e => x \in ToSet(RemoveFirst(s, e))
         /\ IsInjective(s) /\ e \in ToSet(s) =>
              IsInjective(RemoveFirst(s, e)) /\ ToSet(RemoveFirst(s, e)) = ToSet(s) \ {e}
<1>1. CASE ~\E i \in 1..Len(s) : s[i] = e
  <2>1. RemoveFirst(s, e) = s /\ e \notin ToSet(s)
    BY <1>1 DEF RemoveFirst, ToSet
  <2> QED
    BY <2>1
<1>2. CASE \E i \in 1..Len(s) : s[i] = e
  <2> DEFINE k == SelectInSeq(s, LAMBDA v : v = e)
             r == SubSeq(s, 1, k - 1) \o SubSeq(s, k + 1, Len(s))
  <2>1. k \in 1..Len(s) /\ s[k] = e
    BY <1>2, FirstIs
  <2>2. RemoveFirst(s, e) = r
    BY <1>2 DEF RemoveFirst, RemoveAt
  <2> HIDE DEF k
  <2>3. Len(s) \in Nat /\ k \in Nat /\ DOMAIN s = 1..Len(s)
    BY <2>1
  <2>4. /\ SubSeq(s, 1, k - 1) \in Seq(T) /\ Len(SubSeq(s, 1, k - 1)) = k - 1
        /\ \A i \in 1..(k - 1) : SubSeq(s, 1, k - 1)[i] = s[i]
    BY <2>1, <2>3
  <2> DEFINE front == SubSeq(s, 1, k - 1)
             back == SubSeq(s, k + 1, Len(s))
  <2>5. /\ back \in Seq(T) /\ Len(back) = Len(s) - k
        /\ \A i \in 1..(Len(s) - k) : back[i] = s[k + i]
    <3>1. \A i \in (k + 1)..Len(s) : s[i] \in T
      BY <2>3
    <3>2. /\ SubSeq(s, k + 1, Len(s)) \in Seq(T)
          /\ Len(SubSeq(s, k + 1, Len(s)))
               = IF k + 1 <= Len(s) THEN Len(s) - (k + 1) + 1 ELSE 0
          /\ \A i \in 1..(Len(s) - (k + 1) + 1) :
               SubSeq(s, k + 1, Len(s))[i] = s[k + 1 + i - 1]
      BY <2>3, <3>1, SubSeqProperties
    <3> HIDE DEF back
    <3>3. Len(s) - (k + 1) + 1 = Len(s) - k /\ (~(k + 1 <= Len(s)) => Len(s) - k = 0)
      <4>1. \A n, l \in Nat : l \in 1..n =>
              n - (l + 1) + 1 = n - l /\ (~(l + 1 <= n) => n - l = 0)
        OBVIOUS
      <4> QED
        BY <2>1, <2>3, <4>1
    <3>4. \A i \in 1..(Len(s) - k) : k + 1 + i - 1 = k + i
      BY <2>3
    <3> QED
      BY <3>2, <3>3, <3>4 DEF back
  <2>6. /\ r \in Seq(T) /\ DOMAIN r = 1..(Len(s) - 1)
        /\ \A i \in 1..(Len(s) - 1) : r[i] = IF i < k THEN s[i] ELSE s[i + 1]
    <3> HIDE DEF front, back
    <3>1. /\ front \in Seq(T) /\ Len(front) = k - 1
          /\ \A i \in 1..(k - 1) : front[i] = s[i]
      BY <2>4 DEF front
    <3> DEFINE both == front \o back
    <3>2. /\ both \in Seq(T) /\ Len(both) = (k - 1) + (Len(s) - k)
          /\ \A i \in 1..((k - 1) + (Len(s) - k)) :
               both[i] = IF i <= k - 1 THEN front[i] ELSE back[i - (k - 1)]
      <4>1. /\ both \in Seq(T) /\ Len(both) = Len(front) + Len(back)
            /\ \A i \in 1..(Len(front) + Len(back)) :
                 both[i] = IF i <= Len(front) THEN front[i] ELSE back[i - Len(front)]
        BY <2>5, <3>1, ConcatProperties
      <4> QED
        BY <2>5, <3>1, <4>1
    <3> HIDE DEF both
    <3>3. (k - 1) + (Len(s) - k) = Len(s) - 1
      BY <2>3
    <3>4. DOMAIN both = 1..(Len(s) - 1)
      BY <3>2, <3>3
    <3>5. ASSUME NEW i \in 1..(Len(s) - 1)
          PROVE  both[i] = IF i < k THEN s[i] ELSE s[i + 1]
      <4>1. both[i] = IF i <= k - 1 THEN front[i] ELSE back[i - (k - 1)]
        BY <3>2, <3>3
      <4>2. CASE i < k
        BY <2>3, <3>1, <4>1, <4>2
      <4>3. CASE ~(i < k)
        <5>1. i - (k - 1) \in 1..(Len(s) - k) /\ k + (i - (k - 1)) = i + 1 /\ ~(i <= k - 1)
          BY <2>1, <2>3, <4>3
        <5> QED
          BY <2>5, <4>1, <4>3, <5>1
      <4> QED
        BY <4>2, <4>3
    <3> QED
      BY <3>2, <3>4, <3>5 DEF both, front, back
  <2> HIDE DEF r
  <2>7. ASSUME NEW i \in 1..Len(s), i # k
        PROVE  \E j \in 1..(Len(s) - 1) : r[j] = s[i]
    <3>1. CASE i < k
      BY <2>1, <2>3, <2>6, <3>1
    <3>2. CASE i > k
      <4>1. i - 1 \in 1..(Len(s) - 1) /\ ~(i - 1 < k) /\ (i - 1) + 1 = i
        BY <2>1, <2>3, <3>2
      <4> QED
        BY <2>6, <4>1
    <3> QED
      BY <2>3, <2>7, <3>1, <3>2
  <2>8. ASSUME NEW i \in 1..(Len(s) - 1)
        PROVE  \E j \in 1..Len(s) : j # k /\ r[i] = s[j]
    BY <2>1, <2>3, <2>6, <2>8
  <2>9. ASSUME NEW x \in ToSet(s), x # e
        PROVE  x \in ToSet(r)
    <3>1. PICK i \in 1..Len(s) : s[i] = x
      BY <2>3 DEF ToSet
    <3>2. PICK j \in 1..(Len(s) - 1) : r[j] = s[i]
      BY <2>1, <2>7, <2>9, <3>1
    <3> QED
      BY <2>6, <3>1, <3>2 DEF ToSet
  <2>10. ASSUME IsInjective(s)
         PROVE  IsInjective(r) /\ ToSet(r) = ToSet(s) \ {e}
    <3>1. IsInjective(r)
      BY <2>3, <2>6, <2>10 DEF IsInjective
    <3>2. \A j \in 1..Len(s) : j # k => s[j] # e
      BY <2>1, <2>3, <2>10 DEF IsInjective
    <3>3. ToSet(r) \subseteq ToSet(s) \ {e}
      BY <2>3, <2>6, <2>8, <3>2 DEF ToSet
    <3> QED
      BY <2>9, <3>1, <3>3 DEF ToSet
  <2> QED
    BY <2>2, <2>6, <2>9, <2>10
<1> QED
  BY <1>1, <1>2

LEMMA FindingNick ==
  ASSUME NEW T, NEW s \in Seq(T), NEW nicks, NEW u \in ToSet(s)
  PROVE  /\ WithNick(s, nicks, nicks[u]) \in ToSet(s)
         /\ nicks[WithNick(s, nicks, nicks[u])] = nicks[u]
<1> DEFINE I == {i \in 1..Len(s) : nicks[s[i]] = nicks[u]}
<1>1. I \subseteq Nat /\ I # {} /\ DOMAIN s = 1..Len(s)
  BY DEF ToSet
<1>2. \E k \in I : \A n \in I : k <= n
  BY <1>1, LeastNumber
<1>3. Min(I) \in I
  BY <1>2 DEF Min
<1>4. WithNick(s, nicks, nicks[u]) = s[Min(I)]
  BY <1>1 DEF WithNick, SelectInSeq
<1> QED
  BY <1>1, <1>3, <1>4 DEF ToSet

-----------------------------------------------------------------------------
(* Types. *)

(* A user who is found by id is also found by nick: a kick that the bot does *)
(* not hear of leaves an object too many in users_array, never one too few.  *)
Kept == \A c \in Chats : dict[c] \subseteq ToSet(array[c])

LEMMA SentTyped ==
  ASSUME TypeOK, nick' \in [Uids -> Nicks \cup {SelfNick}],
         NEW type \in Types, NEW c \in Chats, NEW u \in Uids
  PROVE  Sent(type, c, u) \in Seq(Message)
<1> DEFINE m == [type |-> type, chat |-> c, user |-> u, nick |-> nick'[u]]
<1>1. m \in Message
  BY DEF Message
<1> HIDE DEF m
<1>2. Append(toBot, m) \in Seq(Message)
  BY <1>1 DEF TypeOK
<1> QED
  BY <1>2 DEF Sent, m

LEMMA TellTyped ==
  ASSUME TypeOK, nick' \in [Uids -> Nicks \cup {SelfNick}],
         NEW type \in Types, NEW c \in Chats, NEW u \in Uids, Tell(type, c, u)
  PROVE  toBot' \in Seq(Message)
BY SentTyped DEF Tell, TypeOK

LEMMA AskTyped ==
  ASSUME TypeOK, NEW op, op \in {"join_chat", "create_chat", "invite_user", "send_message"},
         NEW c \in Chats, NEW u \in Uids \cup {NoUser}
  PROVE  /\ [op |-> op, chat |-> c, user |-> u] \in Request
         /\ Append(toServer, [op |-> op, chat |-> c, user |-> u]) \in Seq(Request)
<1> DEFINE r == [op |-> op, chat |-> c, user |-> u]
<1>1. r \in Request
  BY DEF Request
<1> HIDE DEF r
<1>2. Append(toServer, r) \in Seq(Request)
  BY <1>1 DEF TypeOK
<1> QED
  BY <1>1, <1>2 DEF r

LEMMA ActTyped ==
  ASSUME TypeOK, Act \/ KickOne
  PROVE  TypeOK'
<1>1. UNCHANGED <<toServer, bot, losses, history>> /\ events' \in Nat
  BY DEF Act, KickOne, Join, Leave, Say, OpenChat, Invite, Rename, Write, Kick, Event, TypeOK
<1>2. /\ members \in [Chats -> SUBSET Uids] /\ created \in SUBSET Chats
      /\ nick \in [Uids -> Nicks \cup {SelfNick}] /\ toBot \in Seq(Message)
  BY DEF TypeOK
<1>3. ASSUME members' \in [Chats -> SUBSET Uids], created' \in SUBSET Chats,
             nick' \in [Uids -> Nicks \cup {SelfNick}], toBot' \in Seq(Message)
      PROVE  TypeOK'
  BY <1>1, <1>3 DEF TypeOK, bot, roster, history
<1>4. ASSUME NEW c \in Chats, NEW u \in Users, NEW n \in Nicks, Join(c, u, n)
      PROVE  TypeOK'
  <2>1. nick' \in [Uids -> Nicks \cup {SelfNick}] /\ u \in Uids
    BY <1>2, <1>4 DEF Join, Uids
  <2>2. toBot' \in Seq(Message)
    BY <1>4, <2>1, TellTyped DEF Join, Types
  <2>3. members' \in [Chats -> SUBSET Uids] /\ created' \in SUBSET Chats
    BY <1>2, <1>4, <2>1 DEF Join
  <2> QED
    BY <1>3, <2>1, <2>2, <2>3
<1>5. ASSUME NEW c \in Chats, NEW u \in Uids, Leave(c, u) \/ Kick(c, u)
      PROVE  TypeOK'
  <2>1. nick' \in [Uids -> Nicks \cup {SelfNick}]
    BY <1>2, <1>5 DEF Leave, Kick
  <2>2. toBot' \in Seq(Message)
    BY <1>5, <2>1, TellTyped DEF Leave, Kick, Types
  <2>3. members' \in [Chats -> SUBSET Uids] /\ created' \in SUBSET Chats
    BY <1>2, <1>5 DEF Leave, Kick
  <2> QED
    BY <1>3, <2>1, <2>2, <2>3
<1>6. ASSUME NEW u \in Users, NEW n \in Nicks, Rename(u, n)
      PROVE  TypeOK'
  <2>1. nick' \in [Uids -> Nicks \cup {SelfNick}] /\ u \in Uids
    BY <1>2, <1>6 DEF Rename, Uids
  <2>2. toBot' \in Seq(Message)
    BY <1>6, <2>1, TellTyped, ChatsAssumption DEF Rename, Types
  <2> QED
    BY <1>2, <1>3, <1>6, <2>1, <2>2 DEF Rename
<1>7. ASSUME NEW c \in Chats, NEW u \in Users, OpenChat(c, u)
      PROVE  TypeOK'
  BY <1>2, <1>3, <1>7 DEF OpenChat, Uids
<1>8. ASSUME NEW c \in Chats, NEW u \in Users, Say(c, u) \/ Invite(c, u)
      PROVE  TypeOK'
  <2>1. nick' \in [Uids -> Nicks \cup {SelfNick}] /\ u \in Uids
    BY <1>2, <1>8 DEF Say, Invite, Uids
  <2>2. toBot' \in Seq(Message)
    BY <1>8, <2>1, TellTyped, SentTyped DEF Say, Invite, Types
  <2> QED
    BY <1>2, <1>3, <1>8, <2>1, <2>2 DEF Say, Invite
<1>9. ASSUME NEW u \in Users, NEW type \in {"message", "broadcast"}, Write(type, u)
      PROVE  TypeOK'
  <2>1. nick' \in [Uids -> Nicks \cup {SelfNick}] /\ u \in Uids /\ type \in Types
    BY <1>2, <1>9 DEF Write, Uids, Types
  <2>2. toBot' \in Seq(Message)
    BY <1>9, <2>1, SentTyped, ChatsAssumption DEF Write
  <2> QED
    BY <1>2, <1>3, <1>9, <2>1, <2>2 DEF Write
<1> QED
  BY <1>4, <1>5, <1>6, <1>7, <1>8, <1>9 DEF Act, KickOne, Uids

(* What the bot is told when it is let into the chat c. *)
Roll(c, s) ==
  [i \in DOMAIN s |-> [type |-> "user_list", chat |-> c, user |-> s[i], nick |-> nick[s[i]]]]

LEMMA RollTyped ==
  ASSUME TypeOK, NEW c \in Chats, NEW S \in SUBSET Uids, NEW s \in SetToSeqs(S)
  PROVE  Roll(c, s) \in Seq(Message) /\ DOMAIN Roll(c, s) = DOMAIN s
<1>1. DOMAIN s = 1..Cardinality(S) /\ Cardinality(S) \in Nat
  BY Listing
<1>2. \A i \in DOMAIN s : s[i] \in Uids
  BY <1>1 DEF SetToSeqs
<1>3. \A i \in DOMAIN s : Roll(c, s)[i] \in Message
  BY <1>2 DEF Roll, Message, Types, TypeOK
<1>4. DOMAIN Roll(c, s) = 1..Cardinality(S)
  BY <1>1 DEF Roll
<1>5. Roll(c, s) = [i \in 1..Cardinality(S) |-> Roll(c, s)[i]]
  BY <1>1, <1>4 DEF Roll
<1> QED
  BY <1>1, <1>3, <1>4, <1>5

LEMMA ServeTyped ==
  ASSUME TypeOK, Serve
  PROVE  TypeOK'
<1>1. /\ UNCHANGED <<bot, events, losses, nick, answers, invites>>
      /\ toServer # <<>> /\ toServer' = Tail(toServer)
  BY DEF Serve, ServeJoin, ServeCreate, RefuseCreate, ServeOther, Takes, serverVars, history
<1>2. toServer' \in Seq(Request) /\ Head(toServer) \in Request
  BY <1>1 DEF TypeOK
<1>3. Head(toServer).chat \in Chats /\ Head(toServer).user \in Uids \cup {NoUser}
  BY <1>2 DEF Request
<1>4. /\ members \in [Chats -> SUBSET Uids] /\ created \in SUBSET Chats
      /\ nick \in [Uids -> Nicks \cup {SelfNick}] /\ toBot \in Seq(Message)
      /\ wanted \in [Chats -> Uids \cup {NoUser}]
  BY DEF TypeOK
<1>5. ASSUME members' \in [Chats -> SUBSET Uids], created' \in SUBSET Chats,
             toBot' \in Seq(Message), wanted' \in [Chats -> Uids \cup {NoUser}]
      PROVE  TypeOK'
  BY <1>1, <1>2, <1>5 DEF TypeOK, bot, roster
<1>6. CASE ServeJoin
  <2> DEFINE c == Head(toServer).chat
  <2>1. UNCHANGED <<created, wanted>>
    BY <1>6 DEF ServeJoin, history
  <2>2. CASE Self \in members[c]
    BY <1>4, <1>5, <1>6, <2>1, <2>2 DEF ServeJoin
  <2>3. CASE Self \notin members[c]
    <3>1. members' = [members EXCEPT ![c] = @ \cup {Self}]
      BY <1>6, <2>3 DEF ServeJoin
    <3>2. members' \in [Chats -> SUBSET Uids]
      BY <1>3, <1>4, <3>1 DEF Uids
    <3>3. PICK s \in SetToSeqs(members'[c]) : toBot' = toBot \o Roll(c, s)
      BY <1>6, <2>3 DEF ServeJoin, Roll
    <3>4. Roll(c, s) \in Seq(Message)
      BY <1>3, <3>2, <3>3, RollTyped
    <3>5. toBot' \in Seq(Message)
      BY <1>4, <3>3, <3>4
    <3> QED
      BY <1>4, <1>5, <2>1, <3>2, <3>5
  <2> QED
    BY <2>2, <2>3
<1>7. ASSUME NEW c \in Chats, ServeCreate(c)
      PROVE  TypeOK'
  <2>1. toBot' \in Seq(Message)
    BY <1>1, <1>4, <1>7, SentTyped DEF ServeCreate, Types, Uids
  <2> QED
    BY <1>3, <1>4, <1>5, <1>7, <2>1 DEF ServeCreate
<1>8. CASE RefuseCreate \/ ServeOther
  BY <1>4, <1>5, <1>8 DEF RefuseCreate, ServeOther, serverVars, history
<1> QED
  BY <1>6, <1>7, <1>8 DEF Serve

LEMMA AddTyped ==
  ASSUME TypeOK, Kept, NEW c \in Chats, NEW u \in Uids, NEW n \in Nicks \cup {SelfNick},
         AddUser(c, u, n)
  PROVE  /\ array' \in [Chats -> Seq(Uids)] /\ dict' \in [Chats -> SUBSET Uids]
         /\ nickOf' \in [Uids -> Nicks \cup {SelfNick}]
         /\ Kept'
<1>1. array \in [Chats -> Seq(Uids)] /\ dict \in [Chats -> SUBSET Uids]
  BY DEF TypeOK
<1>2. Append(array[c], u) \in Seq(Uids)
  BY <1>1
<1>3. /\ array' = [array EXCEPT ![c] = Append(array[c], u)]
      /\ dict' = [dict EXCEPT ![c] = dict[c] \cup {u}]
  BY DEF AddUser
<1>4. ToSet(array[c]) \cup {u} \subseteq ToSet(Append(array[c], u))
  <2>1. IsSeq(array[c])
    BY <1>1 DEF IsSeq
  <2> QED
    BY <2>1, Appending DEF ToSet
<1>5. Kept'
  BY <1>1, <1>3, <1>4 DEF Kept
<1> QED
  BY <1>1, <1>2, <1>3, <1>5 DEF AddUser, TypeOK

LEMMA RemoveTyped ==
  ASSUME TypeOK, Kept, NEW c \in Chats, NEW u, RemoveUser(c, u)
  PROVE  /\ array' \in [Chats -> Seq(Uids)] /\ dict' \in [Chats -> SUBSET Uids]
         /\ nickOf' \in [Uids -> Nicks \cup {SelfNick}]
         /\ Kept'
<1>1. array \in [Chats -> Seq(Uids)] /\ dict \in [Chats -> SUBSET Uids]
  BY DEF TypeOK
<1>2. /\ RemoveFirst(array[c], u) \in Seq(Uids)
      /\ \A x \in ToSet(array[c]) : x # u => x \in ToSet(RemoveFirst(array[c], u))
  BY <1>1, RemovingFirst
<1>3. /\ array' = [array EXCEPT ![c] = RemoveFirst(array[c], u)]
      /\ dict' = [dict EXCEPT ![c] = dict[c] \ {u}] /\ nickOf' = nickOf
  BY DEF RemoveUser
<1>4. Kept'
  BY <1>1, <1>2, <1>3 DEF Kept
<1> QED
  BY <1>1, <1>2, <1>3, <1>4 DEF TypeOK

LEMMA AddChatTyped ==
  ASSUME TypeOK, Kept, NEW c \in Chats, AddChat(c)
  PROVE  /\ array' \in [Chats -> Seq(Uids)] /\ dict' \in [Chats -> SUBSET Uids]
         /\ chats' \in SUBSET Chats
         /\ Kept'
<1>1. array \in [Chats -> Seq(Uids)] /\ dict \in [Chats -> SUBSET Uids] /\ chats \in SUBSET Chats
  BY DEF TypeOK
<1>2. <<>> \in Seq(Uids)
  OBVIOUS
<1> QED
  BY <1>1, <1>2 DEF AddChat, Kept

LEMMA DispatchTyped ==
  ASSUME TypeOK, NEW s \in Seq(Uids), NEW nicks, NEW u \in Uids, u \in ToSet(s),
         Dispatch(u, s, nicks)
  PROVE  toServer' \in Seq(Request) /\ answers' \in SUBSET (Uids \X Uids)
<1> DEFINE r == WithNick(s, nicks, nicks[u])
<1>1. toServer \in Seq(Request) /\ answers \in SUBSET (Uids \X Uids)
  BY DEF TypeOK
<1>2. r \in Uids
  BY FindingNick DEF ToSet
<1>3. Append(toServer, [op |-> "send_message", chat |-> Public, user |-> r]) \in Seq(Request)
  BY <1>2, AskTyped, ChatsAssumption
<1>4. \/ UNCHANGED <<toServer, answers>>
      \/ /\ toServer' = Append(toServer, [op |-> "send_message", chat |-> Public, user |-> r])
         /\ answers' = answers \cup {<<u, r>>}
  BY DEF Dispatch
<1> DEFINE q == [op |-> "send_message", chat |-> Public, user |-> r]
<1> HIDE DEF r, q
<1>5. <<u, r>> \in Uids \X Uids
  BY <1>2
<1>6. answers' \in SUBSET (Uids \X Uids)
  BY <1>1, <1>4, <1>5
<1>7. toServer' \in Seq(Request)
  BY <1>1, <1>3, <1>4 DEF q
<1> QED
  BY <1>6, <1>7

LEMMA HandleTyped ==
  ASSUME TypeOK, Kept, Handle
  PROVE  TypeOK' /\ Kept'
<1>1. toBot # <<>> /\ toBot' = Tail(toBot) /\ UNCHANGED <<serverVars, events, losses>>
  BY DEF Handle, UserList, UserJoin, UserLeave, ChatSay, PrivateMessage, UserStatus, Unhandled,
         ChatCreated, Invitation, Receives
<1> DEFINE m == Head(toBot)
<1>2. toBot' \in Seq(Message) /\ m \in Message
  BY <1>1 DEF TypeOK
<1>3. m.chat \in Chats /\ m.user \in Uids /\ m.nick \in Nicks \cup {SelfNick}
  BY <1>2 DEF Message
<1> HIDE DEF m
<1>4. /\ link \in {"offline", "online", "crashed"} /\ fault \in {"none", "chat", "user", "window"}
      /\ chats \in SUBSET Chats
      /\ array \in [Chats -> Seq(Uids)] /\ dict \in [Chats -> SUBSET Uids]
      /\ nickOf \in [Uids -> Nicks \cup {SelfNick}]
      /\ inviteUid \in Uids \cup {NoUser}
      /\ toServer \in Seq(Request) /\ answers \in SUBSET (Uids \X Uids)
      /\ wanted \in [Chats -> Uids \cup {NoUser}] /\ invites \in SUBSET (Chats \X Uids)
  BY DEF TypeOK
<1>5. ASSUME UNCHANGED wanted,
             link' \in {"offline", "online", "crashed"},
             fault' \in {"none", "chat", "user", "window"},
             chats' \in SUBSET Chats,
             array' \in [Chats -> Seq(Uids)], dict' \in [Chats -> SUBSET Uids],
             nickOf' \in [Uids -> Nicks \cup {SelfNick}],
             inviteUid' \in Uids \cup {NoUser},
             toServer' \in Seq(Request), answers' \in SUBSET (Uids \X Uids),
             invites' \in SUBSET (Chats \X Uids)
      PROVE  TypeOK'
  BY <1>1, <1>2, <1>5 DEF TypeOK, serverVars
<1>6. ASSUME NEW what \in {"chat", "user", "window"}, Crash(what)
      PROVE  TypeOK' /\ Kept'
  BY <1>4, <1>5, <1>6 DEF Crash, roster, history, Kept
<1>7. ASSUME UNCHANGED <<bot, toServer, history>>
      PROVE  TypeOK' /\ Kept'
  BY <1>4, <1>5, <1>7 DEF bot, roster, history, Kept
<1>8. ASSUME NEW u \in Uids, u \in dict[Public]
      PROVE  array[Public] \in Seq(Uids) /\ u \in ToSet(array[Public])
  BY <1>4, <1>8, ChatsAssumption DEF Kept
<1>9. CASE UserList
  <2>1. CASE Crash("chat")
    BY <1>6, <2>1
  <2>2. CASE AddUser(m.chat, m.user, m.nick) /\
             UNCHANGED <<link, fault, chats, inviteUid, toServer, history>>
    <3>1. /\ array' \in [Chats -> Seq(Uids)] /\ dict' \in [Chats -> SUBSET Uids]
          /\ nickOf' \in [Uids -> Nicks \cup {SelfNick}] /\ Kept'
      BY <1>3, <2>2, AddTyped
    <3> QED
      BY <1>4, <1>5, <2>2, <3>1 DEF history
  <2> QED
    BY <1>9, <2>1, <2>2 DEF UserList, m
<1>10. CASE UserJoin
  <2>1. CASE Crash("chat")
    BY <1>6, <2>1
  <2>2. ASSUME AddUser(m.chat, m.user, m.nick), UNCHANGED <<chats, inviteUid, wanted, invites>>,
               \/ /\ m.user \in dict'[Public]
                  /\ Dispatch(m.user, array'[Public], nickOf')
                  /\ UNCHANGED <<link, fault>>
               \/ /\ m.user \notin dict'[Public]
                  /\ link' = "crashed" /\ fault' = "user"
                  /\ UNCHANGED <<toServer, answers>>
        PROVE  TypeOK' /\ Kept'
    <3>1. /\ array' \in [Chats -> Seq(Uids)] /\ dict' \in [Chats -> SUBSET Uids]
          /\ nickOf' \in [Uids -> Nicks \cup {SelfNick}] /\ Kept'
      BY <1>3, <2>2, AddTyped
    <3>2. /\ link' \in {"offline", "online", "crashed"}
          /\ fault' \in {"none", "chat", "user", "window"}
      BY <1>4, <2>2
    <3>3. toServer' \in Seq(Request) /\ answers' \in SUBSET (Uids \X Uids)
      <4>1. CASE m.user \in dict'[Public] /\ Dispatch(m.user, array'[Public], nickOf')
        <5>1. array'[Public] \in Seq(Uids) /\ m.user \in ToSet(array'[Public])
          BY <3>1, <4>1, ChatsAssumption DEF Kept
        <5> QED
          BY <1>3, <4>1, <5>1, DispatchTyped
      <4> QED
        BY <1>4, <2>2, <4>1
    <3> QED
      BY <1>4, <1>5, <2>2, <3>1, <3>2, <3>3
  <2> QED
    BY <1>10, <2>1, <2>2 DEF UserJoin, m
<1>11. CASE UserLeave
  <2>1. CASE Crash("chat") \/ Crash("user") \/ UNCHANGED <<bot, toServer, history>>
    BY <1>6, <1>7, <2>1
  <2>2. ASSUME m.user \in dict[Public],
               Dispatch(m.user, array[Public], nickOf), RemoveUser(m.chat, m.user),
               UNCHANGED <<link, fault, chats, inviteUid, wanted, invites>>
        PROVE  TypeOK' /\ Kept'
    <3>1. /\ array' \in [Chats -> Seq(Uids)] /\ dict' \in [Chats -> SUBSET Uids]
          /\ nickOf' \in [Uids -> Nicks \cup {SelfNick}] /\ Kept'
      BY <1>3, <2>2, RemoveTyped
    <3>2. toServer' \in Seq(Request) /\ answers' \in SUBSET (Uids \X Uids)
      BY <1>3, <1>8, <2>2, DispatchTyped
    <3> QED
      BY <1>4, <1>5, <2>2, <3>1, <3>2
  <2> QED
    BY <1>11, <2>1, <2>2 DEF UserLeave, m
<1>12. CASE ChatSay \/ PrivateMessage
  <2>1. CASE Crash("chat") \/ Crash("user") \/ UNCHANGED <<bot, toServer, history>>
    BY <1>6, <1>7, <2>1
  <2>2. ASSUME \/ UNCHANGED <<toServer, answers>>
               \/ m.user \in dict[Public] /\ Dispatch(m.user, array[Public], nickOf),
               UNCHANGED <<bot, wanted, invites>>
        PROVE  TypeOK' /\ Kept'
    <3>1. toServer' \in Seq(Request) /\ answers' \in SUBSET (Uids \X Uids)
      BY <1>3, <1>4, <1>8, <2>2, DispatchTyped
    <3> QED
      BY <1>4, <1>5, <2>2, <3>1 DEF bot, roster, Kept
  <2> QED
    BY <1>12, <2>1, <2>2 DEF ChatSay, PrivateMessage, m
<1>13. CASE UserStatus
  <2>1. nickOf' \in [Uids -> Nicks \cup {SelfNick}]
    BY <1>3, <1>4, <1>13 DEF UserStatus, m
  <2> QED
    BY <1>4, <1>5, <1>13, <2>1 DEF UserStatus, history, Kept
<1>14. CASE Unhandled
  BY <1>7, <1>14 DEF Unhandled
<1>15. CASE ChatCreated
  <2> DEFINE join == [op |-> "join_chat", chat |-> m.chat, user |-> Self]
             invite == [op |-> "invite_user", chat |-> m.chat, user |-> inviteUid]
  <2>1. /\ array' \in [Chats -> Seq(Uids)] /\ dict' \in [Chats -> SUBSET Uids]
        /\ chats' \in SUBSET Chats /\ Kept'
    BY <1>3, <1>15, AddChatTyped DEF ChatCreated, m
  <2>2. /\ join \in Request /\ Append(toServer, join) \in Seq(Request)
        /\ invite \in Request
    BY <1>3, <1>4, AskTyped DEF Uids
  <2>3. \/ toServer' = Append(toServer, join) /\ UNCHANGED invites
        \/ /\ inviteUid # NoUser /\ toServer' = toServer \o <<join, invite>>
           /\ invites' = invites \cup {<<m.chat, inviteUid>>}
    BY <1>15 DEF ChatCreated, m
  <2>4. inviteUid # NoUser => <<m.chat, inviteUid>> \in Chats \X Uids
    BY <1>3, <1>4
  <2> HIDE DEF join, invite
  <2>5. toServer' \in Seq(Request)
    <3> DEFINE pair == <<join, invite>>
    <3>1. pair \in Seq(Request)
      BY <2>2
    <3>2. toServer' = Append(toServer, join) \/ toServer' = toServer \o pair
      BY <2>3
    <3> HIDE DEF pair
    <3>3. toServer \o pair \in Seq(Request)
      BY <1>4, <3>1
    <3> QED
      BY <2>2, <3>2, <3>3
  <2>6. invites' \in SUBSET (Chats \X Uids)
    BY <1>4, <2>3, <2>4
  <2>7. UNCHANGED <<link, fault, nickOf, answers, wanted>> /\ inviteUid' = NoUser
    BY <1>15 DEF ChatCreated
  <2> QED
    BY <1>4, <1>5, <2>1, <2>5, <2>6, <2>7
<1>16. CASE Invitation
  <2>1. UNCHANGED <<link, fault, inviteUid, nickOf, history>>
    BY <1>16 DEF Invitation, roster
  <2>2. CASE UNCHANGED <<roster, toServer>>
    BY <1>7, <2>1, <2>2 DEF bot, roster
  <2>3. CASE /\ AddChat(m.chat)
             /\ toServer' = Append(toServer, [op |-> "join_chat", chat |-> m.chat, user |-> Self])
    <3>1. /\ array' \in [Chats -> Seq(Uids)] /\ dict' \in [Chats -> SUBSET Uids]
          /\ chats' \in SUBSET Chats /\ Kept'
      BY <1>3, <2>3, AddChatTyped
    <3>2. toServer' \in Seq(Request)
      BY <1>3, <2>3, AskTyped DEF Uids
    <3> QED
      BY <1>4, <1>5, <2>1, <3>1, <3>2 DEF history
  <2> QED
    BY <1>16, <2>2, <2>3 DEF Invitation, m
<1> QED
  BY <1>9, <1>10, <1>11, <1>12, <1>13, <1>14, <1>15, <1>16 DEF Handle

(* Every reachable state is well typed: /msg always finds a receiver, and no *)
(* list is shorter than the dictionary next to it.                          *)
THEOREM TypeCorrect == Spec => []TypeOK
<1>1. Init => TypeOK /\ Kept
  <2> SUFFICES ASSUME Init PROVE TypeOK /\ Kept
    OBVIOUS
  <2>1. PICK s \in SUBSET Users : members = [Empty EXCEPT ![Public] = s]
    BY DEF Init
  <2>2. members \in [Chats -> SUBSET Uids]
    BY <2>1 DEF Empty, Uids
  <2> QED
    BY <2>2, ChatsAssumption DEF Init, TypeOK, Kept, Empty, NoArrays, Uids
<1>2. TypeOK /\ Kept /\ [Next]_vars => TypeOK' /\ Kept'
  <2> SUFFICES ASSUME TypeOK, Kept, [Next]_vars PROVE TypeOK' /\ Kept'
    OBVIOUS
  <2>1. CASE Act \/ KickOne
    <3>1. UNCHANGED bot
      BY <2>1 DEF Act, KickOne, Join, Leave, Say, OpenChat, Invite, Rename, Write, Kick
    <3> QED
      BY <2>1, <3>1, ActTyped DEF bot, roster, Kept
  <2>2. CASE Serve
    <3>1. UNCHANGED bot
      BY <2>2 DEF Serve, ServeJoin, ServeCreate, RefuseCreate, ServeOther
    <3> QED
      BY <2>2, <3>1, ServeTyped DEF bot, roster, Kept
  <2>3. CASE Handle
    BY <2>3, HandleTyped
  <2>4. ASSUME NEW u \in dict[Public] \cup {NoUser}, PrivChat(u)
        PROVE  TypeOK' /\ Kept'
    <3>1. u \in Uids \cup {NoUser}
      BY ChatsAssumption DEF TypeOK
    <3>2. toServer' \in Seq(Request)
      BY <2>4, <3>1, AskTyped, ChatsAssumption DEF PrivChat
    <3>3. inviteUid' \in Uids \cup {NoUser} /\ events' \in Nat
      BY <2>4, <3>1 DEF PrivChat, Event, TypeOK
    <3> QED
      BY <2>4, <3>2, <3>3 DEF PrivChat, TypeOK, Kept, serverVars, roster, history
  <2>5. CASE PrivChatUnknown
    BY <2>5 DEF PrivChatUnknown, Crash, Event, TypeOK, Kept, serverVars, roster, history
  <2>6. CASE Connect
    <3> DEFINE join == [op |-> "join_chat", chat |-> Public, user |-> Self]
    <3>1. join \in Request
      BY ChatsAssumption DEF Request, Uids
    <3> HIDE DEF join
    <3>2. toServer' \in Seq(Request)
      BY <2>6, <3>1 DEF Connect, join
    <3> QED
      BY <2>6, <3>2 DEF Connect, TypeOK, Kept, serverVars, roster, history
  <2>7. CASE LoseConnection
    <3>1. /\ members' \in [Chats -> SUBSET Uids] /\ losses' \in Nat
          /\ toServer' \in Seq(Request) /\ toBot' \in Seq(Message)
      BY <2>7 DEF LoseConnection, TypeOK
    <3>2. /\ array' \in [Chats -> Seq(Uids)] /\ dict' \in [Chats -> SUBSET Uids]
          /\ chats' \in SUBSET Chats /\ inviteUid' \in Uids \cup {NoUser} /\ Kept'
      BY <2>7, ChatsAssumption DEF LoseConnection, Clear, NoArrays, Empty, Kept
    <3> QED
      BY <2>7, <3>1, <3>2 DEF LoseConnection, TypeOK, history
  <2>8. CASE UNCHANGED vars
    BY <2>8 DEF vars, TypeOK, Kept, serverVars, bot, roster, history
  <2> QED
    BY <2>1, <2>2, <2>3, <2>4, <2>5, <2>6, <2>7, <2>8 DEF Next
<1> QED
  BY <1>1, <1>2, PTL DEF Spec

-----------------------------------------------------------------------------
(* Following the server. *)

Adds(c, u)    == {m \in Message : /\ m.type \in {"user_list", "user_join"}
                                  /\ m.chat = c /\ m.user = u}
Removes(c, u) == {m \in Message : m.type = "user_leave" /\ m.chat = c /\ m.user = u}
Opens(c)      == {m \in Message : m.type \in {"invitation", "chat_created"} /\ m.chat = c}
Names(u)      == {m \in Message : /\ \/ m.type \in {"user_list", "user_join"} /\ m.chat = Public
                                     \/ m.type = "user_status"
                                  /\ m.user = u}

(* Nobody is on a chat that does not exist, and nobody speaks of it. *)
ExistInv ==
  /\ Public \in created
  /\ \A c \in Chats : c \notin created => members[c] = {}
  /\ \A i \in DOMAIN toServer : toServer[i].op = "join_chat" => toServer[i].chat \in created
  /\ \A c \in Chats, i \in DOMAIN toBot : toBot[i] \in Opens(c) => c \in created

(* What a step of the server tells the bot: who is new on a chat it is on,   *)
(* who left, what a user is called now, and of a chat it is not on yet that  *)
(* it may come.                                                             *)
Told(M) ==
  /\ \A m, n \in M : m.chat = n.chat /\ m.type = n.type
  /\ nick' # nick => \A m, n \in M : m = n
  /\ \A c \in Chats : Self \in members[c] => Self \in members'[c]
  /\ \A c \in Chats, u \in Uids :
       /\ {Self, u} \subseteq members'[c] /\ ~({Self, u} \subseteq members[c])
            => \E m \in M : m \in Adds(c, u)
       /\ {Self, u} \subseteq members[c] /\ u \notin members'[c]
            => \E m \in M : m \in Removes(c, u)
       /\ \A m \in M : m \in Adds(c, u) =>
            {Self, u} \subseteq members'[c] /\ ~({Self, u} \subseteq members[c])
       /\ \A m \in M : m \in Removes(c, u) =>
            {Self, u} \subseteq members[c] /\ u \notin members'[c]
       /\ \A m, n \in M : m \in Adds(c, u) /\ n \in Adds(c, u) => m = n
  /\ \A c \in Chats : \A m \in M : m \in Opens(c) =>
       Self \notin members[c] /\ Self \notin members'[c] /\ c \in created'
  /\ \A u \in Uids :
       /\ nick'[u] # nick[u] /\ Self \in members'[Public] => \E m \in M : m \in Names(u)
       /\ \A m \in M : m \in Names(u) => m.nick = nick'[u] /\ {Self, u} \subseteq members'[Public]

(* The messages of M are one of this kind, about u. *)
OneOf(M, type, c, u) ==
  \E m \in Message : /\ M = {m} /\ m.type = type /\ m.chat = c /\ m.user = u
                     /\ m.nick = nick'[u]

LEMMA SentExtends ==
  ASSUME TypeOK, nick' \in [Uids -> Nicks \cup {SelfNick}],
         NEW type \in Types, NEW c \in Chats, NEW u \in Uids, toBot' = Sent(type, c, u)
  PROVE  \E M \in SUBSET Message : Extends(toBot, toBot', M) /\ OneOf(M, type, c, u)
<1> DEFINE m == [type |-> type, chat |-> c, user |-> u, nick |-> nick'[u]]
<1>1. m \in Message /\ m.type = type /\ m.chat = c /\ m.user = u /\ m.nick = nick'[u]
  BY DEF Message
<1> HIDE DEF m
<1>2. IsSeq(toBot)
  BY DEF TypeOK, IsSeq
<1>3. Extends(toBot, toBot', {m})
  BY <1>2, ExtendingByOne DEF Sent, m
<1>4. OneOf({m}, type, c, u)
  BY <1>1 DEF OneOf
<1>5. {m} \in SUBSET Message
  BY <1>1
<1> DEFINE M == {m}
<1> HIDE DEF M
<1>6. Extends(toBot, toBot', M) /\ OneOf(M, type, c, u) /\ M \in SUBSET Message
  BY <1>3, <1>4, <1>5 DEF M
<1> QED
  BY <1>6

LEMMA NothingTold ==
  ASSUME TypeOK, UNCHANGED toBot
  PROVE  Extends(toBot, toBot', {})
BY ExtendingByNone DEF TypeOK, IsSeq

LEMMA TellExtends ==
  ASSUME TypeOK, nick' \in [Uids -> Nicks \cup {SelfNick}],
         NEW type \in Types, NEW c \in Chats, NEW u \in Uids, Tell(type, c, u)
  PROVE  \E M \in SUBSET Message :
           /\ Extends(toBot, toBot', M)
           /\ IF Self \in members[c] THEN OneOf(M, type, c, u) ELSE M = {}
<1>1. CASE Self \in members[c]
  <2>1. toBot' = Sent(type, c, u)
    BY <1>1 DEF Tell
  <2> QED
    BY <1>1, <2>1, SentExtends
<1>2. CASE Self \notin members[c]
  BY <1>2, NothingTold DEF Tell
<1> QED
  BY <1>1, <1>2

LEMMA ActTells ==
  ASSUME TypeOK, ExistInv, Kicks = FALSE, Act \/ KickOne
  PROVE  \E M \in SUBSET Message : Extends(toBot, toBot', M) /\ Told(M)
<1>1. /\ members \in [Chats -> SUBSET Uids]
      /\ nick \in [Uids -> Nicks \cup {SelfNick}]
      /\ Self \notin Users /\ Users \subseteq Uids /\ Self \in Uids /\ Public \in Chats
      /\ \A u \in Users : u \in Uids /\ u # Self
  BY UsersAssumption, ChatsAssumption DEF TypeOK, Uids
<1>2. ASSUME NEW c \in Chats, NEW u \in Users, NEW n \in Nicks, Join(c, u, n)
      PROVE  \E M \in SUBSET Message : Extends(toBot, toBot', M) /\ Told(M)
  <2>1. /\ u \notin members[c] /\ members' = [members EXCEPT ![c] = @ \cup {u}]
        /\ nick' = [nick EXCEPT ![u] = n]
        /\ nick' \in [Uids -> Nicks \cup {SelfNick}] /\ u \in Uids /\ u # Self
        /\ c # Public => nick' = nick
        /\ Tell("user_join", c, u) /\ "user_join" \in Types
    BY <1>1, <1>2 DEF Join, Types
  <2>2. PICK M \in SUBSET Message :
          /\ Extends(toBot, toBot', M)
          /\ IF Self \in members[c] THEN OneOf(M, "user_join", c, u) ELSE M = {}
    BY <2>1, TellExtends
  <2>3. Told(M)
    BY <1>1, <2>1, <2>2 DEF OneOf, Told, Adds, Removes, Opens, Names
  <2> QED
    BY <2>2, <2>3
<1>3. ASSUME NEW c \in Chats, NEW u \in Users, Leave(c, u)
      PROVE  \E M \in SUBSET Message : Extends(toBot, toBot', M) /\ Told(M)
  <2>1. /\ u \in members[c] /\ members' = [members EXCEPT ![c] = @ \ {u}]
        /\ nick' = nick /\ u \in Uids /\ u # Self
        /\ nick' \in [Uids -> Nicks \cup {SelfNick}]
        /\ Tell("user_leave", c, u) /\ "user_leave" \in Types
    BY <1>1, <1>3 DEF Leave, Types
  <2>2. PICK M \in SUBSET Message :
          /\ Extends(toBot, toBot', M)
          /\ IF Self \in members[c] THEN OneOf(M, "user_leave", c, u) ELSE M = {}
    BY <2>1, TellExtends
  <2>3. Told(M)
    BY <1>1, <2>1, <2>2 DEF OneOf, Told, Adds, Removes, Opens, Names
  <2> QED
    BY <2>2, <2>3
<1>4. ASSUME NEW u \in Users, NEW n \in Nicks, Rename(u, n)
      PROVE  \E M \in SUBSET Message : Extends(toBot, toBot', M) /\ Told(M)
  <2>1. /\ u \in members[Public] /\ members' = members /\ u \in Uids
        /\ nick' = [nick EXCEPT ![u] = n]
        /\ nick' \in [Uids -> Nicks \cup {SelfNick}]
        /\ Tell("user_status", Public, u) /\ "user_status" \in Types
    BY <1>1, <1>4 DEF Rename, Types
  <2>2. PICK M \in SUBSET Message :
          /\ Extends(toBot, toBot', M)
          /\ IF Self \in members[Public] THEN OneOf(M, "user_status", Public, u) ELSE M = {}
    BY <1>1, <2>1, TellExtends
  <2>3. Told(M)
    BY <1>1, <2>1, <2>2 DEF OneOf, Told, Adds, Removes, Opens, Names
  <2> QED
    BY <2>2, <2>3
<1>5. ASSUME NEW c \in Chats, NEW u \in Users, Say(c, u)
      PROVE  \E M \in SUBSET Message : Extends(toBot, toBot', M) /\ Told(M)
  <2>1. /\ members' = members /\ nick' = nick /\ u \in Uids
        /\ nick' \in [Uids -> Nicks \cup {SelfNick}]
        /\ Tell("chat_say", c, u) /\ "chat_say" \in Types
    BY <1>1, <1>5 DEF Say, Types
  <2>2. PICK M \in SUBSET Message :
          /\ Extends(toBot, toBot', M)
          /\ IF Self \in members[c] THEN OneOf(M, "chat_say", c, u) ELSE M = {}
    BY <2>1, TellExtends
  <2>3. Told(M)
    BY <1>1, <2>1, <2>2 DEF OneOf, Told, Adds, Removes, Opens, Names
  <2> QED
    BY <2>2, <2>3
<1>6. ASSUME NEW c \in Chats, NEW u \in Users, OpenChat(c, u)
      PROVE  \E M \in SUBSET Message : Extends(toBot, toBot', M) /\ Told(M)
  <2>1. /\ members' = [members EXCEPT ![c] = {u}] /\ nick' = nick /\ u # Self
        /\ members[c] = {}
    BY <1>1, <1>6 DEF OpenChat, ExistInv
  <2>2. Extends(toBot, toBot', {})
    BY <1>6, NothingTold DEF OpenChat
  <2>3. Told({})
    BY <1>1, <2>1 DEF Told
  <2> QED
    BY <2>2, <2>3
<1>7. ASSUME NEW c \in Chats, NEW u \in Users, Invite(c, u)
      PROVE  \E M \in SUBSET Message : Extends(toBot, toBot', M) /\ Told(M)
  <2>1. /\ members' = members /\ nick' = nick /\ created' = created /\ u \in Uids
        /\ nick' \in [Uids -> Nicks \cup {SelfNick}]
        /\ Self \notin members[c] /\ c \in created
        /\ toBot' = Sent("invitation", c, u) /\ "invitation" \in Types
    BY <1>1, <1>7 DEF Invite, ExistInv, Types
  <2>2. PICK M \in SUBSET Message : Extends(toBot, toBot', M) /\ OneOf(M, "invitation", c, u)
    BY <2>1, SentExtends
  <2>3. Told(M)
    BY <1>1, <2>1, <2>2 DEF OneOf, Told, Adds, Removes, Opens, Names
  <2> QED
    BY <2>2, <2>3
<1>8. ASSUME NEW u \in Users, NEW type \in {"message", "broadcast"}, Write(type, u)
      PROVE  \E M \in SUBSET Message : Extends(toBot, toBot', M) /\ Told(M)
  <2>1. /\ members' = members /\ nick' = nick /\ u \in Uids /\ type \in Types
        /\ nick' \in [Uids -> Nicks \cup {SelfNick}] /\ toBot' = Sent(type, Public, u)
    BY <1>1, <1>8 DEF Write, Types
  <2>2. PICK M \in SUBSET Message : Extends(toBot, toBot', M) /\ OneOf(M, type, Public, u)
    BY <1>1, <2>1, SentExtends
  <2>3. Told(M)
    BY <1>1, <2>1, <2>2 DEF OneOf, Told, Adds, Removes, Opens, Names
  <2> QED
    BY <2>2, <2>3
<1> QED
  BY <1>2, <1>3, <1>4, <1>5, <1>6, <1>7, <1>8 DEF Act, KickOne, Kick

LEMMA EachListed ==
  ASSUME NEW S \in SUBSET Uids, NEW s \in SetToSeqs(S), NEW u \in S
  PROVE  \E i \in DOMAIN s : s[i] = u
<1>1. IsFiniteSet(Uids)
  BY UsersAssumption, FS_AddElement DEF Uids
<1>2. IsFiniteSet(S) /\ Cardinality(S) \in Nat
  BY <1>1, FS_Subset, FS_CardinalityType
<1> DEFINE D == 1..Cardinality(S)
<1>3. s \in Injection(D, S) /\ DOMAIN s = D
  BY DEF SetToSeqs, Injection, IsInjective
<1>4. Cardinality(D) = Cardinality(S)
  BY <1>2, FS_Interval
<1>5. s \in Surjection(D, S)
  BY <1>2, <1>3, <1>4, FS_Injection
<1> QED
  BY <1>3, <1>5 DEF Surjection

LEMMA ServeTells ==
  ASSUME TypeOK, ExistInv, Serve
  PROVE  \E M \in SUBSET Message : Extends(toBot, toBot', M) /\ Told(M)
<1>1. /\ members \in [Chats -> SUBSET Uids] /\ Self \in Uids /\ Public \in Chats
      /\ nick \in [Uids -> Nicks \cup {SelfNick}]
      /\ IsSeq(toBot) /\ nick' = nick
  BY ChatsAssumption DEF TypeOK, Uids, IsSeq, Serve, ServeJoin, ServeCreate, RefuseCreate,
                         ServeOther, serverVars
<1>2. CASE UNCHANGED <<members, toBot>>
  <2>1. Extends(toBot, toBot', {})
    BY <1>2, NothingTold
  <2>2. Told({})
    BY <1>1, <1>2 DEF Told
  <2> QED
    BY <2>1, <2>2
<1>3. ASSUME NEW c \in Chats, ServeCreate(c)
      PROVE  \E M \in SUBSET Message : Extends(toBot, toBot', M) /\ Told(M)
  <2>1. /\ members' = members /\ members[c] = {} /\ c \in created'
        /\ nick' \in [Uids -> Nicks \cup {SelfNick}]
        /\ toBot' = Sent("chat_created", c, Self) /\ "chat_created" \in Types
    BY <1>1, <1>3 DEF ServeCreate, ExistInv, Types
  <2>2. PICK M \in SUBSET Message : /\ Extends(toBot, toBot', M)
                                    /\ OneOf(M, "chat_created", c, Self)
    BY <1>1, <2>1, SentExtends
  <2>3. Told(M)
    BY <1>1, <2>1, <2>2 DEF OneOf, Told, Adds, Removes, Opens, Names
  <2> QED
    BY <2>2, <2>3
<1>4. CASE ServeJoin /\ Self \notin members[Head(toServer).chat]
  <2> DEFINE c == Head(toServer).chat
  <2>1. c \in Chats
    <3>1. Head(toServer) \in Request
      BY <1>4 DEF ServeJoin, Takes, TypeOK
    <3> QED
      BY <3>1 DEF Request
  <2>2. members' = [members EXCEPT ![c] = @ \cup {Self}] /\ members'[c] \in SUBSET Uids
    BY <1>1, <1>4, <2>1 DEF ServeJoin
  <2>3. PICK s \in SetToSeqs(members'[c]) : toBot' = toBot \o Roll(c, s)
    BY <1>4 DEF ServeJoin, Roll
  <2> DEFINE r == Roll(c, s)
             M == {r[i] : i \in DOMAIN r}
  <2>4. r \in Seq(Message) /\ DOMAIN r = DOMAIN s
    BY <2>1, <2>2, <2>3, RollTyped
  <2>5. /\ \A i \in DOMAIN s : s[i] \in members'[c]
        /\ \A i, j \in DOMAIN s : s[i] = s[j] => i = j
        /\ \A u \in members'[c] : \E i \in DOMAIN s : s[i] = u
    <3>1. DOMAIN s = 1..Cardinality(members'[c])
      BY <2>2, <2>3, Listing
    <3>2. \A u \in members'[c] : \E i \in DOMAIN s : s[i] = u
      BY <2>2, <2>3, EachListed
    <3> QED
      BY <2>3, <3>1, <3>2 DEF SetToSeqs
  <2>6. \A i \in DOMAIN s : /\ r[i] \in Message /\ r[i].type = "user_list" /\ r[i].chat = c
                            /\ r[i].user = s[i] /\ r[i].nick = nick[s[i]]
    BY <2>4 DEF Roll
  <2> HIDE DEF r, c
  <2>7. /\ M \in SUBSET Message
        /\ \A m \in M : /\ m.type = "user_list" /\ m.chat = c /\ m.user \in members'[c]
                        /\ m.nick = nick[m.user]
        /\ \A m, n \in M : m.user = n.user => m = n
        /\ \A u \in members'[c] : \E m \in M : m.user = u
    BY <2>4, <2>5, <2>6
  <2>8. Extends(toBot, toBot', M)
    <3>1. IsSeq(r) /\ \A i, j \in DOMAIN r : r[i] = r[j] => i = j
      BY <2>4, <2>5, <2>6 DEF IsSeq
    <3> QED
      BY <1>1, <2>3, <3>1, ExtendingByList DEF r
  <2> HIDE DEF M
  <2>9. Told(M)
    <3> DEFINE old == members[c]
    <3>1. \A u \in Uids, d \in Chats : \A m \in M :
            /\ m \in Adds(d, u) <=> d = c /\ m.user = u
            /\ m \notin Removes(d, u) /\ m \notin Opens(d)
            /\ m \in Names(u) <=> c = Public /\ m.user = u
      BY <2>7 DEF Adds, Removes, Opens, Names
    <3>2. /\ Self \notin members[c] /\ Self \in members'[c] /\ members'[c] = members[c] \cup {Self}
          /\ \A d \in Chats : d # c => members'[d] = members[d]
      BY <1>1, <1>4, <2>1, <2>2 DEF c
    <3> QED
      BY <1>1, <2>1, <2>2, <2>7, <3>1, <3>2 DEF Told
  <2> QED
    BY <2>7, <2>8, <2>9
<1> QED
  BY <1>2, <1>3, <1>4 DEF Serve, ServeJoin, RefuseCreate, ServeOther, serverVars

(* Read to its end, the channel leads the bot to what the server has.        *)
Follows(c, u) ==
  IF Self \in members[c]
    THEN IF u \in members[c]
           THEN Undone(toBot, Removes(c, u), Adds(c, u), u, Uids \ dict[c])
           ELSE Undone(toBot, Adds(c, u), Removes(c, u), u, dict[c])
    ELSE Undone(toBot, Adds(c, u), {}, u, dict[c])

(* A user is entered again only after it was taken out. *)
OnceEach(c, u) == UndoneBefore(toBot, Adds(c, u), Removes(c, u), Adds(c, u), u, dict[c])

(* A chat that is entered anew has no users yet. *)
OpensEmpty(c, u) == UndoneBefore(toBot, Adds(c, u), {}, Opens(c), u, dict[c])

Misnamed(n) == {v \in dict[Public] : nickOf[v] # n}
Rightly(u)  == {m \in Names(u) : m.nick = nick[u]}
Wrongly(u)  == {m \in Names(u) : m.nick # nick[u]}

(* The last that the bot hears of a user's nick is the nick. *)
Calls(u) ==
  IF Self \in members[Public]
    THEN Undone(toBot, Wrongly(u), Rightly(u), u, Misnamed(nick[u]))
    ELSE Undone(toBot, Names(u), {}, u, dict[Public])

FollowInv ==
  \A c \in Chats, u \in Uids : Follows(c, u) /\ OnceEach(c, u) /\ OpensEmpty(c, u) /\ Calls(u)

LEMMA UndoneLess ==
  ASSUME NEW s, NEW A, NEW B, NEW R, NEW x, NEW D, NEW E,
         Undone(s, A, {}, x, D), B \subseteq A, E \subseteq D
  PROVE  Undone(s, B, R, x, E)
BY DEF Undone

LEMMA ServerFollowed ==
  ASSUME TypeOK, FollowInv, UNCHANGED <<dict, nickOf>>,
         NEW M \in SUBSET Message, Extends(toBot, toBot', M), Told(M)
  PROVE  FollowInv'
<1> SUFFICES ASSUME NEW c \in Chats, NEW u \in Uids
             PROVE  Follows(c, u)' /\ OnceEach(c, u)' /\ OpensEmpty(c, u)' /\ Calls(u)'
  BY DEF FollowInv
<1>1. Follows(c, u) /\ OnceEach(c, u) /\ OpensEmpty(c, u) /\ Calls(u)
  BY DEF FollowInv
<1> DEFINE A == Adds(c, u)
           R == Removes(c, u)
<1>2. /\ Self \in members[c] => Self \in members'[c]
      /\ {Self, u} \subseteq members'[c] /\ ~({Self, u} \subseteq members[c])
           => \E m \in M : m \in A
      /\ {Self, u} \subseteq members[c] /\ u \notin members'[c] => \E m \in M : m \in R
      /\ \A m \in M : m \in A =>
           {Self, u} \subseteq members'[c] /\ ~({Self, u} \subseteq members[c])
      /\ \A m \in M : m \in R => {Self, u} \subseteq members[c] /\ u \notin members'[c]
      /\ \A m, n \in M : m \in A /\ n \in A => m = n
      /\ \A m \in M : m \in Opens(c) => Self \notin members[c] /\ Self \notin members'[c]
  BY DEF Told
<1> HIDE DEF A, R
<1>3. Follows(c, u)'
  <2>1. CASE {Self, u} \subseteq members'[c]
    <3>1. CASE {Self, u} \subseteq members[c]
      <4>1. Undone(toBot, R, A, u, Uids \ dict[c]) /\ \A m \in M : m \notin R
        BY <1>1, <1>2, <2>1, <3>1 DEF Follows, A, R
      <4>2. Undone(toBot', R, A, u, Uids \ dict[c])
        BY <4>1, KeptUndone
      <4> QED
        BY <2>1, <4>2 DEF Follows, A, R
    <3>2. CASE ~({Self, u} \subseteq members[c])
      <4>1. (\E m \in M : m \in A) /\ \A m \in M : m \notin R
        BY <1>2, <2>1, <3>2
      <4>2. Undone(toBot', R, A, u, Uids \ dict[c])
        BY <4>1, NowUndone
      <4> QED
        BY <2>1, <4>2 DEF Follows, A, R
    <3> QED
      BY <3>1, <3>2
  <2>2. CASE Self \in members'[c] /\ u \notin members'[c]
    <3>1. \A m \in M : m \notin A
      BY <1>2, <2>2
    <3>2. Undone(toBot', A, R, u, dict[c])
      <4>1. CASE {Self, u} \subseteq members[c]
        <5>1. \E m \in M : m \in R
          BY <1>2, <2>2, <4>1
        <5> QED
          BY <3>1, <5>1, NowUndone
      <4>2. CASE Self \in members[c] /\ u \notin members[c]
        <5>1. Undone(toBot, A, R, u, dict[c])
          BY <1>1, <4>2 DEF Follows, A, R
        <5> QED
          BY <3>1, <5>1, KeptUndone
      <4>3. CASE Self \notin members[c]
        <5>1. Undone(toBot, A, {}, u, dict[c])
          BY <1>1, <4>3 DEF Follows, A
        <5>2. Undone(toBot', A, {}, u, dict[c])
          BY <3>1, <5>1, KeptUndone
        <5> QED
          BY <5>2, UndoneLess
      <4> QED
        BY <4>1, <4>2, <4>3
    <3> QED
      BY <2>2, <3>2 DEF Follows, A, R
  <2>3. CASE Self \notin members'[c]
    <3>1. \A m \in M : m \notin A
      BY <1>2, <2>3
    <3>2. Undone(toBot, A, {}, u, dict[c])
      BY <1>1, <1>2, <2>3 DEF Follows, A
    <3>3. Undone(toBot', A, {}, u, dict[c])
      BY <3>1, <3>2, KeptUndone
    <3> QED
      BY <2>3, <3>3 DEF Follows, A
  <2> QED
    BY <2>1, <2>2, <2>3
<1>4. Self \notin members[c] => Undone(toBot, A, {}, u, dict[c])
  BY <1>1 DEF Follows, A
<1>5. OnceEach(c, u)'
  <2>1. (\E m \in M : m \in A) => Undone(toBot, A, R, u, dict[c])
    <3> SUFFICES ASSUME \E m \in M : m \in A PROVE Undone(toBot, A, R, u, dict[c])
      OBVIOUS
    <3>1. CASE Self \in members[c]
      BY <1>1, <1>2, <3>1 DEF Follows, A, R
    <3>2. CASE Self \notin members[c]
      BY <1>4, <3>2, UndoneLess
    <3> QED
      BY <3>1, <3>2
  <2>2. UndoneBefore(toBot, A, R, A, u, dict[c])
    BY <1>1 DEF OnceEach, A, R
  <2>3. \A m, n \in M : m \in A /\ n \in A => m = n
    BY <1>2
  <2>4. UndoneBefore(toBot', A, R, A, u, dict[c])
    BY <2>1, <2>2, <2>3, KeptUndoneBefore
  <2> QED
    BY <2>4 DEF OnceEach, A, R
<1>6. OpensEmpty(c, u)'
  <2> DEFINE O == Opens(c)
  <2>1. (\E m \in M : m \in O) => Undone(toBot, A, {}, u, dict[c])
    BY <1>2, <1>4
  <2>2. UndoneBefore(toBot, A, {}, O, u, dict[c])
    BY <1>1 DEF OpensEmpty, A
  <2>3. \A m, n \in M : m \in A /\ n \in O => m = n
    BY <1>2
  <2> HIDE DEF O
  <2>4. UndoneBefore(toBot', A, {}, O, u, dict[c])
    BY <2>1, <2>2, <2>3, KeptUndoneBefore
  <2> QED
    BY <2>4 DEF OpensEmpty, A, O
<1>7. Calls(u)'
  <2>1. /\ Self \in members[Public] => Self \in members'[Public]
        /\ nick'[u] # nick[u] /\ Self \in members'[Public] => \E m \in M : m \in Names(u)
        /\ \A m \in M : m \in Names(u) => m.nick = nick'[u] /\ Self \in members'[Public]
    BY ChatsAssumption DEF Told
  <2> DEFINE W == {m \in Names(u) : m.nick # nick'[u]}
             G == {m \in Names(u) : m.nick = nick'[u]}
             D == {v \in dict[Public] : nickOf[v] # nick'[u]}
             N == Names(u)
  <2>2. W = Wrongly(u)' /\ G = Rightly(u)' /\ D = Misnamed(nick[u])'
    BY DEF Wrongly, Rightly, Misnamed, Names
  <2>3. (\A m \in M : m \notin W) /\ W \subseteq N /\ D \subseteq dict[Public]
    BY <2>1
  <2>4. (\E m \in M : m \in N) => \E m \in M : m \in G
    BY <2>1
  <2>5. nick'[u] = nick[u] => W = Wrongly(u) /\ G = Rightly(u) /\ D = Misnamed(nick[u])
    BY DEF Wrongly, Rightly, Misnamed
  <2>6. (\E m \in M : m \in N) => Self \in members'[Public]
    BY <2>1
  <2>7. nick'[u] # nick[u] /\ Self \in members'[Public] => \E m \in M : m \in N
    BY <2>1
  <2> HIDE DEF W, G, D, N
  <2>8. CASE Self \in members'[Public]
    <3>1. Undone(toBot', W, G, u, D)
      <4>1. CASE \E m \in M : m \in N
        BY <2>3, <2>4, <4>1, NowUndone
      <4>2. CASE ~(\E m \in M : m \in N) /\ Self \in members[Public]
        <5>1. Undone(toBot, W, G, u, D)
          BY <1>1, <2>5, <2>7, <2>8, <4>2 DEF Calls
        <5> QED
          BY <2>3, <5>1, KeptUndone
      <4>3. CASE ~(\E m \in M : m \in N) /\ Self \notin members[Public]
        <5>1. Undone(toBot, N, {}, u, dict[Public])
          BY <1>1, <4>3 DEF Calls, N
        <5>2. Undone(toBot', N, {}, u, dict[Public])
          BY <4>3, <5>1, KeptUndone
        <5> QED
          BY <2>3, <5>2, UndoneLess
      <4> QED
        BY <4>1, <4>2, <4>3
    <3> QED
      BY <2>2, <2>8, <3>1 DEF Calls
  <2>9. CASE Self \notin members'[Public]
    <3>1. (\A m \in M : m \notin N) /\ Self \notin members[Public]
      BY <2>1, <2>6, <2>9
    <3>2. Undone(toBot, N, {}, u, dict[Public])
      BY <1>1, <3>1 DEF Calls, N
    <3>3. Undone(toBot', N, {}, u, dict[Public])
      BY <3>1, <3>2, KeptUndone
    <3> QED
      BY <2>9, <3>3 DEF Calls, N
  <2> QED
    BY <2>8, <2>9
<1> QED
  BY <1>3, <1>5, <1>6, <1>7

(* What reading the first message does to the rosters, unless it ends the    *)
(* process.                                                                 *)
Reads ==
  /\ toBot # <<>> /\ toBot' = Tail(toBot) /\ UNCHANGED serverVars
  /\ dict' \in [Chats -> SUBSET Uids]
  /\ \A c \in Chats, u \in Uids :
       u \in dict'[c] <=> \/ toBot[1] \in Adds(c, u)
                          \/ u \in dict[c] /\ toBot[1] \notin Removes(c, u)
  /\ \A u \in dict'[Public] :
       nickOf'[u] = IF toBot[1] \in Names(u) THEN toBot[1].nick ELSE nickOf[u]

LEMMA Unread ==
  ASSUME TypeOK, FollowInv, toBot # <<>>
  PROVE  /\ toBot[1] \in Message /\ Head(toBot) = toBot[1]
         /\ \A c \in Chats, u \in Uids :
              toBot[1] \in Adds(c, u) \/ toBot[1] \in Opens(c) => u \notin dict[c]
<1>1. IsSeq(toBot) /\ toBot[1] \in Message /\ Head(toBot) = toBot[1]
  BY DEF TypeOK, IsSeq
<1>2. ASSUME NEW c \in Chats, NEW u \in Uids
      PROVE  toBot[1] \in Adds(c, u) \/ toBot[1] \in Opens(c) => u \notin dict[c]
  <2> DEFINE A == Adds(c, u)
             R == Removes(c, u)
             O == Opens(c)
  <2>1. UndoneBefore(toBot, A, R, A, u, dict[c]) /\ UndoneBefore(toBot, A, {}, O, u, dict[c])
    BY DEF FollowInv, OnceEach, OpensEmpty
  <2> HIDE DEF A, R, O
  <2>2. toBot[1] \in A => u \notin dict[c]
    BY <1>1, <2>1, FirstUndone
  <2>3. toBot[1] \in O => u \notin dict[c]
    BY <1>1, <2>1, FirstUndone
  <2> QED
    BY <2>2, <2>3 DEF A, O
<1> QED
  BY <1>1, <1>2

LEMMA OpeningKeeps ==
  ASSUME TypeOK, FollowInv, toBot # <<>>, NEW c \in Chats, toBot[1] \in Opens(c), AddChat(c)
  PROVE  dict[c] = {} /\ dict' = dict
<1>1. dict \in [Chats -> SUBSET Uids]
  BY DEF TypeOK
<1>2. dict[c] = {}
  BY <1>1, Unread
<1> QED
  BY <1>1, <1>2 DEF AddChat

LEMMA HandleReads ==
  ASSUME TypeOK, FollowInv, Handle, link' # "crashed"
  PROVE  Reads
<1>1. toBot # <<>> /\ toBot' = Tail(toBot) /\ UNCHANGED serverVars
  BY DEF Handle, UserList, UserJoin, UserLeave, ChatSay, PrivateMessage, UserStatus, Unhandled,
         ChatCreated, Invitation, Receives
<1> DEFINE m == toBot[1]
<1>2. m \in Message /\ Head(toBot) = m
  BY <1>1, Unread
<1> HIDE DEF m
<1>3. /\ m.chat \in Chats /\ m.user \in Uids /\ Public \in Chats
      /\ dict \in [Chats -> SUBSET Uids]
      /\ nickOf \in [Uids -> Nicks \cup {SelfNick}]
  BY <1>2, ChatsAssumption DEF Message, TypeOK
<1>4. \A c \in Chats, u \in Uids :
        /\ m \in Adds(c, u) <=> m.type \in {"user_list", "user_join"} /\ m.chat = c /\ m.user = u
        /\ m \in Removes(c, u) <=> m.type = "user_leave" /\ m.chat = c /\ m.user = u
        /\ m \in Names(u) <=> /\ \/ m.type \in {"user_list", "user_join"} /\ m.chat = Public
                                 \/ m.type = "user_status"
                              /\ m.user = u
  BY <1>2 DEF Adds, Removes, Names
<1>5. ASSUME dict' \in [Chats -> SUBSET Uids],
             \A c \in Chats, u \in Uids :
               u \in dict'[c] <=> m \in Adds(c, u) \/ (u \in dict[c] /\ m \notin Removes(c, u)),
             \A u \in dict'[Public] :
               nickOf'[u] = IF m \in Names(u) THEN m.nick ELSE nickOf[u]
      PROVE  Reads
  BY <1>1, <1>5 DEF Reads, m
<1>6. ASSUME AddUser(m.chat, m.user, m.nick), m.type \in {"user_list", "user_join"}
      PROVE  Reads
  <2>1. dict' = [dict EXCEPT ![m.chat] = @ \cup {m.user}]
    BY <1>6 DEF AddUser
  <2>2. dict' \in [Chats -> SUBSET Uids]
    BY <1>3, <2>1
  <2>3. \A c \in Chats, u \in Uids :
          u \in dict'[c] <=> m \in Adds(c, u) \/ (u \in dict[c] /\ m \notin Removes(c, u))
    BY <1>3, <1>4, <1>6, <2>1
  <2>4. \A u \in dict'[Public] : nickOf'[u] = IF m \in Names(u) THEN m.nick ELSE nickOf[u]
    BY <1>3, <1>4, <1>6, <2>2 DEF AddUser
  <2> QED
    BY <1>5, <2>2, <2>3, <2>4
<1>7. ASSUME UNCHANGED <<dict, nickOf>>,
             m.type \notin {"user_list", "user_join", "user_leave", "user_status"}
      PROVE  Reads
  BY <1>3, <1>4, <1>5, <1>7
<1>8. CASE UserList \/ UserJoin
  <2>1. m.type \in {"user_list", "user_join"} /\ AddUser(m.chat, m.user, m.nick)
    BY <1>2, <1>8 DEF UserList, UserJoin, Receives, Crash
  <2> QED
    BY <1>6, <2>1
<1>9. CASE UserLeave
  <2>1. /\ m.type = "user_leave" /\ nickOf' = nickOf
        /\ \/ m.user \notin dict[m.chat] /\ dict' = dict
           \/ dict' = [dict EXCEPT ![m.chat] = @ \ {m.user}]
    BY <1>2, <1>9 DEF UserLeave, Receives, Crash, RemoveUser, bot, roster
  <2>2. dict' \in [Chats -> SUBSET Uids]
    BY <1>3, <2>1
  <2>3. \A c \in Chats, u \in Uids :
          u \in dict'[c] <=> m \in Adds(c, u) \/ (u \in dict[c] /\ m \notin Removes(c, u))
    BY <1>3, <1>4, <2>1
  <2>4. \A u \in dict'[Public] : nickOf'[u] = IF m \in Names(u) THEN m.nick ELSE nickOf[u]
    BY <1>3, <1>4, <2>1, <2>2
  <2> QED
    BY <1>5, <2>2, <2>3, <2>4
<1>10. CASE UserStatus
  <2>1. /\ m.type = "user_status" /\ dict' = dict
        /\ nickOf' = IF m.user \in dict[Public] THEN [nickOf EXCEPT ![m.user] = m.nick]
                                                ELSE nickOf
    BY <1>2, <1>10 DEF UserStatus, Receives
  <2>2. \A u \in dict'[Public] : nickOf'[u] = IF m \in Names(u) THEN m.nick ELSE nickOf[u]
    BY <1>3, <1>4, <2>1
  <2> QED
    BY <1>3, <1>4, <1>5, <2>1, <2>2
<1>11. CASE ChatSay \/ PrivateMessage \/ Unhandled
  BY <1>2, <1>7, <1>11 DEF ChatSay, PrivateMessage, Unhandled, Receives, Crash, bot, roster
<1>12. CASE ChatCreated \/ Invitation
  <2>1. m.type \in {"chat_created", "invitation"} /\ nickOf' = nickOf /\ m \in Opens(m.chat)
    BY <1>2, <1>12 DEF ChatCreated, Invitation, Receives, roster, Opens
  <2>2. AddChat(m.chat) \/ UNCHANGED dict
    BY <1>2, <1>12 DEF ChatCreated, Invitation, roster
  <2>3. dict' = dict
    BY <1>1, <1>3, <2>1, <2>2, OpeningKeeps DEF m
  <2> QED
    BY <1>7, <2>1, <2>3
<1> QED
  BY <1>8, <1>9, <1>10, <1>11, <1>12 DEF Handle

LEMMA ReadingFollowed ==
  ASSUME TypeOK, FollowInv, Reads
  PROVE  FollowInv'
<1> SUFFICES ASSUME NEW c \in Chats, NEW u \in Uids
             PROVE  Follows(c, u)' /\ OnceEach(c, u)' /\ OpensEmpty(c, u)' /\ Calls(u)'
  BY DEF FollowInv
<1>1. Follows(c, u) /\ OnceEach(c, u) /\ OpensEmpty(c, u) /\ Calls(u)
  BY DEF FollowInv
<1> DEFINE A == Adds(c, u)
           R == Removes(c, u)
           O == Opens(c)
<1>2. /\ IsSeq(toBot) /\ toBot # <<>> /\ toBot' = Tail(toBot)
      /\ members' = members /\ nick' = nick
      /\ u \in dict'[c] <=> toBot[1] \in A \/ (u \in dict[c] /\ toBot[1] \notin R)
  BY DEF Reads, TypeOK, IsSeq, serverVars
<1> HIDE DEF A, R, O
<1>3. Follows(c, u)'
  <2>1. ASSUME Undone(toBot, R, A, u, Uids \ dict[c])
        PROVE  Undone(toBot', R, A, u, Uids \ dict'[c])
    <3> DEFINE D == Uids \ dict[c]
               E == Uids \ dict'[c]
    <3>1. u \in E => toBot[1] \in R \/ (u \in D /\ toBot[1] \notin A)
      BY <1>2
    <3> HIDE DEF D, E
    <3>2. Undone(Tail(toBot), R, A, u, E)
      BY <1>2, <2>1, <3>1, ReadUndone DEF D
    <3> QED
      BY <1>2, <3>2 DEF E
  <2>2. ASSUME Undone(toBot, A, R, u, dict[c])
        PROVE  Undone(toBot', A, R, u, dict'[c])
    BY <1>2, <2>2, ReadUndone
  <2>3. ASSUME Undone(toBot, A, {}, u, dict[c])
        PROVE  Undone(toBot', A, {}, u, dict'[c])
    BY <1>2, <2>3, ReadUndone
  <2> QED
    BY <1>1, <1>2, <2>1, <2>2, <2>3 DEF Follows, A, R
<1>4. OnceEach(c, u)'
  <2>1. UndoneBefore(toBot, A, R, A, u, dict[c])
    BY <1>1 DEF OnceEach, A, R
  <2>2. UndoneBefore(Tail(toBot), A, R, A, u, dict'[c])
    BY <1>2, <2>1, ReadUndoneBefore
  <2> QED
    BY <1>2, <2>2 DEF OnceEach, A, R
<1>5. OpensEmpty(c, u)'
  <2>1. UndoneBefore(toBot, A, {}, O, u, dict[c])
    BY <1>1 DEF OpensEmpty, A, O
  <2>2. UndoneBefore(Tail(toBot), A, {}, O, u, dict'[c])
    BY <1>2, <2>1, ReadUndoneBefore
  <2> QED
    BY <1>2, <2>2 DEF OpensEmpty, A, O
<1>6. Calls(u)'
  <2> DEFINE n == nick[u]
             W == Wrongly(u)
             G == Rightly(u)
             D == Misnamed(n)
             E == {v \in dict'[Public] : nickOf'[v] # n}
             N == Names(u)
  <2>1. W' = W /\ G' = G /\ Misnamed(nick[u])' = E
    BY <1>2 DEF Wrongly, Rightly, Misnamed
  <2>2. u \in dict'[Public] => toBot[1] \in N \/ u \in dict[Public]
    BY ChatsAssumption DEF Reads, Adds, Names
  <2>3. u \in E => toBot[1] \in W \/ (u \in D /\ toBot[1] \notin G)
    BY <2>2 DEF Reads, Wrongly, Rightly, Misnamed
  <2> HIDE DEF W, G, D, E, N
  <2>4. ASSUME Undone(toBot, W, G, u, D)
        PROVE  Undone(toBot', W, G, u, E)
    BY <1>2, <2>3, <2>4, ReadUndone
  <2>5. ASSUME Undone(toBot, N, {}, u, dict[Public])
        PROVE  Undone(toBot', N, {}, u, dict'[Public])
    BY <1>2, <2>2, <2>5, ReadUndone
  <2> QED
    BY <1>1, <1>2, <2>1, <2>4, <2>5 DEF Calls, W, G, D, N
<1> QED
  BY <1>3, <1>4, <1>5, <1>6

-----------------------------------------------------------------------------
(* Nobody speaks of a chat that does not exist: every step keeps ExistInv.   *)
LEMMA ServerKeepsExisting ==
  ASSUME TypeOK, ExistInv, NEW M \in SUBSET Message, Extends(toBot, toBot', M), Told(M),
         created \subseteq created',
         \A c \in Chats : c \notin created' => members'[c] = {},
         \A i \in DOMAIN toServer' : \E k \in DOMAIN toServer : toServer'[i] = toServer[k]
  PROVE  ExistInv'
<1>1. Public \in created'
  BY DEF ExistInv
<1>2. \A i \in DOMAIN toServer' : toServer'[i].op = "join_chat" => toServer'[i].chat \in created'
  BY DEF ExistInv
<1>3. ASSUME NEW c \in Chats, NEW i \in DOMAIN toBot', toBot'[i] \in Opens(c)
      PROVE  c \in created'
  <2>1. CASE i \in DOMAIN toBot
    BY <1>3, <2>1 DEF ExistInv, Extends
  <2>2. CASE toBot'[i] \in M
    BY <1>3, <2>2 DEF Told
  <2> QED
    BY <2>1, <2>2 DEF Extends
<1>4. \A c \in Chats : Opens(c)' = Opens(c)
  BY DEF Opens
<1> QED
  BY <1>1, <1>2, <1>3, <1>4 DEF ExistInv

LEMMA ActKeepsExisting ==
  ASSUME TypeOK, ExistInv, Kicks = FALSE, Act \/ KickOne
  PROVE  ExistInv'
<1>1. PICK M \in SUBSET Message : Extends(toBot, toBot', M) /\ Told(M)
  BY ActTells
<1>2. toServer' = toServer /\ created \subseteq created'
  BY DEF Act, KickOne, Join, Leave, Say, OpenChat, Invite, Rename, Write, Kick
<1>3. \A c \in Chats : c \notin created' => members'[c] = {}
  <2>1. members \in [Chats -> SUBSET Uids] /\ \A c \in Chats : c \notin created => members[c] = {}
    BY DEF TypeOK, ExistInv
  <2>2. ASSUME NEW c \in Chats, NEW u \in Uids,
               \/ c \in created /\ members' = [members EXCEPT ![c] = @ \cup {u}]
               \/ members' = [members EXCEPT ![c] = @ \ {u}]
               \/ c \in created' /\ members' = [members EXCEPT ![c] = {u}]
               \/ members' = members
        PROVE  \A d \in Chats : d \notin created' => members'[d] = {}
    BY <1>2, <2>1, <2>2
  <2> QED
    BY <2>2, ChatsAssumption
       DEF Act, KickOne, Join, Leave, Say, OpenChat, Invite, Rename, Write, Kick, Uids
<1> QED
  BY <1>1, <1>2, <1>3, ServerKeepsExisting

LEMMA ServeKeepsExisting ==
  ASSUME TypeOK, ExistInv, Serve
  PROVE  ExistInv'
<1>1. PICK M \in SUBSET Message : Extends(toBot, toBot', M) /\ Told(M)
  BY ServeTells
<1>2. created \subseteq created' /\ toServer # <<>> /\ toServer' = Tail(toServer)
  BY DEF Serve, ServeJoin, ServeCreate, RefuseCreate, ServeOther, Takes, serverVars
<1>3. IsSeq(toServer)
  BY DEF TypeOK, IsSeq
<1>4. \A i \in DOMAIN toServer' : \E k \in DOMAIN toServer : toServer'[i] = toServer[k]
  BY <1>2, <1>3, Taking
<1>5. Head(toServer) = toServer[1] /\ 1 \in DOMAIN toServer
  BY <1>2, <1>3, Taking
<1>6. \A c \in Chats : c \notin created' => members'[c] = {}
  <2>1. CASE members' = members
    BY <1>2, <2>1 DEF ExistInv
  <2>2. CASE ServeJoin
    <3>1. Head(toServer).chat \in created
      BY <1>5, <2>2 DEF ServeJoin, Takes, ExistInv
    <3>2. \A c \in Chats : c # Head(toServer).chat => members'[c] = members[c]
      BY <2>2 DEF ServeJoin, TypeOK
    <3> QED
      BY <1>2, <3>1, <3>2 DEF ExistInv
  <2> QED
    BY <2>1, <2>2 DEF Serve, ServeCreate, RefuseCreate, ServeOther, serverVars
<1> QED
  BY <1>1, <1>2, <1>4, <1>6, ServerKeepsExisting

(* What the bot asks the server for. *)
LEMMA AskingKeepsExisting ==
  ASSUME TypeOK, ExistInv, UNCHANGED serverVars,
         \A i \in DOMAIN toBot' : \E k \in DOMAIN toBot : toBot'[i] = toBot[k],
         \A i \in DOMAIN toServer' :
           \/ i \in DOMAIN toServer /\ toServer'[i] = toServer[i]
           \/ toServer'[i].op = "join_chat" => toServer'[i].chat \in created
  PROVE  ExistInv'
<1>1. \A c \in Chats : Opens(c)' = Opens(c)
  BY DEF Opens
<1> QED
  BY <1>1 DEF ExistInv, serverVars

LEMMA HandleAsks ==
  ASSUME TypeOK, Handle
  PROVE  \/ toServer' = toServer
         \/ \E r : /\ toServer' = Append(toServer, r)
                   /\ r.op = "join_chat" => toBot[1] \in Opens(r.chat)
         \/ \E r, q : /\ toServer' = toServer \o <<r, q>>
                      /\ r.op = "join_chat" => toBot[1] \in Opens(r.chat)
                      /\ q.op # "join_chat"
<1>1. toBot # <<>>
  BY DEF Handle, UserList, UserJoin, UserLeave, ChatSay, PrivateMessage, UserStatus, Unhandled,
         ChatCreated, Invitation, Receives
<1>2. Head(toBot) = toBot[1] /\ toBot[1] \in Message
  BY <1>1 DEF TypeOK
<1>3. ASSUME NEW u, NEW s, NEW nicks, Dispatch(u, s, nicks)
      PROVE  \/ toServer' = toServer
             \/ \E r : toServer' = Append(toServer, r) /\ r.op # "join_chat"
  BY <1>3 DEF Dispatch
<1>4. CASE UserList \/ UserStatus \/ Unhandled
  BY <1>4 DEF UserList, UserStatus, Unhandled, Crash
<1>5. CASE UserJoin \/ UserLeave \/ ChatSay \/ PrivateMessage
  BY <1>3, <1>5 DEF UserJoin, UserLeave, ChatSay, PrivateMessage, Crash
<1>6. CASE ChatCreated
  <2>1. toBot[1] \in Opens(toBot[1].chat)
    BY <1>2, <1>6 DEF ChatCreated, Receives, Opens
  <2> DEFINE c == toBot[1].chat
             join == [op |-> "join_chat", chat |-> c, user |-> Self]
             invite == [op |-> "invite_user", chat |-> c, user |-> inviteUid]
  <2>2. \/ toServer' = Append(toServer, join)
        \/ toServer' = toServer \o <<join, invite>>
    BY <1>2, <1>6 DEF ChatCreated
  <2>3. join.chat = c /\ invite.op # "join_chat"
    OBVIOUS
  <2> HIDE DEF join, invite
  <2> QED
    BY <2>1, <2>2, <2>3
<1>7. CASE Invitation
  <2>1. toBot[1] \in Opens(toBot[1].chat)
    BY <1>2, <1>7 DEF Invitation, Receives, Opens
  <2> DEFINE join == [op |-> "join_chat", chat |-> toBot[1].chat, user |-> Self]
  <2>2. toServer' = toServer \/ toServer' = Append(toServer, join)
    BY <1>2, <1>7 DEF Invitation
  <2>3. join.chat = toBot[1].chat
    OBVIOUS
  <2> HIDE DEF join
  <2> QED
    BY <2>1, <2>2, <2>3
<1> QED
  BY <1>4, <1>5, <1>6, <1>7 DEF Handle

LEMMA HandleKeepsExisting ==
  ASSUME TypeOK, ExistInv, Handle
  PROVE  ExistInv'
<1>1. toBot # <<>> /\ toBot' = Tail(toBot) /\ UNCHANGED serverVars
  BY DEF Handle, UserList, UserJoin, UserLeave, ChatSay, PrivateMessage, UserStatus, Unhandled,
         ChatCreated, Invitation, Receives
<1>2. IsSeq(toBot) /\ IsSeq(toServer) /\ toBot[1] \in Message
  BY <1>1 DEF TypeOK, IsSeq
<1>3. /\ \A i \in DOMAIN toBot' : \E k \in DOMAIN toBot : toBot'[i] = toBot[k]
      /\ 1 \in DOMAIN toBot
  BY <1>1, <1>2, Taking
<1>4. ASSUME NEW c, toBot[1] \in Opens(c)
      PROVE  c \in created
  <2>1. c \in Chats
    BY <1>4 DEF Opens, Message
  <2> QED
    BY <1>3, <1>4, <2>1 DEF ExistInv
<1> DEFINE AsksForExisting ==
             \A i \in DOMAIN toServer' :
               \/ i \in DOMAIN toServer /\ toServer'[i] = toServer[i]
               \/ toServer'[i].op = "join_chat" => toServer'[i].chat \in created
<1>5. AsksForExisting
  <2>1. CASE toServer' = toServer
    BY <2>1
  <2>2. ASSUME NEW r, toServer' = Append(toServer, r),
               r.op = "join_chat" => toBot[1] \in Opens(r.chat)
        PROVE  AsksForExisting
    BY <1>2, <1>4, <2>2, Appending
  <2>3. ASSUME NEW r, NEW q, toServer' = toServer \o <<r, q>>,
               r.op = "join_chat" => toBot[1] \in Opens(r.chat),
               q.op # "join_chat"
        PROVE  AsksForExisting
    <3> DEFINE pair == <<r, q>>
    <3>1. pair \in Seq({r, q}) /\ toServer' = toServer \o pair
      BY <2>3
    <3>2. \A i \in DOMAIN <<r, q>> : <<r, q>>[i] \in {r, q}
      OBVIOUS
    <3>3. IsSeq(pair) /\ \A i \in DOMAIN pair : pair[i] \in {r, q}
      BY <3>1, <3>2 DEF IsSeq
    <3> HIDE DEF pair
    <3>4. \A i \in DOMAIN toServer' :
            \/ i \in DOMAIN toServer /\ toServer'[i] = toServer[i]
            \/ i - Len(toServer) \in DOMAIN pair /\ toServer'[i] = pair[i - Len(toServer)]
      BY <1>2, <3>1, <3>3, Joining
    <3> QED
      BY <1>4, <2>3, <3>3, <3>4
  <2> QED
    BY <2>1, <2>2, <2>3, HandleAsks
<1> QED
  BY <1>1, <1>3, <1>5, AskingKeepsExisting

LEMMA ExistKept ==
  ASSUME TypeOK, ExistInv, Kicks = FALSE, [Next]_vars
  PROVE  ExistInv'
<1>1. IsSeq(toServer)
  BY DEF TypeOK, IsSeq
<1>2. ASSUME UNCHANGED <<serverVars, toBot, toServer>>
      PROVE  ExistInv'
  BY <1>2, AskingKeepsExisting
<1>3. ASSUME NEW u, PrivChat(u)
      PROVE  ExistInv'
  <2>1. PICK r : toServer' = Append(toServer, r) /\ r.op # "join_chat"
    BY <1>3 DEF PrivChat
  <2>2. UNCHANGED <<serverVars, toBot>>
    BY <1>3 DEF PrivChat
  <2> QED
    BY <1>1, <2>1, <2>2, Appending, AskingKeepsExisting
<1>4. CASE Connect
  <2> DEFINE join == [op |-> "join_chat", chat |-> Public, user |-> Self]
  <2>1. toServer' = <<join>> /\ join.chat = Public /\ UNCHANGED <<serverVars, toBot>>
    BY <1>4 DEF Connect
  <2> HIDE DEF join
  <2>2. \A i \in DOMAIN toServer' : toServer'[i] = join
    BY <2>1
  <2> QED
    BY <2>1, <2>2, AskingKeepsExisting DEF ExistInv
<1>5. CASE LoseConnection
  <2>1. /\ members' = [c \in Chats |-> members[c] \ {Self}]
        /\ toBot' = <<>> /\ toServer' = <<>> /\ created' = created
    BY <1>5 DEF LoseConnection
  <2>2. \A c \in Chats : c \notin created' => members'[c] = {}
    BY <2>1 DEF ExistInv
  <2> QED
    BY <2>1, <2>2 DEF ExistInv
<1>6. CASE PrivChatUnknown \/ UNCHANGED vars
  BY <1>2, <1>6 DEF PrivChatUnknown, Crash, vars
<1> QED
  BY <1>3, <1>4, <1>5, <1>6, ActKeepsExisting, ServeKeepsExisting, HandleKeepsExisting DEF Next

-----------------------------------------------------------------------------
LEMMA FollowKept ==
  ASSUME TypeOK, ExistInv, Kicks = FALSE, link # "crashed" => FollowInv, [Next]_vars
  PROVE  link' # "crashed" => FollowInv'
<1> SUFFICES ASSUME link' # "crashed" PROVE FollowInv'
  OBVIOUS
<1>1. link # "crashed"
  BY DEF Next, Act, KickOne, Join, Leave, Say, OpenChat, Invite, Rename, Write, Kick, Serve,
         ServeJoin, ServeCreate, RefuseCreate, ServeOther, Handle, UserList, UserJoin,
         UserLeave, ChatSay, PrivateMessage, UserStatus, Unhandled, ChatCreated, Invitation,
         Receives, PrivChat, PrivChatUnknown, Connect, LoseConnection, vars, bot
<1>2. FollowInv
  BY <1>1
<1>3. CASE Act \/ KickOne
  <2>1. UNCHANGED <<dict, nickOf>>
    BY <1>3 DEF Act, KickOne, Join, Leave, Say, OpenChat, Invite, Rename, Write, Kick, bot, roster
  <2> QED
    BY <1>2, <1>3, <2>1, ActTells, ServerFollowed
<1>4. CASE Serve
  <2>1. UNCHANGED <<dict, nickOf>>
    BY <1>4 DEF Serve, ServeJoin, ServeCreate, RefuseCreate, ServeOther, bot, roster
  <2> QED
    BY <1>2, <1>4, <2>1, ServeTells, ServerFollowed
<1>5. CASE Handle
  BY <1>2, <1>5, HandleReads, ReadingFollowed
<1>6. ASSUME UNCHANGED <<members, nick, toBot, dict, nickOf>>
      PROVE  FollowInv'
  <2> SUFFICES ASSUME NEW c \in Chats, NEW u \in Uids
               PROVE  Follows(c, u)' /\ OnceEach(c, u)' /\ OpensEmpty(c, u)' /\ Calls(u)'
    BY DEF FollowInv
  <2>1. Follows(c, u) /\ OnceEach(c, u) /\ OpensEmpty(c, u) /\ Calls(u)
    BY <1>2 DEF FollowInv
  <2>2. /\ Wrongly(u)' = Wrongly(u) /\ Rightly(u)' = Rightly(u)
        /\ Misnamed(nick[u])' = Misnamed(nick[u])
    BY <1>6 DEF Wrongly, Rightly, Misnamed, Names
  <2>3. Calls(u)'
    BY <1>6, <2>1, <2>2 DEF Calls, Names
  <2> QED
    BY <1>6, <2>1, <2>3 DEF Follows, OnceEach, OpensEmpty, Adds, Removes, Opens
<1>7. CASE (\E u \in dict[Public] \cup {NoUser} : PrivChat(u)) \/ Connect
  BY <1>6, <1>7 DEF PrivChat, Connect, serverVars, roster
<1>8. CASE PrivChatUnknown
  BY <1>8 DEF PrivChatUnknown, Crash
<1>9. CASE LoseConnection
  <2>1. /\ toBot' = <<>> /\ dict' = [c \in Chats |-> {}]
        /\ \A c \in Chats : Self \notin members'[c]
    BY <1>9 DEF LoseConnection, Clear, Empty
  <2>2. \A A, R, B, x : Undone(<<>>, A, R, x, {}) /\ UndoneBefore(<<>>, A, R, B, x, {})
    BY DEF Undone, UndoneBefore
  <2>3. ASSUME NEW c \in Chats, NEW u \in Uids
        PROVE  Follows(c, u)' /\ OnceEach(c, u)' /\ OpensEmpty(c, u)' /\ Calls(u)'
    BY <2>1, <2>2, ChatsAssumption DEF Follows, OnceEach, OpensEmpty, Calls
  <2> QED
    BY <2>3 DEF FollowInv
<1>10. CASE UNCHANGED vars
  BY <1>6, <1>10 DEF vars, serverVars, bot, roster
<1> QED
  BY <1>3, <1>4, <1>5, <1>7, <1>8, <1>9, <1>10 DEF Next

(* What the bot has asked for stays asked for when it reads a message. *)
LEMMA HandleAppends ==
  ASSUME TypeOK, Handle
  PROVE  \A i \in DOMAIN toServer : i \in DOMAIN toServer' /\ toServer'[i] = toServer[i]
<1> DEFINE Stays == \A i \in DOMAIN toServer : i \in DOMAIN toServer' /\ toServer'[i] = toServer[i]
<1>1. IsSeq(toServer)
  BY DEF TypeOK, IsSeq
<1>2. CASE toServer' = toServer
  BY <1>2
<1>3. ASSUME NEW r, toServer' = Append(toServer, r)
      PROVE  Stays
  BY <1>1, <1>3, Appending
<1>4. ASSUME NEW r, NEW q, toServer' = toServer \o <<r, q>>
      PROVE  Stays
  <2> DEFINE pair == <<r, q>>
  <2>1. pair \in Seq({r, q}) /\ toServer' = toServer \o pair
    BY <1>4
  <2> HIDE DEF pair
  <2>2. IsSeq(pair)
    BY <2>1 DEF IsSeq
  <2> QED
    BY <1>1, <2>1, <2>2, Joining
<1> QED
  BY <1>2, <1>3, <1>4, HandleAsks

(* The bot is on every chat that it knows, or has asked to be let in. *)
Asks(c) == \E i \in DOMAIN toServer : toServer[i].op = "join_chat" /\ toServer[i].chat = c

JoinInv ==
  /\ link = "offline" => chats = {Public}
  /\ link = "online" => \A c \in chats : Self \in members[c] \/ Asks(c)

LEMMA AskedStays ==
  ASSUME TypeOK, NEW c, Asks(c),
         \A i \in DOMAIN toServer : i \in DOMAIN toServer' /\ toServer'[i] = toServer[i]
  PROVE  Asks(c)'
BY DEF Asks

LEMMA JoinKept ==
  ASSUME TypeOK, ExistInv, Kicks = FALSE, JoinInv, [Next]_vars
  PROVE  JoinInv'
<1>1. IsSeq(toServer)
  BY DEF TypeOK, IsSeq
<1>2. ASSUME UNCHANGED <<link, chats>>,
             \A c \in Chats : Self \in members[c] => Self \in members'[c],
             \A i \in DOMAIN toServer : i \in DOMAIN toServer' /\ toServer'[i] = toServer[i]
      PROVE  JoinInv'
  BY <1>2, AskedStays DEF JoinInv, TypeOK
<1>3. CASE Act \/ KickOne
  <2>1. UNCHANGED <<link, chats, toServer>>
    BY <1>3 DEF Act, KickOne, Join, Leave, Say, OpenChat, Invite, Rename, Write, Kick, bot, roster
  <2>2. \A c \in Chats : Self \in members[c] => Self \in members'[c]
    BY <1>3, ActTells DEF Told
  <2> QED
    BY <1>2, <2>1, <2>2
<1>4. CASE Serve
  <2>1. UNCHANGED <<link, chats>> /\ toServer # <<>> /\ toServer' = Tail(toServer)
    BY <1>4 DEF Serve, ServeJoin, ServeCreate, RefuseCreate, ServeOther, Takes, bot, roster
  <2>2. \A c \in Chats : Self \in members[c] => Self \in members'[c]
    BY <1>4, ServeTells DEF Told
  <2>3. /\ DOMAIN toServer \subseteq Nat \ {0} /\ Head(toServer) = toServer[1]
        /\ \A i \in Nat : i \in DOMAIN toServer' <=> i # 0 /\ i + 1 \in DOMAIN toServer
        /\ \A i \in DOMAIN toServer' : toServer'[i] = toServer[i + 1]
    BY <1>1, <2>1, Taking
  <2>4. ASSUME NEW c \in Chats, Asks(c)
        PROVE  Self \in members'[c] \/ Asks(c)'
    <3>1. PICK i \in DOMAIN toServer : toServer[i].op = "join_chat" /\ toServer[i].chat = c
      BY <2>4 DEF Asks
    <3>2. CASE i = 1
      <4>1. ServeJoin /\ Head(toServer).chat = c
        BY <1>4, <2>3, <3>1, <3>2 DEF Serve, ServeCreate, RefuseCreate, ServeOther, Takes
      <4> QED
        BY <4>1 DEF ServeJoin, TypeOK
    <3>3. CASE i # 1
      <4>1. i - 1 \in Nat /\ i - 1 # 0 /\ (i - 1) + 1 = i
        BY <2>3, <3>3
      <4>2. i - 1 \in DOMAIN toServer' /\ toServer'[i - 1] = toServer[i]
        BY <2>3, <4>1
      <4> QED
        BY <3>1, <4>2 DEF Asks
    <3> QED
      BY <3>2, <3>3
  <2> QED
    BY <2>1, <2>2, <2>4 DEF JoinInv, TypeOK
<1>5. CASE Handle
  <2>1. link = "online" /\ UNCHANGED members
    BY <1>5 DEF Handle, UserList, UserJoin, UserLeave, ChatSay, PrivateMessage, UserStatus,
                Unhandled, ChatCreated, Invitation, Receives, bot, serverVars
  <2>2. link' # "offline"
    BY <1>5, <2>1 DEF Handle, UserList, UserJoin, UserLeave, ChatSay, PrivateMessage, UserStatus,
                      Unhandled, ChatCreated, Invitation, Crash, bot
  <2>3. \A i \in DOMAIN toServer : i \in DOMAIN toServer' /\ toServer'[i] = toServer[i]
    BY <1>5, HandleAppends
  <2>4. ASSUME NEW c \in Chats, c \in chats', c \notin chats
        PROVE  Asks(c)'
    <3> DEFINE join == [op |-> "join_chat", chat |-> c, user |-> Self]
               invite == [op |-> "invite_user", chat |-> c, user |-> inviteUid]
    <3>1. \/ toServer' = Append(toServer, join)
          \/ toServer' = toServer \o <<join, invite>>
      BY <1>5, <2>4 DEF Handle, UserList, UserJoin, UserLeave, ChatSay, PrivateMessage, UserStatus,
                  Unhandled, ChatCreated, Invitation, Crash, AddChat, bot, roster
    <3>2. join.op = "join_chat" /\ join.chat = c
      OBVIOUS
    <3> HIDE DEF join, invite
    <3>3. CASE toServer' = Append(toServer, join)
      BY <1>1, <3>2, <3>3, Appending DEF Asks
    <3>4. CASE toServer' = toServer \o <<join, invite>>
      <4> DEFINE pair == <<join, invite>>
                 T == {join, invite} \cup {toServer[i] : i \in DOMAIN toServer}
      <4>1. pair \in Seq(T) /\ toServer \in Seq(T) /\ Len(pair) = 2 /\ pair[1] = join
        <5>1. toServer \in Seq({toServer[i] : i \in DOMAIN toServer})
          BY DEF TypeOK
        <5> QED
          BY <5>1
      <4> HIDE DEF T
      <4>2. toServer' = toServer \o pair
        BY <3>4
      <4> HIDE DEF pair
      <4>3. Len(toServer) + 1 \in DOMAIN toServer' /\ toServer'[Len(toServer) + 1] = join
        <5> DEFINE both == toServer \o pair
        <5>1. /\ both \in Seq(T) /\ Len(both) = Len(toServer) + Len(pair)
              /\ \A i \in 1..(Len(toServer) + Len(pair)) :
                   both[i] = IF i <= Len(toServer) THEN toServer[i] ELSE pair[i - Len(toServer)]
          BY <4>1, ConcatProperties
        <5>2. toServer' = both
          BY <4>2
        <5> HIDE DEF both
        <5>3. /\ toServer' \in Seq(T) /\ Len(toServer') = Len(toServer) + 2
              /\ \A i \in 1..(Len(toServer) + 2) :
                   toServer'[i] = IF i <= Len(toServer) THEN toServer[i]
                                                        ELSE pair[i - Len(toServer)]
          BY <4>1, <5>1, <5>2
        <5>4. Len(toServer) \in Nat /\ DOMAIN toServer' = 1..(Len(toServer) + 2)
          BY <4>1, <5>3
        <5>5. /\ Len(toServer) + 1 \in 1..(Len(toServer) + 2)
              /\ ~(Len(toServer) + 1 <= Len(toServer)) /\ (Len(toServer) + 1) - Len(toServer) = 1
          BY <5>4
        <5> QED
          BY <4>1, <5>3, <5>4, <5>5
      <4> QED
        BY <3>2, <4>3 DEF Asks
    <3> QED
      BY <3>1, <3>3, <3>4
  <2>5. \A c \in chats : Asks(c) => Asks(c)'
    BY <2>3, AskedStays
  <2>6. chats' \subseteq Chats
    <3>1. toBot # <<>>
      BY <1>5 DEF Handle, UserList, UserJoin, UserLeave, ChatSay, PrivateMessage, UserStatus,
                  Unhandled, ChatCreated, Invitation, Receives
    <3>2. Head(toBot) \in Message
      BY <3>1 DEF TypeOK
    <3>3. Head(toBot).chat \in Chats /\ chats \subseteq Chats
      BY <3>2 DEF Message, TypeOK
    <3>4. chats' = chats \/ chats' = chats \cup {Head(toBot).chat}
      BY <1>5 DEF Handle, UserList, UserJoin, UserLeave, ChatSay, PrivateMessage, UserStatus,
                  Unhandled, ChatCreated, Invitation, Crash, AddChat, bot, roster
    <3> QED
      BY <3>3, <3>4
  <2> QED
    BY <2>1, <2>2, <2>4, <2>5, <2>6 DEF JoinInv
<1>6. ASSUME NEW u, PrivChat(u)
      PROVE  JoinInv'
  <2>1. PICK r : toServer' = Append(toServer, r)
    BY <1>6 DEF PrivChat
  <2>2. UNCHANGED <<link, chats, members>>
    BY <1>6 DEF PrivChat, roster, serverVars
  <2> QED
    BY <1>1, <1>2, <2>1, <2>2, Appending
<1>7. CASE Connect
  <2> DEFINE join == [op |-> "join_chat", chat |-> Public, user |-> Self]
  <2>1. toServer' = <<join>> /\ chats' = {Public} /\ link' = "online"
    BY <1>7 DEF Connect, roster, JoinInv
  <2>2. join.op = "join_chat" /\ join.chat = Public
    OBVIOUS
  <2> HIDE DEF join
  <2>3. 1 \in DOMAIN toServer' /\ toServer'[1] = join
    BY <2>1
  <2> QED
    BY <2>1, <2>2, <2>3 DEF JoinInv, Asks
<1>8. CASE LoseConnection
  BY <1>8 DEF LoseConnection, Clear, JoinInv
<1>9. CASE PrivChatUnknown
  BY <1>9 DEF PrivChatUnknown, Crash, JoinInv
<1>10. CASE UNCHANGED vars
  BY <1>2, <1>10 DEF vars, serverVars, bot, roster
<1> QED
  BY <1>3, <1>4, <1>5, <1>6, <1>7, <1>8, <1>9, <1>10 DEF Next

RosterInv ==
  /\ ExistInv
  /\ JoinInv
  /\ link # "crashed" => FollowInv

LEMMA StartsFollowed ==
  ASSUME Init
  PROVE  RosterInv
<1>1. PICK s \in SUBSET Users : members = [Empty EXCEPT ![Public] = s]
  BY DEF Init
<1>2. /\ members \in [Chats -> SUBSET Uids] /\ \A c \in Chats : Self \notin members[c]
      /\ \A c \in Chats : c # Public => members[c] = {}
  BY <1>1, UsersAssumption, ChatsAssumption DEF Empty, Uids
<1>3. /\ toBot = <<>> /\ toServer = <<>> /\ dict = [c \in Chats |-> {}]
      /\ created = {Public} /\ link = "offline" /\ chats = {Public}
  BY DEF Init, Empty
<1>4. ExistInv /\ JoinInv
  BY <1>2, <1>3 DEF ExistInv, JoinInv
<1>5. \A A, R, B, x : Undone(<<>>, A, R, x, {}) /\ UndoneBefore(<<>>, A, R, B, x, {})
  BY DEF Undone, UndoneBefore
<1>6. FollowInv
  BY <1>2, <1>3, <1>5, ChatsAssumption DEF FollowInv, Follows, OnceEach, OpensEmpty, Calls
<1> QED
  BY <1>4, <1>6 DEF RosterInv

LEMMA RosterKept ==
  ASSUME TypeOK, RosterInv, Kicks = FALSE, [Next]_vars
  PROVE  RosterInv'
BY ExistKept, JoinKept, FollowKept DEF RosterInv

LEMMA QuietFollowed ==
  ASSUME TypeOK, ChatInv, RosterInv
  PROVE  QuietAgrees
<1> SUFFICES ASSUME Quiet
             PROVE  /\ \A c \in chats : Self \in members[c] /\ dict[c] = members[c]
                    /\ \A u \in dict[Public] : nickOf[u] = nick[u]
  BY DEF QuietAgrees
<1>1. /\ link = "online" /\ toServer = <<>> /\ toBot = <<>> /\ FollowInv
      /\ chats \subseteq Chats /\ Public \in chats
      /\ members \in [Chats -> SUBSET Uids] /\ dict \in [Chats -> SUBSET Uids]
  BY DEF Quiet, RosterInv, TypeOK, ChatInv, Known
<1>2. \A A, R, x, D : Undone(<<>>, A, R, x, D) => x \notin D
  BY DEF Undone
<1>3. \A c \in chats : Self \in members[c]
  BY <1>1 DEF RosterInv, JoinInv, Asks
<1>4. ASSUME NEW c \in chats
      PROVE  dict[c] = members[c]
  <2>1. ASSUME NEW u \in Uids
        PROVE  u \in dict[c] <=> u \in members[c]
    <3>1. Follows(c, u)
      BY <1>1 DEF FollowInv
    <3>2. IF u \in members[c] THEN u \notin Uids \ dict[c] ELSE u \notin dict[c]
      BY <1>1, <1>2, <1>3, <3>1 DEF Follows
    <3> QED
      BY <3>2
  <2> QED
    BY <1>1, <2>1
<1>5. ASSUME NEW u \in dict[Public]
      PROVE  nickOf[u] = nick[u]
  <2>1. Calls(u)
    BY <1>1 DEF FollowInv
  <2>2. u \notin Misnamed(nick[u])
    BY <1>1, <1>2, <1>3, <2>1 DEF Calls
  <2> QED
    BY <2>2 DEF Misnamed
<1> QED
  BY <1>3, <1>4, <1>5

(* Without kicks, whatever users do and however often the session is lost:   *)
(* once all the server sent is read, wr_chats holds the chats the bot is on, *)
(* their dictionaries the users the server has there, and each object the    *)
(* nick of its user.                                                         *)
THEOREM QuietRight == Kicks = FALSE /\ Spec => []QuietAgrees
<1>1. SUFFICES ASSUME Kicks = FALSE PROVE Spec => []QuietAgrees
  OBVIOUS
<1>2. Init => ChatInv /\ RosterInv
  BY StartKnowsPublic, StartsFollowed
<1>3. ChatInv /\ [Next]_vars => ChatInv'
  BY ChatKept
<1>4. TypeOK /\ RosterInv /\ [Next]_vars => RosterInv'
  BY <1>1, RosterKept
<1>5. TypeOK /\ ChatInv /\ RosterInv => QuietAgrees
  BY QuietFollowed
<1> QED
  BY <1>2, <1>3, <1>4, <1>5, TypeCorrect, PTL DEF Spec

-----------------------------------------------------------------------------
(* The two containers of a chat. *)
Listed(c) == IsInjective(array[c]) /\ ToSet(array[c]) = dict[c]

ListInv == \A c \in Chats : Listed(c)

LEMMA ListedOnce ==
  ASSUME NEW T, NEW s \in Seq(T), IsInjective(s)
  PROVE  Len(s) = Cardinality(ToSet(s))
<1> DEFINE n == Len(s)
<1>1. n \in Nat /\ DOMAIN s = 1..n /\ s = [i \in 1..n |-> s[i]]
  OBVIOUS
<1>2. s \in [1..n -> ToSet(s)] /\ \A x \in ToSet(s) : \E i \in 1..n : s[i] = x
  BY <1>1 DEF ToSet
<1>3. s \in Bijection(1..n, ToSet(s))
  BY <1>1, <1>2 DEF Bijection, Injection, Surjection
<1>4. ExistsBijection(1..n, ToSet(s))
  BY <1>3 DEF ExistsBijection
<1> QED
  BY <1>1, <1>4, FS_CountingElements

LEMMA AppendingNew ==
  ASSUME NEW T, NEW s \in Seq(T), IsInjective(s), NEW e, e \notin ToSet(s)
  PROVE  IsInjective(Append(s, e)) /\ ToSet(Append(s, e)) = ToSet(s) \cup {e}
<1> DEFINE t == Append(s, e)
<1>1. IsSeq(s)
  BY DEF IsSeq
<1>2. /\ \A i \in DOMAIN s : i \in DOMAIN t /\ t[i] = s[i]
      /\ \A i \in DOMAIN t : (i \in DOMAIN s /\ t[i] = s[i]) \/ (i = Len(s) + 1 /\ t[i] = e)
      /\ Len(s) + 1 \in DOMAIN t /\ t[Len(s) + 1] = e
  BY <1>1, Appending
<1> HIDE DEF t
<1>3. IsInjective(t)
  BY <1>2 DEF IsInjective, ToSet
<1>4. ToSet(t) = ToSet(s) \cup {e}
  BY <1>2 DEF ToSet
<1> QED
  BY <1>3, <1>4 DEF t

LEMMA ListKept ==
  ASSUME TypeOK, ListInv, link # "crashed" => FollowInv, [Next]_vars
  PROVE  ListInv'
<1>1. /\ array \in [Chats -> Seq(Uids)] /\ dict \in [Chats -> SUBSET Uids]
      /\ \A c \in Chats : Listed(c)
  BY DEF TypeOK, ListInv
<1>2. ASSUME UNCHANGED <<array, dict>>
      PROVE  ListInv'
  BY <1>1, <1>2 DEF ListInv, Listed
<1>3. CASE Act \/ KickOne \/ Serve
  BY <1>2, <1>3 DEF Act, KickOne, Join, Leave, Say, OpenChat, Invite, Rename, Write, Kick, Serve,
                    ServeJoin, ServeCreate, RefuseCreate, ServeOther, bot, roster
<1>4. CASE Handle
  <2>1. toBot # <<>> /\ link # "crashed"
    BY <1>4 DEF Handle, UserList, UserJoin, UserLeave, ChatSay, PrivateMessage, UserStatus,
                Unhandled, ChatCreated, Invitation, Receives
  <2> DEFINE m == Head(toBot)
  <2>2. /\ m \in Message
        /\ \A c \in Chats, u \in Uids : m \in Adds(c, u) => u \notin dict[c]
    BY <2>1, Unread
  <2>3. m.chat \in Chats /\ m.user \in Uids
    BY <2>2 DEF Message
  <2> HIDE DEF m
  <2>4. ASSUME AddUser(m.chat, m.user, m.nick), m.type \in {"user_list", "user_join"}
        PROVE  ListInv'
    <3>1. m.user \notin dict[m.chat]
      BY <2>2, <2>3, <2>4 DEF Adds
    <3>2. /\ IsInjective(Append(array[m.chat], m.user))
          /\ ToSet(Append(array[m.chat], m.user)) = dict[m.chat] \cup {m.user}
      BY <1>1, <2>3, <3>1, AppendingNew DEF Listed
    <3>3. /\ array' = [array EXCEPT ![m.chat] = Append(array[m.chat], m.user)]
          /\ dict' = [dict EXCEPT ![m.chat] = dict[m.chat] \cup {m.user}]
      BY <2>4 DEF AddUser
    <3>4. \A c \in Chats : IsInjective(array'[c]) /\ ToSet(array'[c]) = dict'[c]
      BY <1>1, <2>3, <3>2, <3>3 DEF Listed
    <3> QED
      BY <3>4 DEF ListInv, Listed
  <2>5. ASSUME RemoveUser(m.chat, m.user), m.user \in dict[m.chat]
        PROVE  ListInv'
    <3>1. /\ IsInjective(RemoveFirst(array[m.chat], m.user))
          /\ ToSet(RemoveFirst(array[m.chat], m.user)) = dict[m.chat] \ {m.user}
      BY <1>1, <2>3, <2>5, RemovingFirst DEF Listed
    <3>2. /\ array' = [array EXCEPT ![m.chat] = RemoveFirst(array[m.chat], m.user)]
          /\ dict' = [dict EXCEPT ![m.chat] = dict[m.chat] \ {m.user}]
      BY <2>5 DEF RemoveUser
    <3>3. \A c \in Chats : IsInjective(array'[c]) /\ ToSet(array'[c]) = dict'[c]
      BY <1>1, <2>3, <3>1, <3>2 DEF Listed
    <3> QED
      BY <3>3 DEF ListInv, Listed
  <2>6. ASSUME AddChat(m.chat)
        PROVE  ListInv'
    <3>1. IsInjective(<<>>) /\ ToSet(<<>>) = {}
      BY DEF IsInjective, ToSet
    <3>2. \A c \in Chats : IsInjective(array'[c]) /\ ToSet(array'[c]) = dict'[c]
      BY <1>1, <2>6, <3>1 DEF AddChat, Listed
    <3> QED
      BY <3>2 DEF ListInv, Listed
  <2>7. CASE UserList \/ UserJoin
    <3>1. \/ UNCHANGED <<array, dict>>
          \/ AddUser(m.chat, m.user, m.nick) /\ m.type \in {"user_list", "user_join"}
      BY <2>7 DEF UserList, UserJoin, Receives, Crash, roster, m
    <3> QED
      BY <1>2, <2>4, <3>1
  <2>8. CASE UserLeave
    <3>1. \/ UNCHANGED <<array, dict>>
          \/ RemoveUser(m.chat, m.user) /\ m.user \in dict[m.chat]
      BY <2>8 DEF UserLeave, Crash, bot, roster, m
    <3> QED
      BY <1>2, <2>5, <3>1
  <2>9. CASE ChatCreated \/ Invitation
    <3>1. UNCHANGED <<array, dict>> \/ AddChat(m.chat)
      BY <2>9 DEF ChatCreated, Invitation, roster, m
    <3> QED
      BY <1>2, <2>6, <3>1
  <2>10. CASE ChatSay \/ PrivateMessage \/ UserStatus \/ Unhandled
    BY <1>2, <2>10 DEF ChatSay, PrivateMessage, UserStatus, Unhandled, Crash, bot, roster
  <2> QED
    BY <1>4, <2>7, <2>8, <2>9, <2>10 DEF Handle
<1>5. CASE LoseConnection
  <2>1. array' = [c \in Chats |-> <<>>] /\ dict' = [c \in Chats |-> {}]
    BY <1>5 DEF LoseConnection, Clear, NoArrays, Empty
  <2>2. IsInjective(<<>>) /\ ToSet(<<>>) = {}
    BY DEF IsInjective, ToSet
  <2> QED
    BY <2>1, <2>2 DEF ListInv, Listed
<1>6. ASSUME (\E u \in dict[Public] \cup {NoUser} : PrivChat(u)) \/ PrivChatUnknown \/ Connect
      PROVE  ListInv'
  BY <1>2, <1>6 DEF PrivChat, PrivChatUnknown, Crash, Connect, roster
<1>7. CASE UNCHANGED vars
  BY <1>2, <1>7 DEF vars, bot, roster
<1> QED
  BY <1>3, <1>4, <1>5, <1>6, <1>7 DEF Next

LEMMA StartsListed == Init => ListInv
<1> SUFFICES ASSUME Init PROVE ListInv
  OBVIOUS
<1>1. array = [c \in Chats |-> <<>>] /\ dict = [c \in Chats |-> {}]
  BY DEF Init, NoArrays, Empty
<1>2. IsInjective(<<>>) /\ ToSet(<<>>) = {}
  BY DEF IsInjective, ToSet
<1> QED
  BY <1>1, <1>2 DEF ListInv, Listed

(* Without kicks the array of users and the dictionary of users of a chat    *)
(* hold the same users at every moment, whatever is under way: nobody is     *)
(* entered who is still there, and a user that is taken out is in both.      *)
THEOREM ContainersRight == Kicks = FALSE /\ Spec => []ContainersAgree
<1>1. SUFFICES ASSUME Kicks = FALSE PROVE Spec => []ContainersAgree
  OBVIOUS
<1>2. Init => RosterInv /\ ListInv
  BY StartsFollowed, StartsListed
<1>3. TypeOK /\ RosterInv /\ [Next]_vars => RosterInv'
  BY <1>1, RosterKept
<1>4. TypeOK /\ RosterInv /\ ListInv /\ [Next]_vars => ListInv'
  BY ListKept DEF RosterInv
<1>5. TypeOK /\ ListInv => ContainersAgree
  <2> SUFFICES ASSUME TypeOK, ListInv, NEW c \in Chats
               PROVE  ToSet(array[c]) = dict[c] /\ Len(array[c]) = Cardinality(dict[c])
    BY DEF ContainersAgree
  <2> QED
    BY ListedOnce DEF TypeOK, ListInv, Listed
<1> QED
  BY <1>2, <1>3, <1>4, <1>5, TypeCorrect, PTL DEF Spec

-----------------------------------------------------------------------------
(* A user leaves the private chats before the public one, and the bot is let *)
(* into the public chat first.                                              *)
NestInv ==
  /\ \A c \in Chats : members[c] \subseteq members[Public]
  /\ link = "offline" => toServer = <<>>
  /\ link # "offline" => \/ Self \in members[Public]
                         \/ /\ 1 \in DOMAIN toServer
                            /\ toServer[1].op = "join_chat" /\ toServer[1].chat = Public

LEMMA NestKept ==
  ASSUME TypeOK, ExistInv, PrivateFirst = TRUE, Kicks = FALSE, NestInv, [Next]_vars
  PROVE  NestInv'
<1>1. /\ members \in [Chats -> SUBSET Uids] /\ Public \in Chats /\ Self \in Uids
      /\ IsSeq(toServer) /\ \A u \in Users : u # Self
  BY UsersAssumption, ChatsAssumption DEF TypeOK, Uids, IsSeq
<1>2. ASSUME UNCHANGED <<link, members>>,
             \A i \in DOMAIN toServer : i \in DOMAIN toServer' /\ toServer'[i] = toServer[i],
             link # "offline"
      PROVE  NestInv'
  BY <1>2 DEF NestInv
<1>3. CASE Act \/ KickOne
  <2>1. UNCHANGED <<link, toServer>>
    BY <1>3 DEF Act, KickOne, Join, Leave, Say, OpenChat, Invite, Rename, Write, Kick, bot
  <2>2. Self \in members[Public] => Self \in members'[Public]
    BY <1>1, <1>3, ActTells DEF Told
  <2>3. \A c \in Chats : members'[c] \subseteq members'[Public]
    <3>1. ASSUME NEW c \in Chats, NEW u \in Users, NEW n \in Nicks, Join(c, u, n)
          PROVE  \A d \in Chats : members'[d] \subseteq members'[Public]
      <4>1. members' = [members EXCEPT ![c] = @ \cup {u}] /\ (c # Public => u \in members[Public])
        BY <3>1 DEF Join
      <4> QED
        BY <1>1, <4>1 DEF NestInv
    <3>2. ASSUME NEW c \in Chats, NEW u \in Users, Leave(c, u)
          PROVE  \A d \in Chats : members'[d] \subseteq members'[Public]
      <4>1. /\ members' = [members EXCEPT ![c] = @ \ {u}]
            /\ c = Public => \A d \in Chats \ {Public} : u \notin members[d]
        BY <3>2 DEF Leave
      <4> QED
        BY <1>1, <4>1 DEF NestInv
    <3>3. ASSUME NEW c \in Chats, NEW u \in Users, OpenChat(c, u)
          PROVE  \A d \in Chats : members'[d] \subseteq members'[Public]
      <4>1. members' = [members EXCEPT ![c] = {u}] /\ u \in members[Public] /\ c # Public
        BY <3>3 DEF OpenChat, ExistInv
      <4> QED
        BY <1>1, <4>1 DEF NestInv
    <3>4. CASE UNCHANGED members
      BY <3>4 DEF NestInv
    <3> QED
      BY <1>3, <3>1, <3>2, <3>3, <3>4 DEF Act, KickOne, Say, Invite, Rename, Write, Kick
  <2> QED
    BY <2>1, <2>2, <2>3 DEF NestInv
<1>4. CASE Serve
  <2>1. link' = link /\ toServer # <<>> /\ toServer' = Tail(toServer) /\ link # "offline"
    BY <1>4 DEF Serve, ServeJoin, ServeCreate, RefuseCreate, ServeOther, Takes, bot, NestInv
  <2>2. Head(toServer) = toServer[1]
    BY <1>1, <2>1, Taking
  <2>3. CASE Self \in members[Public]
    <3>1. \A c \in Chats : members'[c] \subseteq members'[Public]
      <4>1. CASE ServeJoin
        <5>1. \/ members' = members
              \/ members' = [members EXCEPT ![Head(toServer).chat] = @ \cup {Self}]
          BY <4>1 DEF ServeJoin
        <5> QED
          BY <1>1, <2>3, <5>1 DEF NestInv
      <4>2. CASE UNCHANGED members
        BY <4>2 DEF NestInv
      <4> QED
        BY <1>4, <4>1, <4>2 DEF Serve, ServeCreate, RefuseCreate, ServeOther, serverVars
    <3>2. Self \in members'[Public]
      BY <1>1, <1>4, <2>3, ServeTells DEF Told
    <3> QED
      BY <2>1, <3>1, <3>2 DEF NestInv
  <2>4. CASE Self \notin members[Public]
    <3>1. ServeJoin /\ Head(toServer).chat = Public
      BY <1>4, <2>1, <2>2, <2>4 DEF NestInv, Serve, ServeCreate, RefuseCreate, ServeOther, Takes
    <3>2. members' = [members EXCEPT ![Public] = @ \cup {Self}]
      BY <2>4, <3>1 DEF ServeJoin
    <3> QED
      BY <1>1, <2>1, <3>2 DEF NestInv
  <2> QED
    BY <2>3, <2>4
<1>5. CASE Handle
  <2>1. link = "online" /\ UNCHANGED members
    BY <1>5 DEF Handle, UserList, UserJoin, UserLeave, ChatSay, PrivateMessage, UserStatus,
                Unhandled, ChatCreated, Invitation, Receives, bot, serverVars
  <2>2. link' # "offline"
    BY <1>5, <2>1 DEF Handle, UserList, UserJoin, UserLeave, ChatSay, PrivateMessage, UserStatus,
                      Unhandled, ChatCreated, Invitation, Crash, bot
  <2> QED
    BY <1>5, <2>1, <2>2, HandleAppends DEF NestInv
<1>6. ASSUME NEW u, PrivChat(u)
      PROVE  NestInv'
  <2>1. PICK r : toServer' = Append(toServer, r)
    BY <1>6 DEF PrivChat
  <2>2. UNCHANGED <<link, members>> /\ link # "offline"
    BY <1>6 DEF PrivChat, serverVars
  <2> QED
    BY <1>1, <1>2, <2>1, <2>2, Appending
<1>7. CASE Connect
  <2> DEFINE join == [op |-> "join_chat", chat |-> Public, user |-> Self]
  <2>1. toServer' = <<join>> /\ link' = "online" /\ UNCHANGED members
    BY <1>7 DEF Connect, serverVars
  <2>2. join.op = "join_chat" /\ join.chat = Public
    OBVIOUS
  <2> HIDE DEF join
  <2>3. 1 \in DOMAIN toServer' /\ toServer'[1] = join
    BY <2>1
  <2> QED
    BY <2>1, <2>2, <2>3 DEF NestInv
<1>8. CASE LoseConnection
  <2>1. /\ members' = [c \in Chats |-> members[c] \ {Self}]
        /\ link' = "offline" /\ toServer' = <<>>
    BY <1>8 DEF LoseConnection
  <2> QED
    BY <1>1, <2>1 DEF NestInv
<1>9. CASE PrivChatUnknown
  BY <1>9 DEF PrivChatUnknown, Crash, serverVars, NestInv
<1>10. CASE UNCHANGED vars
  BY <1>10 DEF vars, serverVars, bot, NestInv
<1> QED
  BY <1>3, <1>4, <1>5, <1>6, <1>7, <1>8, <1>9, <1>10 DEF Next

(* What the bot reads of a user comes in the same order: the user is on the  *)
(* public chat before it is on a private one, and as long.                   *)
Entered(c, u) ==
  UndoneBefore(toBot, Removes(Public, u), Adds(Public, u), Adds(c, u), u, Uids \ dict[Public])
Departed(c, u) ==
  UndoneBefore(toBot, Adds(c, u), Removes(c, u), Removes(Public, u), u, dict[c])

OrderInv ==
  \A c \in Chats \ {Public}, u \in Uids :
    Entered(c, u) /\ Departed(c, u) /\ (u \in dict[c] => u \in dict[Public])

LEMMA ServerOrders ==
  ASSUME TypeOK, FollowInv, NestInv, NestInv', OrderInv, UNCHANGED dict,
         NEW M \in SUBSET Message, Extends(toBot, toBot', M), Told(M)
  PROVE  OrderInv'
<1> SUFFICES ASSUME NEW c \in Chats \ {Public}, NEW u \in Uids
             PROVE  /\ Entered(c, u)' /\ Departed(c, u)'
                    /\ u \in dict'[c] => u \in dict'[Public]
  BY DEF OrderInv
<1> DEFINE A == Adds(c, u)
           R == Removes(c, u)
           PA == Adds(Public, u)
           PR == Removes(Public, u)
           D == Uids \ dict[Public]
<1>1. /\ UndoneBefore(toBot, PR, PA, A, u, D) /\ UndoneBefore(toBot, A, R, PR, u, dict[c])
      /\ u \in dict[c] => u \in dict[Public]
  BY DEF OrderInv, Entered, Departed
<1>2. Follows(c, u) /\ Follows(Public, u) /\ Public \in Chats /\ c \in Chats
  BY ChatsAssumption DEF FollowInv
<1>3. members[c] \subseteq members[Public] /\ members'[c] \subseteq members'[Public]
  BY DEF NestInv
<1>4. /\ \A m \in M : m \in A => m.chat = c /\ {Self, u} \subseteq members'[c]
      /\ \A m \in M : m \in R => m.chat = c
      /\ \A m \in M : m \in PA => m.chat = Public
      /\ \A m \in M : m \in PR => /\ m.chat = Public
                                  /\ {Self, u} \subseteq members[Public]
                                  /\ u \notin members'[Public]
      /\ {Self, u} \subseteq members'[Public] /\ ~({Self, u} \subseteq members[Public])
           => \E m \in M : m \in PA
      /\ {Self, u} \subseteq members[c] /\ u \notin members'[c] => \E m \in M : m \in R
      /\ \A m, n \in M : m.chat = n.chat
  BY <1>2 DEF Told, Adds, Removes
<1> HIDE DEF A, R, PA, PR, D
<1>5. Entered(c, u)'
  <2>1. (\E m \in M : m \in A) => Undone(toBot, PR, PA, u, D)
    <3> SUFFICES ASSUME \E m \in M : m \in A PROVE Undone(toBot, PR, PA, u, D)
      OBVIOUS
    <3>1. {Self, u} \subseteq members[Public]
      BY <1>3, <1>4
    <3> QED
      BY <1>2, <3>1 DEF Follows, PA, PR, D
  <2>2. \A m, n \in M : m \in PR /\ n \in A => m = n
    BY <1>4
  <2>3. UndoneBefore(toBot', PR, PA, A, u, D)
    BY <1>1, <2>1, <2>2, KeptUndoneBefore
  <2> QED
    BY <2>3 DEF Entered, PR, PA, A, D, Adds, Removes
<1>6. Departed(c, u)'
  <2>1. (\E m \in M : m \in PR) => Undone(toBot, A, R, u, dict[c])
    <3> SUFFICES ASSUME \E m \in M : m \in PR PROVE Undone(toBot, A, R, u, dict[c])
      OBVIOUS
    <3>1. ~({Self, u} \subseteq members[c])
      BY <1>3, <1>4
    <3>2. CASE Self \in members[c]
      BY <1>2, <3>1, <3>2 DEF Follows, A, R
    <3>3. CASE Self \notin members[c]
      <4>1. Undone(toBot, A, {}, u, dict[c])
        BY <1>2, <3>3 DEF Follows, A
      <4> QED
        BY <4>1, UndoneLess
    <3> QED
      BY <3>2, <3>3
  <2>2. \A m, n \in M : m \in A /\ n \in PR => m = n
    BY <1>4
  <2>3. UndoneBefore(toBot', A, R, PR, u, dict[c])
    BY <1>1, <2>1, <2>2, KeptUndoneBefore
  <2> QED
    BY <2>3 DEF Departed, PR, A, R, Adds, Removes
<1> QED
  BY <1>1, <1>5, <1>6

(* The sender of the next message is known where it is looked up. *)
LEMMA NextOrdered ==
  ASSUME TypeOK, OrderInv, toBot # <<>>, NEW c \in Chats \ {Public}, NEW u \in Uids
  PROVE  /\ toBot[1] \in Adds(c, u) => u \in dict[Public]
         /\ toBot[1] \in Removes(Public, u) => u \notin dict[c]
<1> DEFINE A == Adds(c, u)
           R == Removes(c, u)
           PA == Adds(Public, u)
           PR == Removes(Public, u)
           D == Uids \ dict[Public]
<1>1. UndoneBefore(toBot, PR, PA, A, u, D) /\ UndoneBefore(toBot, A, R, PR, u, dict[c])
  BY DEF OrderInv, Entered, Departed
<1>2. IsSeq(toBot)
  BY DEF TypeOK, IsSeq
<1> HIDE DEF A, R, PA, PR
<1>3. toBot[1] \in PR => u \notin dict[c]
  BY <1>1, <1>2, FirstUndone
<1> HIDE DEF D
<1>4. toBot[1] \in A => u \notin D
  BY <1>1, <1>2, FirstUndone
<1> QED
  BY <1>3, <1>4 DEF A, PR, D

LEMMA ReadingOrders ==
  ASSUME TypeOK, OrderInv, Reads
  PROVE  OrderInv'
<1> SUFFICES ASSUME NEW c \in Chats \ {Public}, NEW u \in Uids
             PROVE  /\ Entered(c, u)' /\ Departed(c, u)'
                    /\ u \in dict'[c] => u \in dict'[Public]
  BY DEF OrderInv
<1> DEFINE A == Adds(c, u)
           R == Removes(c, u)
           PA == Adds(Public, u)
           PR == Removes(Public, u)
           D == Uids \ dict[Public]
           E == Uids \ dict'[Public]
<1>1. /\ UndoneBefore(toBot, PR, PA, A, u, D) /\ UndoneBefore(toBot, A, R, PR, u, dict[c])
      /\ u \in dict[c] => u \in dict[Public]
  BY DEF OrderInv, Entered, Departed
<1>2. /\ IsSeq(toBot) /\ toBot # <<>> /\ toBot' = Tail(toBot)
      /\ u \in dict'[c] <=> toBot[1] \in A \/ (u \in dict[c] /\ toBot[1] \notin R)
      /\ u \in dict'[Public] <=> toBot[1] \in PA \/ (u \in dict[Public] /\ toBot[1] \notin PR)
  BY ChatsAssumption DEF Reads, TypeOK, IsSeq
<1>3. /\ toBot[1] \in A => u \in dict[Public]
      /\ toBot[1] \in PR => u \notin dict[c]
      /\ toBot[1] \in A => toBot[1] \notin PR
  BY <1>2, NextOrdered DEF Adds, Removes
<1> HIDE DEF A, R, PA, PR
<1>4. u \in dict'[c] => u \in dict'[Public]
  BY <1>1, <1>2, <1>3
<1>5. u \in E => toBot[1] \in PR \/ (u \in D /\ toBot[1] \notin PA)
  BY <1>2
<1>6. UndoneBefore(toBot', A, R, PR, u, dict'[c])
  BY <1>1, <1>2, ReadUndoneBefore
<1> HIDE DEF D, E
<1>7. UndoneBefore(toBot', PR, PA, A, u, E)
  BY <1>1, <1>2, <1>5, ReadUndoneBefore
<1> QED
  BY <1>4, <1>6, <1>7 DEF Entered, Departed, A, R, PA, PR, E, Adds, Removes

(* A process that has ended does not come back. *)
LEMMA Alive ==
  ASSUME [Next]_vars, link' # "crashed"
  PROVE  link # "crashed"
BY DEF Next, Act, KickOne, Join, Leave, Say, OpenChat, Invite, Rename, Write, Kick, Serve,
       ServeJoin, ServeCreate, RefuseCreate, ServeOther, Handle, UserList, UserJoin,
       UserLeave, ChatSay, PrivateMessage, UserStatus, Unhandled, ChatCreated, Invitation,
       Receives, PrivChat, PrivChatUnknown, Connect, LoseConnection, vars, bot

LEMMA OrderKept ==
  ASSUME TypeOK, RosterInv, NestInv, NestInv', PrivateFirst = TRUE, Kicks = FALSE,
         link # "crashed" => OrderInv, [Next]_vars
  PROVE  link' # "crashed" => OrderInv'
<1> SUFFICES ASSUME link' # "crashed" PROVE OrderInv'
  OBVIOUS
<1>1. link # "crashed" /\ OrderInv /\ FollowInv /\ ExistInv
  BY Alive DEF RosterInv
<1>2. CASE Act \/ KickOne
  <2>1. UNCHANGED dict
    BY <1>2 DEF Act, KickOne, Join, Leave, Say, OpenChat, Invite, Rename, Write, Kick, bot, roster
  <2> QED
    BY <1>1, <1>2, <2>1, ActTells, ServerOrders
<1>3. CASE Serve
  <2>1. UNCHANGED dict
    BY <1>3 DEF Serve, ServeJoin, ServeCreate, RefuseCreate, ServeOther, bot, roster
  <2> QED
    BY <1>1, <1>3, <2>1, ServeTells, ServerOrders
<1>4. CASE Handle
  BY <1>1, <1>4, HandleReads, ReadingOrders
<1>5. ASSUME UNCHANGED <<toBot, dict>>
      PROVE  OrderInv'
  BY <1>1, <1>5 DEF OrderInv, Entered, Departed, Adds, Removes
<1>6. CASE (\E u \in dict[Public] \cup {NoUser} : PrivChat(u)) \/ Connect
  BY <1>5, <1>6 DEF PrivChat, Connect, roster
<1>7. CASE PrivChatUnknown
  BY <1>7 DEF PrivChatUnknown, Crash
<1>8. CASE LoseConnection
  <2>1. toBot' = <<>> /\ dict' = [c \in Chats |-> {}]
    BY <1>8 DEF LoseConnection, Clear, Empty
  <2>2. \A A, R, B, x, D : UndoneBefore(<<>>, A, R, B, x, D)
    BY DEF UndoneBefore
  <2> QED
    BY <2>1, <2>2 DEF OrderInv, Entered, Departed
<1>9. CASE UNCHANGED vars
  BY <1>5, <1>9 DEF vars, bot, roster
<1> QED
  BY <1>2, <1>3, <1>4, <1>6, <1>7, <1>8, <1>9 DEF Next

LEMMA SenderKept ==
  ASSUME TypeOK, link # "crashed" => OrderInv, SenderAlwaysFound, [Next]_vars
  PROVE  SenderAlwaysFound'
<1> SUFFICES ASSUME fault' = "user" PROVE FALSE
  BY DEF SenderAlwaysFound
<1>1. fault' # fault
  BY DEF SenderAlwaysFound
<1>2. UserJoin \/ UserLeave \/ ChatSay
  BY <1>1 DEF Next, Act, KickOne, Join, Leave, Say, OpenChat, Invite, Rename, Write, Kick, Serve,
     ServeJoin, ServeCreate, RefuseCreate, ServeOther, Handle, UserList, Crash,
     PrivateMessage, UserStatus, Unhandled, ChatCreated, Invitation,
     PrivChat, PrivChatUnknown, Connect, LoseConnection, vars, bot
<1> DEFINE m == toBot[1]
<1>3. link = "online" /\ toBot # <<>> /\ OrderInv
  BY <1>2 DEF UserJoin, UserLeave, ChatSay, Receives
<1>4. Head(toBot) = m /\ m \in Message
  BY <1>3 DEF TypeOK
<1> HIDE DEF m
<1>5. m.chat \in Chats /\ m.user \in Uids /\ Public \in Chats /\ dict \in [Chats -> SUBSET Uids]
  BY <1>4, ChatsAssumption DEF Message, TypeOK
<1>6. m.user \in dict[m.chat] => m.user \in dict[Public]
  BY <1>3, <1>5 DEF OrderInv
<1>7. CASE UserJoin
  <2>1. /\ m.type = "user_join" /\ m.user \notin dict'[Public]
        /\ dict' = [dict EXCEPT ![m.chat] = @ \cup {m.user}]
    BY <1>1, <1>4, <1>7 DEF UserJoin, Receives, Crash, AddUser
  <2>2. m.chat # Public /\ m.user \notin dict[Public] /\ m \in Adds(m.chat, m.user)
    BY <1>4, <1>5, <2>1 DEF Adds
  <2> QED
    BY <1>3, <1>5, <2>2, NextOrdered DEF m
<1>8. CASE UserLeave \/ ChatSay
  <2>1. m.user \in dict[m.chat] /\ m.user \notin dict[Public]
    BY <1>1, <1>4, <1>8 DEF UserLeave, ChatSay, Crash, bot
  <2> QED
    BY <1>6, <2>1
<1> QED
  BY <1>2, <1>7, <1>8

(* Where users enter the public chat first and leave it last, and nobody is  *)
(* kicked, wb_bot_dispatch_message finds the sender of every message of a    *)
(* chat on the public chat, in whatever order joins, leaves and the chats    *)
(* the bot is taken to interleave.                                          *)
THEOREM SendersAreFound == PrivateFirst = TRUE /\ Kicks = FALSE /\ Spec => []SenderAlwaysFound
<1> DEFINE Ordered == NestInv /\ (link # "crashed" => OrderInv) /\ SenderAlwaysFound
<1>1. SUFFICES ASSUME PrivateFirst = TRUE, Kicks = FALSE PROVE Spec => []SenderAlwaysFound
  OBVIOUS
<1>2. Init => RosterInv /\ Ordered
  <2> SUFFICES ASSUME Init PROVE RosterInv /\ Ordered
    OBVIOUS
  <2>1. PICK s \in SUBSET Users : members = [Empty EXCEPT ![Public] = s]
    BY DEF Init
  <2>2. \A c \in Chats : c # Public => members[c] = {}
    BY <2>1 DEF Empty
  <2>3. /\ toBot = <<>> /\ toServer = <<>> /\ link = "offline" /\ fault = "none"
        /\ dict = [c \in Chats |-> {}]
    BY DEF Init, Empty
  <2>4. NestInv
    BY <2>2, <2>3 DEF NestInv
  <2>5. \A A, R, B, x, D : UndoneBefore(<<>>, A, R, B, x, D)
    BY DEF UndoneBefore
  <2>6. OrderInv
    BY <2>3, <2>5 DEF OrderInv, Entered, Departed
  <2> QED
    BY <2>3, <2>4, <2>6, StartsFollowed DEF SenderAlwaysFound
<1>3. TypeOK /\ RosterInv /\ [Next]_vars => RosterInv'
  BY <1>1, RosterKept
<1>4. TypeOK /\ RosterInv /\ Ordered /\ [Next]_vars => Ordered'
  <2> SUFFICES ASSUME TypeOK, RosterInv, Ordered, [Next]_vars PROVE Ordered'
    OBVIOUS
  <2>1. NestInv'
    BY <1>1, NestKept DEF RosterInv
  <2>2. link' # "crashed" => OrderInv'
    BY <1>1, <2>1, OrderKept
  <2> QED
    BY <2>1, <2>2, SenderKept
<1>5. Ordered => SenderAlwaysFound
  OBVIOUS
<1> HIDE DEF Ordered
<1> QED
  BY <1>2, <1>3, <1>4, <1>5, TypeCorrect, PTL DEF Spec

-----------------------------------------------------------------------------
(* Nicks.  Where the server refuses a nick in use, no two users of a chat    *)
(* have one, and the bot never believes that two have.                      *)
NickInv ==
  /\ \A u \in Uids : nick[u] = SelfNick <=> u = Self
  /\ \A u, v \in members[Public] : nick[u] = nick[v] => u = v

LEMMA NickKept ==
  ASSUME TypeOK, ExistInv, NickInv, UniqueNicks = TRUE, [Next]_vars
  PROVE  NickInv'
<1>1. /\ members \in [Chats -> SUBSET Uids] /\ Public \in Chats /\ Self \in Uids
      /\ nick \in [Uids -> Nicks \cup {SelfNick}] /\ SelfNick \notin Nicks
      /\ \A u \in Users : u \in Uids /\ u # Self
  BY UsersAssumption, ChatsAssumption, NicksAssumption DEF TypeOK, Uids
<1>2. ASSUME nick' = nick, members'[Public] \subseteq members[Public] \cup {Self}
      PROVE  NickInv'
  BY <1>1, <1>2 DEF NickInv
<1>3. ASSUME NEW u \in Users, NEW n \in Nicks, nick' = [nick EXCEPT ![u] = n],
             members'[Public] \subseteq members[Public] \cup {u},
             \A v \in members[Public] \ {u} : nick[v] # n
      PROVE  NickInv'
  BY <1>1, <1>3 DEF NickInv
<1>4. ASSUME NEW c \in Chats, NEW u \in Users, NEW n \in Nicks, Join(c, u, n)
      PROVE  NickInv'
  <2>1. nick' = [nick EXCEPT ![u] = n] /\ members' = [members EXCEPT ![c] = @ \cup {u}]
    BY <1>4 DEF Join
  <2>2. CASE c = Public
    <3>1. \A v \in members[Public] \ {u} : nick[v] # n
      BY <1>4, <2>2 DEF Join, NickFree
    <3> QED
      BY <1>1, <1>3, <2>1, <2>2, <3>1
  <2>3. CASE c # Public
    <3>1. n = nick[u]
      BY <1>4, <2>3 DEF Join
    <3>2. nick' = nick /\ members'[Public] = members[Public]
      BY <1>1, <2>1, <2>3, <3>1
    <3> QED
      BY <1>2, <3>2
  <2> QED
    BY <2>2, <2>3
<1>5. ASSUME NEW u \in Users, NEW n \in Nicks, Rename(u, n)
      PROVE  NickInv'
  <2>1. /\ nick' = [nick EXCEPT ![u] = n] /\ members' = members
        /\ \A v \in members[Public] \ {u} : nick[v] # n
    BY <1>5 DEF Rename, NickFree
  <2> QED
    BY <1>3, <2>1
<1>6. ASSUME NEW c \in Chats, NEW u \in Uids,
             Leave(c, u) \/ Kick(c, u) \/ Say(c, u) \/ Invite(c, u) \/ OpenChat(c, u)
      PROVE  NickInv'
  <2>1. nick' = nick
    BY <1>6 DEF Leave, Kick, Say, Invite, OpenChat
  <2>2. members'[Public] \subseteq members[Public]
    BY <1>1, <1>6 DEF Leave, Kick, Say, Invite, OpenChat, ExistInv
  <2> QED
    BY <1>2, <2>1, <2>2
<1>7. CASE Serve
  <2>1. nick' = nick
    BY <1>7 DEF Serve, ServeJoin, ServeCreate, RefuseCreate, ServeOther, serverVars
  <2>2. members' = members \/ members' = [members EXCEPT ![Head(toServer).chat] = @ \cup {Self}]
    BY <1>7 DEF Serve, ServeJoin, ServeCreate, RefuseCreate, ServeOther, serverVars
  <2> QED
    BY <1>1, <1>2, <2>1, <2>2
<1>8. CASE LoseConnection
  <2>1. members' = [c \in Chats |-> members[c] \ {Self}] /\ nick' = nick
    BY <1>8 DEF LoseConnection
  <2> QED
    BY <1>1, <1>2, <2>1
<1>9. ASSUME UNCHANGED <<members, nick>>
      PROVE  NickInv'
  BY <1>2, <1>9
<1>10. CASE Handle
  BY <1>9, <1>10 DEF Handle, UserList, UserJoin, UserLeave, ChatSay, PrivateMessage, UserStatus,
                     Unhandled, ChatCreated, Invitation, serverVars
<1>11. CASE \/ \E u \in dict[Public] \cup {NoUser} : PrivChat(u)
            \/ PrivChatUnknown \/ Connect \/ UNCHANGED vars
  BY <1>9, <1>11 DEF PrivChat, PrivChatUnknown, Connect, vars, serverVars
<1>12. ASSUME NEW u \in Users, NEW type, Write(type, u)
       PROVE  NickInv'
  BY <1>9, <1>12 DEF Write
<1> QED
  BY <1>1, <1>4, <1>5, <1>6, <1>7, <1>8, <1>10, <1>11, <1>12 DEF Next, Act, KickOne

(* What calls the user v by the nick n, and what ends it. *)
Calling(v, n)   == {m \in Names(v) : m.nick = n}
Uncalling(v, n) == Removes(Public, v) \cup {m \in Names(v) : m.nick # n}
Called(n)       == {v \in dict[Public] : nickOf[v] = n}

(* The bot hears of u by the nick of v only when v has it no more. *)
OneCalled(u, v, n) ==
  UndoneBefore(toBot, Calling(v, n), Uncalling(v, n), Calling(u, n), v, Called(n))

(* The last the bot hears of a user who left is that it left. *)
Gone(v) ==
  Self \in members[Public] /\ v \notin members[Public]
    => Undone(toBot, Names(v), Removes(Public, v), v, dict[Public])

CallInv ==
  /\ \A u, v \in Uids : u # v => \A n \in Nicks \cup {SelfNick} : OneCalled(u, v, n)
  /\ \A v \in Uids : Gone(v)
  /\ \A u, v \in dict[Public] : nickOf[u] = nickOf[v] => u = v

LEMMA UndoneMore ==
  ASSUME NEW s, NEW A, NEW B, NEW R, NEW Q, NEW x, NEW D, NEW E,
         Undone(s, A, R, x, D), B \subseteq A, R \subseteq Q, E \subseteq D
  PROVE  Undone(s, B, Q, x, E)
BY DEF Undone

LEMMA ServerCalls ==
  ASSUME TypeOK, FollowInv, NickInv', CallInv, UNCHANGED <<dict, nickOf>>,
         NEW M \in SUBSET Message, Extends(toBot, toBot', M), Told(M)
  PROVE  CallInv'
<1>1. Public \in Chats
  BY ChatsAssumption
<1>2. ASSUME NEW v \in Uids
      PROVE  Gone(v)'
  <2> SUFFICES ASSUME Self \in members'[Public], v \notin members'[Public]
               PROVE  Undone(toBot', Names(v)', Removes(Public, v)', v, dict'[Public])
    BY DEF Gone
  <2> DEFINE N == Names(v)
             R == Removes(Public, v)
  <2>1. Calls(v) /\ Gone(v)
    BY <1>1 DEF FollowInv, CallInv
  <2>2. /\ \A m \in M : m \notin N
        /\ {Self, v} \subseteq members[Public] => \E m \in M : m \in R
    BY <1>1 DEF Told
  <2> HIDE DEF N, R
  <2>3. Undone(toBot', N, R, v, dict[Public])
    <3>1. CASE {Self, v} \subseteq members[Public]
      BY <2>2, <3>1, NowUndone
    <3>2. CASE Self \in members[Public] /\ v \notin members[Public]
      <4>1. Undone(toBot, N, R, v, dict[Public])
        BY <2>1, <3>2 DEF Gone, N, R
      <4> QED
        BY <2>2, <4>1, KeptUndone
    <3>3. CASE Self \notin members[Public]
      <4>1. Undone(toBot, N, {}, v, dict[Public])
        BY <2>1, <3>3 DEF Calls, N
      <4>2. Undone(toBot', N, {}, v, dict[Public])
        BY <2>2, <4>1, KeptUndone
      <4> QED
        BY <4>2, UndoneLess
    <3> QED
      BY <3>1, <3>2, <3>3
  <2> QED
    BY <2>3 DEF N, R, Names, Removes
<1>3. ASSUME NEW u \in Uids, NEW v \in Uids, u # v, NEW n \in Nicks \cup {SelfNick}
      PROVE  OneCalled(u, v, n)'
  <2> DEFINE A == Calling(v, n)
             R == Uncalling(v, n)
             B == Calling(u, n)
             D == Called(n)
  <2>1. UndoneBefore(toBot, A, R, B, v, D)
    BY <1>3 DEF CallInv, OneCalled
  <2>2. \A m \in M : m \in B => {Self, u} \subseteq members'[Public] /\ nick'[u] = n
    BY DEF Told, Calling
  <2>3. \A m \in M : m \in A => v \in members'[Public] /\ nick'[v] = n
    BY DEF Told, Calling
  <2>4. \A m, k \in M : m \in A /\ k \in B => m = k
    BY <1>3, <2>2, <2>3 DEF NickInv
  <2>5. (\E k \in M : k \in B) => Undone(toBot, A, R, v, D)
    <3> SUFFICES ASSUME NEW k \in M, k \in B PROVE Undone(toBot, A, R, v, D)
      OBVIOUS
    <3>1. {Self, u} \subseteq members'[Public] /\ nick'[u] = n /\ k \in Names(u)
      BY <2>2 DEF Calling
    <3>2. Calls(v) /\ Gone(v)
      BY <1>1 DEF FollowInv, CallInv
    <3>3. A \subseteq Names(v) /\ Removes(Public, v) \subseteq R /\ D \subseteq dict[Public]
      BY DEF Calling, Uncalling, Called
    <3>4. CASE {Self, v} \subseteq members[Public]
      <4>1. v \in members'[Public]
        <5> SUFFICES ASSUME v \notin members'[Public] PROVE FALSE
          OBVIOUS
        <5>1. PICK m \in M : m \in Removes(Public, v)
          BY <1>1, <3>4 DEF Told
        <5>2. m.type = k.type
          BY DEF Told
        <5> QED
          BY <3>1, <5>1, <5>2 DEF Names, Removes
      <4>2. nick'[v] # n
        BY <1>3, <3>1, <4>1 DEF NickInv
      <4>3. nick'[v] = nick[v]
        <5> SUFFICES ASSUME nick'[v] # nick[v] PROVE FALSE
          OBVIOUS
        <5>1. PICK m \in M : m \in Names(v)
          BY <3>1 DEF Told
        <5>2. m = k
          BY DEF Told
        <5> QED
          BY <1>3, <3>1, <5>1, <5>2 DEF Names
      <4>4. Undone(toBot, Wrongly(v), Rightly(v), v, Misnamed(nick[v]))
        BY <3>2, <3>4 DEF Calls
      <4>5. A \subseteq Wrongly(v) /\ Rightly(v) \subseteq R /\ D \subseteq Misnamed(nick[v])
        BY <4>2, <4>3 DEF Calling, Uncalling, Called, Wrongly, Rightly, Misnamed
      <4> HIDE DEF A, R, D
      <4> QED
        BY <4>4, <4>5, UndoneMore
    <3>5. CASE Self \in members[Public] /\ v \notin members[Public]
      <4>1. Undone(toBot, Names(v), Removes(Public, v), v, dict[Public])
        BY <3>2, <3>5 DEF Gone
      <4> HIDE DEF A, R, D
      <4> QED
        BY <3>3, <4>1, UndoneMore
    <3>6. CASE Self \notin members[Public]
      <4>1. Undone(toBot, Names(v), {}, v, dict[Public])
        BY <3>2, <3>6 DEF Calls
      <4> HIDE DEF A, R, D
      <4> QED
        BY <3>3, <4>1, UndoneLess
    <3> QED
      BY <3>4, <3>5, <3>6
  <2>6. A' = A /\ R' = R /\ B' = B /\ D' = D
    BY DEF Calling, Uncalling, Called, Names, Removes
  <2> HIDE DEF A, R, B, D
  <2>7. UndoneBefore(toBot', A, R, B, v, D)
    BY <2>1, <2>4, <2>5, KeptUndoneBefore
  <2> QED
    BY <2>6, <2>7 DEF OneCalled, A, R, B, D
<1> QED
  BY <1>2, <1>3 DEF CallInv

LEMMA ReadingCalls ==
  ASSUME TypeOK, CallInv, Reads
  PROVE  CallInv'
<1>1. /\ IsSeq(toBot) /\ toBot # <<>> /\ toBot' = Tail(toBot)
      /\ UNCHANGED members /\ Public \in Chats
      /\ dict \in [Chats -> SUBSET Uids] /\ dict' \in [Chats -> SUBSET Uids]
      /\ nickOf \in [Uids -> Nicks \cup {SelfNick}]
  BY ChatsAssumption DEF Reads, TypeOK, IsSeq, serverVars
<1> DEFINE m == toBot[1]
<1>2. m \in Message
  BY <1>1 DEF TypeOK
<1> HIDE DEF m
<1>3. \A v \in Uids : /\ v \in dict'[Public] => m \in Names(v) \/ v \in dict[Public]
                      /\ v \in dict'[Public] => m \notin Removes(Public, v)
                      /\ v \in dict'[Public] =>
                           nickOf'[v] = IF m \in Names(v) THEN m.nick ELSE nickOf[v]
  BY <1>1 DEF Reads, Adds, Removes, Names, m
<1>4. ASSUME NEW v \in Uids
      PROVE  Gone(v)'
  <2> SUFFICES ASSUME Self \in members[Public], v \notin members[Public]
               PROVE  Undone(toBot', Names(v)', Removes(Public, v)', v, dict'[Public])
    BY <1>1 DEF Gone
  <2> DEFINE N == Names(v)
             R == Removes(Public, v)
  <2>1. Undone(toBot, N, R, v, dict[Public])
    BY DEF CallInv, Gone
  <2>2. v \in dict'[Public] => toBot[1] \in N \/ (v \in dict[Public] /\ toBot[1] \notin R)
    BY <1>3 DEF m
  <2> HIDE DEF N, R
  <2>3. Undone(toBot', N, R, v, dict'[Public])
    BY <1>1, <2>1, <2>2, ReadUndone
  <2> QED
    BY <2>3 DEF N, R, Names, Removes
<1>5. ASSUME NEW u \in Uids, NEW v \in Uids, u # v, NEW n \in Nicks \cup {SelfNick}
      PROVE  OneCalled(u, v, n)' /\ (m \in Calling(u, n) => v \notin Called(n))
  <2> DEFINE A == Calling(v, n)
             R == Uncalling(v, n)
             B == Calling(u, n)
             D == Called(n)
             E == {w \in dict'[Public] : nickOf'[w] = n}
  <2>1. UndoneBefore(toBot, A, R, B, v, D)
    BY <1>5 DEF CallInv, OneCalled
  <2>2. v \in E => toBot[1] \in A \/ (v \in D /\ toBot[1] \notin R)
    <3> SUFFICES ASSUME v \in E, m \notin A PROVE v \in D /\ m \notin R
      BY DEF m
    <3>1. v \in dict'[Public] /\ nickOf'[v] = n
      OBVIOUS
    <3>2. m \notin Names(v)
      BY <1>3, <3>1 DEF Calling
    <3> QED
      BY <1>3, <3>1, <3>2 DEF Called, Uncalling
  <2>3. A' = A /\ R' = R /\ B' = B /\ D' = E
    BY DEF Calling, Uncalling, Called, Names, Removes
  <2> HIDE DEF A, R, B, D, E
  <2>4. UndoneBefore(toBot', A, R, B, v, E)
    BY <1>1, <2>1, <2>2, ReadUndoneBefore
  <2>5. m \in B => v \notin D
    BY <1>1, <2>1, FirstUndone DEF m
  <2> QED
    BY <2>3, <2>4, <2>5 DEF OneCalled, A, R, B, D
<1>6. ASSUME NEW u \in dict'[Public], NEW v \in dict'[Public], nickOf'[u] = nickOf'[v], u # v,
             m \notin Names(v)
      PROVE  FALSE
  <2>1. u \in Uids /\ v \in Uids
    BY <1>1
  <2>2. nickOf'[v] = nickOf[v] /\ v \in dict[Public] /\ nickOf[v] \in Nicks \cup {SelfNick}
    BY <1>1, <1>3, <1>6, <2>1
  <2> DEFINE n == nickOf[v]
  <2>3. v \in Called(n)
    BY <2>2 DEF Called
  <2>4. CASE m \in Names(u)
    <3>1. m \in Calling(u, n)
      BY <1>3, <1>6, <2>1, <2>2, <2>4 DEF Calling
    <3> QED
      BY <1>5, <1>6, <2>1, <2>2, <2>3, <3>1
  <2>5. CASE m \notin Names(u)
    <3>1. u \in dict[Public] /\ nickOf[u] = nickOf[v]
      BY <1>3, <1>6, <2>1, <2>2, <2>5
    <3> QED
      BY <1>6, <2>2, <3>1 DEF CallInv
  <2> QED
    BY <2>4, <2>5
<1>7. \A u, v \in dict'[Public] : nickOf'[u] = nickOf'[v] => u = v
  <2> SUFFICES ASSUME NEW u \in dict'[Public], NEW v \in dict'[Public],
                      nickOf'[u] = nickOf'[v], u # v
               PROVE  FALSE
    OBVIOUS
  <2>1. m \notin Names(u) \/ m \notin Names(v)
    BY DEF Names
  <2> QED
    BY <1>6, <2>1
<1> QED
  BY <1>4, <1>5, <1>7 DEF CallInv

LEMMA CallKept ==
  ASSUME TypeOK, RosterInv, NickInv', Kicks = FALSE, link # "crashed" => CallInv, [Next]_vars
  PROVE  link' # "crashed" => CallInv'
<1> SUFFICES ASSUME link' # "crashed" PROVE CallInv'
  OBVIOUS
<1>1. link # "crashed" /\ CallInv /\ FollowInv /\ ExistInv
  BY Alive DEF RosterInv
<1>2. CASE Act \/ KickOne
  <2>1. UNCHANGED <<dict, nickOf>>
    BY <1>2 DEF Act, KickOne, Join, Leave, Say, OpenChat, Invite, Rename, Write, Kick, bot, roster
  <2> QED
    BY <1>1, <1>2, <2>1, ActTells, ServerCalls
<1>3. CASE Serve
  <2>1. UNCHANGED <<dict, nickOf>>
    BY <1>3 DEF Serve, ServeJoin, ServeCreate, RefuseCreate, ServeOther, bot, roster
  <2> QED
    BY <1>1, <1>3, <2>1, ServeTells, ServerCalls
<1>4. CASE Handle
  BY <1>1, <1>4, HandleReads, ReadingCalls
<1>5. ASSUME UNCHANGED <<members, toBot, dict, nickOf>>
      PROVE  CallInv'
  <2>1. \A u, v, n : OneCalled(u, v, n)' = OneCalled(u, v, n)
    BY <1>5 DEF OneCalled, Calling, Uncalling, Called, Names, Removes
  <2>2. \A v : Gone(v)' = Gone(v)
    BY <1>5 DEF Gone, Names, Removes
  <2> QED
    BY <1>1, <1>5, <2>1, <2>2 DEF CallInv
<1>6. CASE (\E u \in dict[Public] \cup {NoUser} : PrivChat(u)) \/ Connect
  BY <1>5, <1>6 DEF PrivChat, Connect, roster, serverVars
<1>7. CASE PrivChatUnknown
  BY <1>7 DEF PrivChatUnknown, Crash
<1>8. CASE LoseConnection
  <2>1. /\ toBot' = <<>> /\ dict' = [c \in Chats |-> {}]
        /\ Self \notin members'[Public] /\ Public \in Chats
    BY <1>8, ChatsAssumption DEF LoseConnection, Clear, Empty
  <2>2. \A A, R, B, x, D : UndoneBefore(<<>>, A, R, B, x, D)
    BY DEF UndoneBefore
  <2> QED
    BY <2>1, <2>2 DEF CallInv, OneCalled, Gone
<1>9. CASE UNCHANGED vars
  BY <1>5, <1>9 DEF vars, bot, roster, serverVars
<1> QED
  BY <1>2, <1>3, <1>4, <1>6, <1>7, <1>8, <1>9 DEF Next

LEMMA RightReceiver ==
  ASSUME NEW s \in Seq(Uids), NEW nicks, NEW u \in ToSet(s),
         \A v, w \in ToSet(s) : nicks[v] = nicks[w] => v = w,
         AnswerReachesSender, Dispatch(u, s, nicks)
  PROVE  AnswerReachesSender'
<1> DEFINE r == WithNick(s, nicks, nicks[u])
<1>1. r \in ToSet(s) /\ nicks[r] = nicks[u]
  BY FindingNick
<1>2. answers' = answers \/ answers' = answers \cup {<<u, r>>}
  BY DEF Dispatch
<1> HIDE DEF r
<1>3. r = u
  BY <1>1
<1> QED
  BY <1>2, <1>3 DEF AnswerReachesSender

LEMMA AnswerKept ==
  ASSUME TypeOK, TypeOK', ListInv, ListInv', link # "crashed" => CallInv,
         link' # "crashed" => CallInv', AnswerReachesSender, [Next]_vars
  PROVE  AnswerReachesSender'
<1>1. /\ array[Public] \in Seq(Uids) /\ array'[Public] \in Seq(Uids)
      /\ ToSet(array[Public]) = dict[Public] /\ ToSet(array'[Public]) = dict'[Public]
  BY ChatsAssumption DEF TypeOK, ListInv, Listed
<1>2. CASE UNCHANGED answers
  BY <1>2 DEF AnswerReachesSender
<1>3. ASSUME link # "crashed", NEW u \in dict[Public], Dispatch(u, array[Public], nickOf)
      PROVE  AnswerReachesSender'
  BY <1>1, <1>3, RightReceiver DEF CallInv
<1>4. ASSUME link' # "crashed", NEW u \in dict'[Public], Dispatch(u, array'[Public], nickOf')
      PROVE  AnswerReachesSender'
  <2>1. \A v, w \in dict'[Public] : nickOf'[v] = nickOf'[w] => v = w
    BY <1>4 DEF CallInv
  <2> QED
    BY <1>1, <1>4, <2>1, RightReceiver
<1>5. CASE UserJoin
  <2>1. link = "online"
    BY <1>5 DEF UserJoin, Receives
  <2>2. \/ UNCHANGED answers
        \/ /\ link' = link
           /\ \E u \in dict'[Public] : Dispatch(u, array'[Public], nickOf')
    BY <1>5 DEF UserJoin, Crash, history
  <2> QED
    BY <1>2, <1>4, <2>1, <2>2
<1>6. CASE UserLeave \/ ChatSay
  <2>1. link = "online"
    BY <1>6 DEF UserLeave, ChatSay, Receives
  <2>2. \/ UNCHANGED answers
        \/ \E u \in dict[Public] : Dispatch(u, array[Public], nickOf)
    BY <1>6 DEF UserLeave, ChatSay, Crash, history
  <2> QED
    BY <1>2, <1>3, <2>1, <2>2
<1>7. CASE PrivateMessage
  <2>1. link = "online"
    BY <1>7 DEF PrivateMessage, Receives
  <2>2. \/ UNCHANGED answers
        \/ \E u \in dict[Public] : Dispatch(u, array[Public], nickOf)
    BY <1>7 DEF PrivateMessage
  <2> QED
    BY <1>2, <1>3, <2>1, <2>2
<1>8. CASE Handle
  BY <1>2, <1>5, <1>6, <1>7, <1>8
     DEF Handle, UserList, UserStatus, Unhandled, ChatCreated, Invitation, Crash, history
<1>9. CASE Act \/ KickOne \/ Serve
  BY <1>2, <1>9 DEF Act, KickOne, Join, Leave, Say, OpenChat, Invite, Rename, Write, Kick, Serve,
                    ServeJoin, ServeCreate, RefuseCreate, ServeOther, history
<1>10. ASSUME \/ \E u \in dict[Public] \cup {NoUser} : PrivChat(u)
              \/ PrivChatUnknown \/ Connect \/ LoseConnection \/ UNCHANGED vars
       PROVE  AnswerReachesSender'
  BY <1>2, <1>10 DEF PrivChat, PrivChatUnknown, Connect, LoseConnection, Crash, vars, history
<1> QED
  BY <1>8, <1>9, <1>10 DEF Next

(* Where the server refuses a nick in use, and nobody is kicked, a private   *)
(* answer goes to the user who caused it: though users take each other's     *)
(* nicks while messages are under way, no two users the bot knows at a time  *)
(* have the same nick for it.                                               *)
THEOREM AnswersArrive == UniqueNicks = TRUE /\ Kicks = FALSE /\ Spec => []AnswerReachesSender
<1> DEFINE Answering == /\ RosterInv /\ ListInv /\ NickInv
                        /\ link # "crashed" => CallInv
                        /\ AnswerReachesSender
<1>1. SUFFICES ASSUME UniqueNicks = TRUE, Kicks = FALSE PROVE Spec => []AnswerReachesSender
  OBVIOUS
<1>2. Init => Answering
  <2> SUFFICES ASSUME Init PROVE Answering
    OBVIOUS
  <2>1. PICK s \in SUBSET Users : members = [Empty EXCEPT ![Public] = s]
    BY DEF Init
  <2>2. members[Public] \subseteq Uids /\ Public \in Chats /\ Self \notin members[Public]
    BY <2>1, UsersAssumption, ChatsAssumption DEF Empty, Uids
  <2>3. toBot = <<>> /\ dict = [c \in Chats |-> {}] /\ answers = {}
    BY DEF Init, Empty
  <2>4. NickInv
    BY <1>1, <2>2 DEF Init, NickInv, NickFree
  <2>5. \A A, R, B, x, D : UndoneBefore(<<>>, A, R, B, x, D)
    BY DEF UndoneBefore
  <2>6. CallInv
    BY <2>2, <2>3, <2>5 DEF CallInv, OneCalled, Gone
  <2> QED
    BY <2>3, <2>4, <2>6, StartsFollowed, StartsListed DEF AnswerReachesSender
<1>3. TypeOK /\ TypeOK' /\ Answering /\ [Next]_vars => Answering'
  <2> SUFFICES ASSUME TypeOK, TypeOK', Answering, [Next]_vars PROVE Answering'
    OBVIOUS
  <2>1. RosterInv'
    BY <1>1, RosterKept
  <2>2. ListInv'
    BY ListKept DEF RosterInv
  <2>3. NickInv'
    BY <1>1, NickKept DEF RosterInv
  <2>4. link' # "crashed" => CallInv'
    BY <1>1, <2>3, CallKept
  <2>5. AnswerReachesSender'
    BY <2>2, <2>4, AnswerKept
  <2> QED
    BY <2>1, <2>2, <2>3, <2>4, <2>5
<1>4. Answering => AnswerReachesSender
  OBVIOUS
<1> HIDE DEF Answering
<1> QED
  BY <1>2, <1>3, <1>4, TypeCorrect, PTL DEF Spec
=============================================================================
