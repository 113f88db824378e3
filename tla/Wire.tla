-------------------------------- MODULE Wire --------------------------------
(***************************************************************************)
(* The bot as a client of the Wired protocol: the login of client.c, the   *)
(* callback of the socket, the table of handlers of messages.c and what     *)
(* each of them sends, and the lookups (Posting) during which nothing is    *)
(* read, against a server that keeps to the specification (Wired).          *)
(*                                                                         *)
(* Every message is verified when it is read; the login takes the next one  *)
(* that comes for the answer it waits for.  A server may be slow, may close *)
(* the session and may send a message that does not verify.                 *)
(*                                                                         *)
(* What the requests ask for, the process and its signals other than HUP    *)
(* are the subject of the other modules.                                    *)
(***************************************************************************)
EXTENDS Wired, Posting, Naturals

CONSTANTS
  News,         \* what the server tells unasked
  Replies,      \* the answers it gives
  Said,         \* the requests the answers of the dictionary are
  NoNumber,     \* a message that has none
  NoId,         \* wb_user_id before the first login
  HasStatus,    \* wr_status is set
  Watched,      \* the number of watchers of the dictionary
  Batches,      \* the new files a listing may bring
  MaxSessions, MaxPings, MaxBatches, MaxTurns
                \* bounds: sessions, pings of the server, listings with new files; and how
                \* often, together, the server tells something or breaks a message, the bot calls,
                \* and a signal comes

(* What the tables say: a handler reads no more than a message must have,    *)
(* except for what nothing is done with.                                    *)
ASSUME UsesAssumption == \A n \in DOMAIN Uses : Uses[n] \ Ornaments \subseteq Required[n]

(* What the commands of commands.c send, those that set nick, status and     *)
(* icon included.                                                           *)
Spoken == DOMAIN (TalkRequests @@ IdleRequests @@ FileRequests)
            \cup {"user.set_nick", "user.set_status", "user.set_icon"}

(* The bot fills in what each request must have, the server may answer every *)
(* request but the answer to a ping, and its greeting has fields.           *)
ASSUME TablesAssumption ==
  /\ \A n \in DOMAIN Filled : Required[n] \subseteq Filled[n]
  /\ DOMAIN Filled \subseteq DOMAIN Answers \cup {"ping"}
  /\ Spoken \cup {"client_info", "send_login", "chat.join_chat", "chat.invite_user",
                  "file.list_directory", "file.subscribe_directory",
                  "file.unsubscribe_directory", "board.add_thread", "chat.send_say",
                  "send_ping", "ping"} \subseteq DOMAIN Filled
  /\ Answers["client_info"] = {<<"server_info">>}
  /\ Required["server_info"] # {}

ASSUME NewsAssumption    == News \subseteq Broadcasts
ASSUME RepliesAssumption ==
  /\ DOMAIN Replies = DOMAIN Answers
  /\ \A n \in DOMAIN Answers : Replies[n] \subseteq Answers[n] \cap Seq(STRING)
ASSUME SaidAssumption    == Said \subseteq Spoken
ASSUME StatusAssumption  == HasStatus \in BOOLEAN
ASSUME WatchedAssumption == Watched \in Nat
ASSUME BatchesAssumption == Batches \subseteq Seq(Files)
ASSUME NumbersAssumption == NoNumber \notin Nat /\ NoId \notin Nat
ASSUME BoundsAssumption  == {MaxSessions, MaxPings, MaxBatches, MaxTurns} \subseteq Nat

VARIABLES
  (* The server. *)
  stage,      \* of the session: "new", "greeted" or "in"
  alive,      \* its end of the session is open
  waiting,    \* the pings of this session it waits for an answer to
  rejected,   \* it took a request for malformed or out of sequence
  toServer, toBot,
  (* The bot. *)
  main,       \* where the main thread is
  connected,  \* wr_connected
  ownId,      \* wb_user_id
  missing,    \* the fields the handlers read that were not there
  freed,      \* the watcher whose files are being announced was released
  (* Bounds and history: how often. *)
  sessions, pings, batches, turns

serverVars == <<stage, waiting, rejected>>
botVars    == <<connected, ownId, missing>>
budget     == <<pings, batches, turns>>
vars       == <<serverVars, alive, toServer, toBot, main, botVars, freed, sessions, budget,
                postingVars>>

(* The answer wr_client_login waits for. *)
Login == {"info", "nick", "status", "icon", "login", "privileges"}

Names   == DOMAIN Required
Fields  == UNION {Required[n] : n \in Names}
Message == [name : Names, fields : SUBSET Fields, number : Nat \cup {NoNumber}]

TypeOK ==
  /\ stage \in {"new", "greeted", "in"}
  /\ alive \in BOOLEAN
  /\ waiting \subseteq Nat
  /\ rejected \in BOOLEAN /\ freed \in BOOLEAN
  /\ missing \subseteq UNION {Uses[n] : n \in DOMAIN Uses}
  /\ toServer \in Seq(Message) /\ toBot \in Seq(Message)
  /\ main \in Login \cup {"dialing", "loop", "asleep", "crashed"}
  /\ connected \in BOOLEAN
  /\ ownId \in Nat \cup {NoId}
  /\ sessions \in Nat /\ pings \in Nat /\ batches \in Nat /\ turns \in Nat
  /\ todo \in Seq(Job) /\ phase \in {"ready", "asked", "told"}
  /\ text \in Files \cup {NoText}
  /\ posted \subseteq Post

Init ==
  /\ stage = "new" /\ alive = FALSE /\ waiting = {} /\ rejected = FALSE
  /\ toServer = <<>> /\ toBot = <<>>
  /\ main = "dialing" /\ connected = FALSE /\ ownId = NoId
  /\ missing = {} /\ freed = FALSE
  /\ sessions = 0 /\ pings = 0 /\ batches = 0 /\ turns = 0
  /\ PostingInit

-----------------------------------------------------------------------------
(* One of the turns that are bounded. *)
Turn == turns < MaxTurns /\ turns' = turns + 1

(* Messages. *)

RequestWith(name, number) == [name |-> name, fields |-> Filled[name], number |-> number]
Request(name)      == RequestWith(name, NoNumber)
Sent(name, number) == [name |-> name, fields |-> Required[name], number |-> number]

Complete(m) == Required[m.name] \subseteq m.fields

\* A slip: nothing is verified.
VerifiedNever(m) == TRUE

(* wi_p7_spec_verify_message *)
Verified(m) == Complete(m)

(* The fields its handler reads and does not find. *)
Lacks(m) == IF m.name \in DOMAIN Uses THEN Uses[m.name] \ m.fields ELSE {}

(* The message that is read next. *)
Received == Head(toBot)

(* wr_client_write_message: a write to a session the server has closed may   *)
(* go unnoticed or fail; a failure is printed, to a window that is not there. *)
Write(requests, next) ==
  \/ toServer' = (IF alive THEN toServer \o requests ELSE toServer) /\ main' = next
  \/ ~alive /\ main' = "crashed" /\ UNCHANGED toServer

Silent == UNCHANGED <<main, toServer>>

-----------------------------------------------------------------------------
(* The server (external).                                                  *)

Allowed(name) ==
  CASE stage = "new"     -> name \in BeforeGreeting
    [] stage = "greeted" -> name \in BeforeLogin
    [] stage = "in"      -> TRUE

NextStage(answer) ==
  CASE stage = "new" /\ answer = <<"server_info">>      -> "greeted"
    [] \E i \in DOMAIN answer : answer[i] = "login" -> "in"
    [] OTHER                                        -> stage

(* The next request is answered, or rejected; login carries the id of the    *)
(* user, which is another one in every session.                             *)
Serve ==
  /\ alive /\ toServer # <<>>
  /\ LET m        == Head(toServer)
         accepted == m.name \in DOMAIN Replies /\ Complete(m) /\ Allowed(m.name)
         sent(n)  == Sent(n, IF n = "login" THEN sessions ELSE NoNumber)
     IN /\ m.name # "ping"
        /\ rejected' = (rejected \/ ~accepted)
        /\ \E answer \in IF accepted THEN Replies[m.name] ELSE {<<"error">>} :
             /\ toBot' = toBot \o [i \in DOMAIN answer |-> sent(answer[i])]
             /\ stage' = NextStage(answer)
  /\ toServer' = Tail(toServer)
  /\ UNCHANGED <<waiting, alive, main, botVars, freed, sessions, budget, postingVars>>

TakePing ==
  /\ alive /\ toServer # <<>>
  /\ Head(toServer).name = "ping"
  /\ waiting' = waiting \ {Head(toServer).number}
  /\ toServer' = Tail(toServer)
  /\ UNCHANGED <<stage, rejected, alive, toBot, main, botVars, freed, sessions, budget,
                 postingVars>>

(* It tells those who are logged in. *)
Tell(name) ==
  /\ alive /\ stage = "in" /\ Turn
  /\ toBot' = Append(toBot, Sent(name, NoNumber))
  /\ UNCHANGED <<serverVars, alive, toServer, main, botVars, freed, sessions,
                 pings, batches, postingVars>>

(* A ping, at any time. *)
SendPing ==
  /\ alive /\ pings < MaxPings
  /\ pings' = pings + 1
  /\ waiting' = waiting \cup {pings}
  /\ toBot' = Append(toBot, Sent("send_ping", pings))
  /\ UNCHANGED <<stage, rejected, alive, toServer, main, botVars, freed, sessions,
                 batches, turns, postingVars>>

(* A message without its fields. *)
Break(name) ==
  /\ alive /\ Turn
  /\ toBot' = Append(toBot, [Sent(name, NoNumber) EXCEPT !.fields = {}])
  /\ UNCHANGED <<serverVars, alive, toServer, main, botVars, freed, sessions,
                 pings, batches, postingVars>>

Drop ==
  /\ alive /\ main # "dialing"
  /\ alive' = FALSE
  /\ toServer' = <<>>
  /\ UNCHANGED <<serverVars, toBot, main, botVars, freed, sessions, budget, postingVars>>

-----------------------------------------------------------------------------
(* The login. *)

Refuse ==
  /\ main = "dialing"
  /\ main' = "loop"
  /\ UNCHANGED <<serverVars, alive, toServer, toBot, botVars, freed, sessions, budget,
                 postingVars>>

\* A slip: the nick is sent before the bot has introduced itself.
FirstRequestNick == "user.set_nick"

FirstRequest == "client_info"

Dial ==
  /\ main = "dialing" /\ sessions < MaxSessions
  /\ sessions' = sessions + 1
  /\ stage' = "new" /\ alive' = TRUE /\ waiting' = {}
  /\ toServer' = <<Request(FirstRequest)>>
  /\ toBot' = <<>>
  /\ main' = "info"
  /\ UNCHANGED <<rejected, botVars, freed, budget, postingVars>>

(* The socket is released and nothing will connect again. *)
GiveUp ==
  /\ main' = "loop"
  /\ alive' = FALSE
  /\ toServer' = <<>> /\ toBot' = <<>>
  /\ UNCHANGED <<serverVars, botVars, freed, sessions, budget, postingVars>>

\* A slip: a read waits until the session is closed.
LoginTimeoutNever == main \in Login /\ toBot = <<>> /\ ~alive /\ GiveUp

(* Nothing comes within 30 seconds, or the server has closed the session. *)
LoginTimeout == main \in Login /\ toBot = <<>> /\ GiveUp

LoginUnverified ==
  /\ main \in Login /\ toBot # <<>>
  /\ ~Verified(Received)
  /\ GiveUp

(* wr_client_login reads something.                                         *)
LoginReads(at) ==
  /\ main \in at
  /\ toBot # <<>>
  /\ Verified(Received)
  /\ toBot' = Tail(toBot)
  /\ missing' = missing \cup (IF Received.name \in {"server_info", "login"}
                                THEN Lacks(Received) ELSE {})
  /\ UNCHANGED <<serverVars, alive, connected, freed, sessions, budget, postingVars>>

(* The answer, if it was one, is looked at only by the first step and the    *)
(* last two.                                                                *)
NextLogin(at) ==
  CASE at = "info"   -> "nick"
    [] at = "nick"   -> IF HasStatus THEN "status" ELSE "icon"
    [] at = "status" -> "icon"
    [] at = "icon"   -> "login"

LoginRequest ==
  [nick |-> "user.set_nick", status |-> "user.set_status",
   icon |-> "user.set_icon", login |-> "send_login"]

LoginStep ==
  /\ LoginReads({"info", "nick", "status", "icon"})
  /\ main = "info" => Received.name = "server_info"
  /\ Write(<<Request(LoginRequest[NextLogin(main)])>>, NextLogin(main))
  /\ UNCHANGED ownId

\* A slip: the id is taken from the first login only.
LoginAcceptedOnce ==
  /\ LoginReads({"login"})
  /\ Received.name = "login"
  /\ ownId' = IF ownId = NoId THEN Received.number ELSE ownId
  /\ main' = "privileges"
  /\ UNCHANGED toServer

LoginAccepted ==
  /\ LoginReads({"login"})
  /\ Received.name = "login"
  /\ ownId' = Received.number
  /\ main' = "privileges"
  /\ UNCHANGED toServer

(* wb_bot_subscribe_watchers *)
Subscriptions ==
  [i \in 1..(2 * Watched) |-> Request(IF i % 2 = 1 THEN "file.list_directory"
                                                   ELSE "file.subscribe_directory")]

(* The end of wr_client_connect: the public chat and the directories.       *)
LoginDone ==
  /\ main = "privileges" /\ toBot # <<>>
  /\ Verified(Received) /\ Received.name = "account.privileges"
  /\ toBot' = Tail(toBot)
  /\ connected' = TRUE
  /\ Write(<<Request("chat.join_chat")>> \o Subscriptions, "loop")
  /\ UNCHANGED <<serverVars, alive, ownId, missing, freed, sessions, budget, postingVars>>

(* Anything else is printed. *)
LoginUnexpected ==
  /\ LoginReads({"info", "login", "privileges"})
  /\ CASE main = "info"       -> Received.name # "server_info"
       [] main = "login"      -> Received.name # "login"
       [] main = "privileges" -> Received.name # "account.privileges"
  /\ main' = "crashed"
  /\ UNCHANGED <<toServer, ownId>>

-----------------------------------------------------------------------------
(* The run loop: wr_runloop_server_callback.                               *)

InLoop == main = "loop" /\ connected /\ todo = <<>>

(* The session is closed, or a message does not verify: wr_client_disconnect, *)
(* and ten seconds later wr_client_connect.                                  *)
ReadFails ==
  /\ InLoop
  /\ IF toBot = <<>> THEN ~alive ELSE ~Verified(Received)
  /\ main' = "asleep"
  /\ connected' = FALSE
  /\ alive' = FALSE
  /\ toServer' = <<>> /\ toBot' = <<>>
  /\ UNCHANGED <<serverVars, ownId, missing, freed, sessions, budget, postingVars>>

Redial ==
  /\ main = "asleep"
  /\ main' = "dialing"
  /\ UNCHANGED <<serverVars, alive, toServer, toBot, botVars, freed, sessions, budget,
                 postingVars>>

(* wr_messages_handle_message *)
Handles(names) ==
  /\ InLoop
  /\ toBot # <<>>
  /\ Received.name \in names /\ Verified(Received)
  /\ toBot' = Tail(toBot)
  /\ missing' = missing \cup Lacks(Received)
  /\ UNCHANGED <<serverVars, alive, connected, ownId, sessions, pings>>

Quietly == UNCHANGED <<freed, batches, turns, postingVars>>

\* A slip: the reply has no transaction.
HandlePingPlain ==
  /\ Handles({"send_ping"})
  /\ Write(<<Request("ping")>>, main)
  /\ Quietly

(* wr_message_send_ping, wr_client_reply_message *)
HandlePing ==
  /\ Handles({"send_ping"})
  /\ Write(<<RequestWith("ping", Received.number)>>, main)
  /\ Quietly

(* A chat that /privchat asked for, perhaps to invite a user. *)
HandleCreated ==
  /\ Handles({"chat.chat_created"})
  /\ \/ Write(<<Request("chat.join_chat")>>, main)
     \/ Write(<<Request("chat.join_chat"), Request("chat.invite_user")>>, main)
  /\ Quietly

(* Invitations of users on the public chat are accepted. *)
HandleInvitation ==
  /\ Handles({"chat.invitation"})
  /\ Write(<<Request("chat.join_chat")>>, main) \/ Silent
  /\ Quietly

(* A change of a directory that is watched, or not. *)
HandleChanged ==
  /\ Handles({"file.directory_changed"})
  /\ Write(<<Request("file.list_directory")>>, main) \/ Silent
  /\ Quietly

(* The end of a listing.  Watchers says which files are new. *)
HandleListed ==
  /\ Handles({"file.file_list.done"})
  /\ \/ UNCHANGED <<todo, freed, batches>>
     \/ /\ batches < MaxBatches
        /\ batches' = batches + 1
        /\ \E new \in Batches : todo' = JobsOf(new)
        /\ freed' = FALSE
  /\ UNCHANGED <<main, toServer, turns, phase, text, posted>>

(* wb_bot_reload_configuration: the icon is sent if there is a file, and the *)
(* directories are subscribed to again if the dictionary loads.  Which ones  *)
(* the bot unsubscribes from is chance: the array of watchers was released.  *)
Reloads ==
  \E n \in 0..Watched, icon \in {<<>>, <<Request("user.set_icon")>>},
     again \in {<<>>, Subscriptions} :
    Write([w \in 1..n |-> Request("file.unsubscribe_directory")] \o icon \o again, main)

(* wb_bot_dispatch_message.  Engine says what is answered, and Commands how; *)
(* here the answer is a request, a reload, nothing, or the end.             *)
HandleTalk ==
  /\ Handles({"chat.say", "chat.me", "chat.user_join", "chat.user_leave",
              "message.message", "message.broadcast"})
  /\ \/ Silent
     \/ \E name \in Said : Write(<<Request(name)>>, main)
     \/ Reloads
     \/ main' = "crashed" /\ UNCHANGED toServer
  /\ Quietly

(* What is known of a user is printed. *)
HandleInfo ==
  /\ Handles({"user.info"})
  /\ main' = "crashed"
  /\ UNCHANGED toServer
  /\ Quietly

(* What has no handler, or one that sends nothing. *)
HandleOther ==
  /\ Handles(Names \ {"send_ping", "chat.chat_created", "chat.invitation",
                      "file.directory_changed", "file.file_list.done", "chat.say", "chat.me",
                      "chat.user_join", "chat.user_leave", "message.message",
                      "message.broadcast", "user.info"})
  /\ UNCHANGED <<main, toServer>>
  /\ Quietly

(* The loop of wr_runloop_run, after a minute without messages. *)
Call ==
  /\ InLoop /\ toBot = <<>> /\ Turn
  /\ Write(<<Request("send_ping")>>, main)
  /\ UNCHANGED <<serverVars, alive, toBot, botVars, freed, sessions, pings, batches,
                 postingVars>>

Announcing == main = "loop" /\ connected /\ todo # <<>>

LookUp ==
  /\ Announcing /\ Ask
  /\ UNCHANGED <<serverVars, alive, toServer, toBot, main, botVars, freed, sessions, budget>>

(* wb_watcher_execute_output, after the lookup. *)
Announce ==
  /\ Announcing
  /\ \/ OpenThread /\ Write(<<Request("board.add_thread")>>, main)
     \/ SayIt /\ Write(<<Request("chat.send_say")>>, main)
     \/ Pass /\ Silent
  /\ UNCHANGED <<serverVars, alive, toBot, botVars, freed, sessions, budget>>

(* The watcher and its service were released: the process goes on with what  *)
(* is left in their memory, as if nothing had happened, or ends the loop     *)
(* over the outputs, or dies.                                                *)
UseReleased ==
  /\ Announcing /\ freed
  /\ \/ main' = main /\ todo' = <<>> /\ phase' = "ready" /\ text' = NoText
     \/ main' = "crashed" /\ UNCHANGED <<todo, phase, text>>
  /\ UNCHANGED <<serverVars, alive, toServer, toBot, botVars, freed, sessions, budget, posted>>

(* The web service answers or the connection to it ends (external).         *)
Web ==
  /\ main = "loop" /\ Told
  /\ UNCHANGED <<serverVars, alive, toServer, toBot, main, botVars, freed, sessions, budget>>

-----------------------------------------------------------------------------
(* The signal thread: HUP reloads, as !reload does, and releases the         *)
(* watchers, which may end the process.                                     *)
Hup ==
  /\ main # "crashed" /\ Turn
  /\ freed' = (todo # <<>>)
  /\ \/ connected /\ Reloads
     \/ ~connected /\ Silent
     \/ main' = "crashed" /\ UNCHANGED toServer
  /\ UNCHANGED <<serverVars, alive, toBot, botVars, sessions, pings, batches, postingVars>>

-----------------------------------------------------------------------------
LogIn == \/ Refuse
         \/ Dial
         \/ LoginTimeout
         \/ LoginUnverified
         \/ LoginStep
         \/ LoginAccepted
         \/ LoginDone
         \/ LoginUnexpected

Handle == \/ HandlePing
          \/ HandleCreated
          \/ HandleInvitation
          \/ HandleChanged
          \/ HandleListed
          \/ HandleTalk
          \/ HandleInfo
          \/ HandleOther

Bot == LogIn \/ Handle \/ ReadFails \/ Redial \/ LookUp \/ Announce \/ UseReleased

Server == \/ Serve
          \/ TakePing
          \/ \E name \in News : Tell(name)
          \/ SendPing
          \/ \E name \in News : Break(name)
          \/ Drop

Next == Bot \/ Call \/ Server \/ Web \/ Hup

Spec == Init /\ [][Next]_vars

(* The main thread runs, and a request to the web service comes to an end,   *)
(* which nothing in service.c sees to.  The server need do nothing.         *)
FairSpec == Spec /\ WF_vars(Bot) /\ WF_vars(Web)

-----------------------------------------------------------------------------
(* Properties. *)

(* While there is a session, the server has accepted its login, and the id  *)
(* by which the bot knows its own words is the one of this session, however *)
(* many sessions came before and whatever came in between the answers of    *)
(* the login (wr_client_login takes any message for the answer it expects). *)
OwnIdIsCurrent == connected /\ alive => stage = "in" /\ ownId = sessions

(* The bot keeps to the protocol: the server never has to reject a request  *)
(* as invalid or out of sequence, wherever a reload, a loss or an           *)
(* unexpected message falls (the order of wr_client_login, wr_connected,     *)
(* and the fields every function fills in).                                  *)
NeverRejected == ~rejected

(* A handler reads no field that the message does not have: what it reads is *)
(* required by the specification, and a message without it is never handed  *)
(* to it (wr_client_read_message).  Three fields are read in vain, into      *)
(* variables that were not initialised: whether a user is an administrator  *)
(* and the colour of an account, which only a window would show, and the     *)
(* text of an error, which is logged.                                       *)
FieldsAreThere == missing \subseteq Ornaments

Pinged(n) == \E i \in DOMAIN toBot : toBot[i].name = "send_ping" /\ toBot[i].number = n

Answered(n) ==
  n \notin waiting \/ \E i \in DOMAIN toServer : toServer[i].name = "ping" /\ toServer[i].number = n

(* A ping that reaches a bot that is logged in is answered, with the number *)
(* the server waits for, though the bot may be busy looking up titles.      *)
PingsAreAnswered ==
  \A n \in 0..(MaxPings - 1) :
    (connected /\ Pinged(n)) ~> (Answered(n) \/ ~alive \/ main = "crashed")

(* An attempt to log in comes to an end, even if the server says nothing.   *)
LoginEnds == main \in Login ~> main \notin Login
=============================================================================
