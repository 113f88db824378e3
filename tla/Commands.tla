------------------------------ MODULE Commands ------------------------------
(***************************************************************************)
(* What the bot does is done by the commands of commands.c: an output of   *)
(* the dictionary is turned into a line (output.c), the line is parsed,    *)
(* its first word is looked up in a table by prefix, and the command sends *)
(* a numbered request, or changes what the bot says of itself, or ends the *)
(* process, since most of what a person would see printed is printed to a  *)
(* window the bot does not have.                                           *)
(*                                                                         *)
(* The module follows the bot's identity (nick, status and icon) between   *)
(* the bot, a file, and a server that may refuse it, over logins, losses   *)
(* of the session and reloads, and the numbers of the requests, by which a *)
(* late error is given the name of the command that caused it.             *)
(*                                                                         *)
(* The lines of one answer are separated by delays.  The signal thread may *)
(* reload the icon (HUP) or close the session (INT, TERM, QUIT) between    *)
(* them, or in the middle of one: nothing is locked, so a line is parsed,  *)
(* found to need a session, given a number, written and counted in steps,  *)
(* and so is the /icon the signal thread executes.  Lines that open        *)
(* another session are not modelled.                                       *)
(***************************************************************************)
EXTENDS Integers, Sequences, FiniteSetsExt

CONSTANTS
  Begins,      \* <<word, name>>: the word is a prefix of the command's name
  Nicks, Statuses, Icons,
  NoValue,     \* an empty argument, and what the server shows before it is told
  NoIcon,      \* there is no icon file
  DefaultIcon, \* wr_default_icon
  IconPath,    \* the path of the icon file
  Present,     \* the nicks on the public chat
  Refused,     \* nicks and statuses the server does not accept
  Values,      \* all arguments of commands
  Answers,     \* the answers of the dictionary: a kind and a sequence of texts
  Bookmarks,   \* the files /load finds: sequences of texts, by name
  NoNumber,    \* the message has no wired.transaction
  Wrap,        \* the numbers of requests are 0 .. Wrap - 1 (2^32 in the code)
  Burst,       \* bound: the lines one message of a user leads to
  MaxEvents    \* bound: messages of users, HUPs, losses and changes of the icon file

-----------------------------------------------------------------------------
(* The table wr_commands.                                                  *)

(* The names, in the order of the table. *)
Order == <<
  "broadcast", "charset", "clear", "close", "connect", "disconnect", "echo", "exit",
  "help", "icon", "ignore", "ignores", "info", "invite", "join", "load", "log", "me",
  "msg", "nick", "open", "privchat", "quit", "save", "say", "server", "serverinfo",
  "status", "timestamp", "topic", "unignore", "uptime", "version", "who", "whois",
  "ls", "mv", "rm", "subscribe", "unsubscribe" >>

Names == {Order[i] : i \in DOMAIN Order}

\* A slip: the row of /rm does not say that it needs a session.
NeedSessionButRm ==
  {"broadcast", "disconnect", "info", "invite", "me", "msg", "privchat", "say",
   "serverinfo", "topic", "who", "whois", "ls", "mv", "subscribe", "unsubscribe"}

(* The rows that say that the command needs a session. *)
NeedSession ==
  {"broadcast", "disconnect", "info", "invite", "me", "msg", "privchat", "say",
   "serverinfo", "topic", "who", "whois", "ls", "mv", "rm", "subscribe", "unsubscribe"}

(* The number of arguments a command takes at least. *)
Optional == {"clear", "close", "disconnect", "exit", "help", "ignore", "ignores",
             "privchat", "quit", "serverinfo", "status", "timestamp", "topic",
             "unignore", "uptime", "version", "who", "ls"}
Least(name) == IF name \in Optional THEN 0 ELSE IF name \in {"msg", "mv"} THEN 2 ELSE 1

(* What the actions do: send a request; send one about a user, if the user *)
(* is found; change a part of the identity; open a session; end the        *)
(* process; print; or look at the current window.                          *)
Asking   == {"broadcast", "me", "say", "ls", "mv", "rm", "subscribe", "unsubscribe"}
AskingAbout == {"info", "whois", "msg", "privchat"}
Setting  == {"nick", "status"}
Opening  == {"connect", "join", "open", "server"}
Stopping == {"quit", "exit"}
Printing == {"charset", "echo", "help", "ignore", "ignores", "save", "serverinfo",
             "timestamp", "unignore", "uptime", "version"}
Looking  == {"clear", "close", "invite", "log", "topic", "who"}

(* wr_commands_index_for_command: the rows a word may stand for; the first *)
(* one is taken.                                                           *)
Words == {b[1] : b \in Begins} \cup {"unknown"}
Hits  == [word \in Words |-> {i \in DOMAIN Order : <<word, Order[i]>> \in Begins}]
Lookup(word) == Order[Min(Hits[word])]

(* Every name is found by itself: none is hidden by an earlier one of which *)
(* it is a prefix.                                                          *)
ASSUME NamesFound == \A name \in Names : name \in Words /\ Lookup(name) = name

-----------------------------------------------------------------------------
(* Texts, lines and messages. *)

Text  == [slash : BOOLEAN, word : Words, args : 0..2, value : Values]
(* A chat text without a slash is given a word before it is parsed. *)
Plain(chat, text) == chat /\ ~text.slash

Line  == [chat : BOOLEAN, text : Text, job : {"prefix", "parse"}]
Task  == Line \cup {[job |-> "reload"]}

Parse(chat, text) ==
  [chat |-> chat, text |-> text, job |-> IF Plain(chat, text) THEN "prefix" ELSE "parse"]
Slash(word, args, value) ==
  [slash |-> TRUE, word |-> word, args |-> args, value |-> value]

Kinds == {"say", "me", "message", "broadcast", "other"}

(* wb_output_wire_command_string and wb_output_is_chat: the line for a text *)
(* of the dictionary and the kind of message it is to be sent as.           *)
LineFor(kind, text, nick) ==
  CASE kind = "say"       -> Parse(TRUE, text)
    [] kind = "me"        -> Parse(TRUE, Slash("me", 1, NoValue))
    [] kind = "message"   -> Parse(FALSE, Slash("msg", 2, nick))
    [] kind = "broadcast" -> Parse(FALSE, Slash("broadcast", 1, NoValue))
    [] kind = "other"     -> Parse(FALSE, text)

Parts    == {"nick", "status", "icon"}
Number   == (0..(Wrap - 1)) \cup {NoNumber}
Request  == [value : Values, name : Names \cup {"login", "join_chat"}, number : Number]
Reply    == [kind : {"okay", "error", "info"}, number : Number, cause : Names \cup {"none"}]
Identity == [nick : Values, status : Values, icon : Icons]

(* What a thread is about to send: nothing, or a request whose message is   *)
(* made, has its number, or is written and not yet counted.                *)
Threads == {"main", "signal"}
Stages  == {"none", "made", "numbered", "written"}
Sending == [value : Values, name : Names \cup {"none"}, number : Number, stage : Stages]
Nothing == [value |-> NoValue, name |-> "none", number |-> NoNumber, stage |-> "none"]

ASSUME ValuesAssumption ==
  /\ Nicks \cup Statuses \cup Icons \cup {NoValue, IconPath} \subseteq Values
  /\ DefaultIcon \in Icons /\ NoIcon \notin Icons
  /\ Present \subseteq Values
ASSUME NumbersAssumption ==
  /\ Wrap \in Nat \ {0, 1} /\ NoNumber \notin 0..(Wrap - 1)
  /\ {Burst, MaxEvents} \subseteq Nat
  /\ Burst > 1   \* the lines of !reload
(* The dictionary and the bookmarks open no other session. *)
ASSUME TextsAssumption ==
  LET Opens(t) == Hits[t.word] # {} /\ Lookup(t.word) \in Opening /\ t.args > 0
      Fits(s)  == s \in Seq(Text) /\ Len(s) <= Burst
                  /\ \A i \in DOMAIN s : ~Opens(s[i])
  IN  /\ \A a \in Answers : a.kind \in Kinds /\ Fits(a.texts)
      /\ \A b \in DOMAIN Bookmarks : Fits(Bookmarks[b])

(* Burst bounds the lines a message leads to if a text that loads a file is *)
(* the only one of its answer, and no file loads another.                   *)
LoadsFile(t) == Hits[t.word] # {} /\ Lookup(t.word) = "load"
LoadsAlone ==
  /\ \A a \in Answers : \A i \in DOMAIN a.texts :
       LoadsFile(a.texts[i]) => Len(a.texts) = 1
  /\ \A b \in DOMAIN Bookmarks : \A i \in DOMAIN Bookmarks[b] : ~LoadsFile(Bookmarks[b][i])

VARIABLES
  process,     \* "up", "exited" or "crashed"
  culprit,     \* what it crashed in
  running,     \* wr_running
  left,        \* /disconnect was executed
  link,        \* the session: "lost", a step of the login, "on", "off" for good
  own,         \* wr_nick, wr_status, wr_icon
  untold,      \* wr_icon changed without being sent since it last was
  todo,        \* what remains of the answer under way
  number,      \* wr_commands_transaction
  named,       \* wr_commands_transactions
  sending,     \* what each thread does in wr_commands_send_message
  misnamed,    \* an error was logged under another name than its command's
  crossed,     \* both threads were in wr_commands_send_message at once
  (* The server and the operator. *)
  alive,       \* the server's end of the session is open
  shown,       \* the bot's identity on the server
  toServer, toBot,
  disk,        \* the icon file
  events

botVars    == <<process, culprit, running, left, own, untold>>
numbers    == <<number, named, sending>>
history    == <<misnamed, crossed>>
netVars    == <<link, alive, shown, toServer, toBot>>
budgetVars == <<disk, events>>
vars       == <<botVars, todo, numbers, history, netVars, budgetVars>>

Logins == {"nick", "status", "icon", "login"}

TypeOK ==
  /\ process \in {"up", "exited", "crashed"}
  /\ culprit \in Names \cup {"none", "write", "login", "user_info"}
  /\ running \in BOOLEAN /\ left \in BOOLEAN
  /\ link \in Logins \cup {"opening", "lost", "on", "off"}
  /\ own \in Identity /\ untold \in BOOLEAN
  /\ todo \in Seq(Task)
  /\ number \in 0..(Wrap - 1)
  /\ named \in [0..(Wrap - 1) -> Names \cup {"none"}]
  /\ sending \in [Threads -> Sending]
  /\ misnamed \in BOOLEAN /\ crossed \in BOOLEAN
  /\ alive \in BOOLEAN
  /\ shown \in [Parts -> Values]
  /\ toServer \in Seq(Request) /\ toBot \in Seq(Reply)
  /\ disk \in Icons \cup {NoIcon}
  /\ events \in Nat

(* The first login is done and the public chat is being joined.  The icon  *)
(* was that of the file, or the default one if there was none; the file    *)
(* may have changed since.                                                 *)
Init ==
  /\ process = "up" /\ culprit = "none"
  /\ running = TRUE /\ left = FALSE
  /\ link = "on" /\ alive = TRUE
  /\ disk \in Icons \cup {NoIcon}
  /\ own \in [nick : Nicks \ Refused, status : Statuses \ Refused, icon : Icons]
  /\ shown = own
  /\ untold = FALSE
  /\ todo = <<>>
  /\ number = 0 /\ named = [n \in 0..(Wrap - 1) |-> "none"]
  /\ sending = [t \in Threads |-> Nothing]
  /\ misnamed = FALSE /\ crossed = FALSE
  /\ toServer = <<[value |-> NoValue, name |-> "join_chat", number |-> NoNumber]>>
  /\ toBot = <<>>
  /\ events = 0

Up == process = "up"

(* wr_connected is set, at the end of a login, before the new session takes  *)
(* the place of the old one, which was released.                           *)
Connected == link \in {"opening", "on"}

-----------------------------------------------------------------------------
(* Requests. *)

Crash(in) == /\ process' = "crashed"
             /\ culprit' = in

(* wr_client_write_message: a write to a session the server has closed may  *)
(* go unnoticed, and is never answered; one that fails is printed.          *)
Write(request) ==
  \/ /\ toServer' = Append(toServer, request)
     /\ UNCHANGED <<process, culprit>>
  \/ /\ ~alive
     /\ Crash("write")
     /\ UNCHANGED toServer

(* A session that was released: nothing is sent, whether or not the process *)
(* survives.                                                               *)
WriteStale ==
  /\ \/ UNCHANGED <<process, culprit>>
     \/ Crash("write")
  /\ UNCHANGED toServer

(* The message a command is to send.  wr_commands_send_message is executed  *)
(* by either thread in three steps: *)
Make(t, name, value) ==
  sending' = [sending EXCEPT ![t] =
    [value |-> value, name |-> name, number |-> NoNumber, stage |-> "made"]]

(* A thread has a number and has not moved the counter on. *)
Numbered(t) == sending[t].stage \in {"numbered", "written"}

\* A slip: the name is stored after the counter was moved on.
TakeLate(t) ==
  /\ Up /\ sending[t].stage = "made"
  /\ sending' = [sending EXCEPT ![t].stage = "numbered", ![t].number = number]
  /\ named' = [named EXCEPT ![(number + 1) % Wrap] = sending[t].name]
  /\ crossed' = (crossed \/ \E u \in Threads \ {t} : Numbered(u))
  /\ UNCHANGED <<botVars, todo, number, misnamed, netVars, budgetVars>>

(* the message is given the number, and the name is stored under it; *)
Take(t) ==
  /\ Up /\ sending[t].stage = "made"
  /\ sending' = [sending EXCEPT ![t].stage = "numbered", ![t].number = number]
  /\ named' = [named EXCEPT ![number] = sending[t].name]
  /\ crossed' = (crossed \/ \E u \in Threads \ {t} : Numbered(u))
  /\ UNCHANGED <<botVars, todo, number, misnamed, netVars, budgetVars>>

(* it is written, to the session there is by now, or to one that was        *)
(* released;                                                               *)
Put(t) ==
  LET s == sending[t]
  IN  /\ Up /\ s.stage = "numbered"
      /\ IF link = "on"
           THEN /\ Write([value |-> s.value, name |-> s.name, number |-> s.number])
                /\ UNCHANGED untold
           ELSE /\ WriteStale
                /\ untold' = (untold \/ s.name = "icon")
      /\ sending' = [sending EXCEPT ![t].stage = "written"]
      /\ UNCHANGED <<running, left, own, todo, number, named, history, link, alive, shown,
                     toBot, budgetVars>>

\* A slip: the counter is wider than the number of the protocol.
AfterWider(n) == n + 1

After(n) == (n + 1) % Wrap

(* The values the counter had since a thread took its number. *)
Since(n) == {(n + i) % Wrap : i \in 0..((number - n) % Wrap)}

(* and the counter is moved on from what it is, or was, if the other thread *)
(* moves it meanwhile.                                                     *)
Count(t) ==
  /\ Up /\ sending[t].stage = "written"
  /\ number' \in {After(n) : n \in Since(sending[t].number)}
  /\ sending' = [sending EXCEPT ![t] = Nothing]
  /\ UNCHANGED <<botVars, todo, named, history, netVars, budgetVars>>

SendNothing == UNCHANGED sending

(* wr_commands_command_for_message. *)
NameFor(reply) == IF reply.number = NoNumber THEN "none" ELSE named[reply.number]

(* A thread has an icon to send. *)
Unsent(t) == sending[t].name = "icon" /\ sending[t].stage \in {"made", "numbered"}

(* wr_command_icon when the file can be read.  If the other thread has an   *)
(* icon to send, the server may keep that one.                             *)
TakeIcon(t, icon) ==
  /\ own' = [own EXCEPT !.icon = icon]
  /\ IF Connected THEN Make(t, "icon", icon) ELSE SendNothing
  /\ untold' = (~Connected \/ \E u \in Threads \ {t} : Unsent(u))

\* A slip: the icon is read again and not sent.
ReloadIconOnly(t) ==
  /\ own' = [own EXCEPT !.icon = IF disk = NoIcon THEN DefaultIcon ELSE disk]
  /\ untold' = TRUE
  /\ SendNothing

(* The part of wb_bot_reload_configuration about the icon.                 *)
(* wr_client_reload_icon takes the file, or the default icon if there is   *)
(* none; /icon is executed only if there is a file.                        *)
ReloadIcon(t) ==
  IF disk = NoIcon
    THEN /\ own' = [own EXCEPT !.icon = DefaultIcon]
         /\ untold' = TRUE
         /\ SendNothing
    ELSE TakeIcon(t, disk)

-----------------------------------------------------------------------------
(* The parser and the commands: one line of the answer under way.          *)

\* A slip: what is to be said is echoed while there is a session.
PrefixSwapped == IF Connected THEN "echo" ELSE "say"

(* A chat text without a slash is said, or echoed if there is no session.   *)
Prefix == IF Connected THEN "say" ELSE "echo"

WordOf(line) == line.text.word
ArgsOf(line) == IF Plain(line.chat, line.text) THEN 1 ELSE line.text.args

(* The command needs a session and there is none. *)
WithoutSession(name) == name \in NeedSession /\ ~Connected

Current == Head(todo)
Known   == Hits[WordOf(Current)] # {}
Name    == Lookup(WordOf(Current))
Arg     == Current.text.value

(* The main thread comes to a line when it is done with the one before. *)
Turn     == Up /\ todo # <<>> /\ sending["main"].stage = "none"
Parsing  == Turn /\ Current.job = "parse"
NextLine == todo' = Tail(todo)

(* The text is given its word, and is parsed afterwards. *)
GiveWord ==
  /\ Turn /\ Current.job = "prefix"
  /\ todo' = [todo EXCEPT ![1].job = "parse", ![1].text.word = Prefix]
  /\ UNCHANGED <<botVars, numbers, history, netVars, budgetVars>>

(* The command is found and may be executed. *)
Executes(names) ==
  /\ Parsing /\ Known
  /\ Name \in names
  /\ ~WithoutSession(Name)
  /\ ArgsOf(Current) >= Least(Name)

(* An unknown command, or one that needs a session: logged. *)
Drops ==
  /\ Parsing
  /\ Known => WithoutSession(Name)
  /\ NextLine
  /\ UNCHANGED <<botVars, numbers, history, netVars, budgetVars>>

(* wr_commands_print_usage_for_command. *)
PrintUsage ==
  /\ Parsing /\ Known
  /\ ~WithoutSession(Name)
  /\ ArgsOf(Current) < Least(Name)
  /\ Crash(Name)
  /\ UNCHANGED <<running, left, own, untold, todo, numbers, history, netVars, budgetVars>>

(* /say, /me, /broadcast, /ls, /mv, /rm, /subscribe, /unsubscribe. *)
Ask ==
  /\ Executes(Asking)
  /\ Make("main", Name, NoValue)
  /\ NextLine
  /\ UNCHANGED <<botVars, number, named, history, netVars, budgetVars>>

(* /msg, /info, /whois, /privchat: /whois is sent under the name info. *)
AskAbout ==
  /\ Executes(AskingAbout)
  /\ Arg \in Present \/ (Name = "privchat" /\ ArgsOf(Current) = 0)
  /\ Make("main", IF Name = "whois" THEN "info" ELSE Name, Arg)
  /\ NextLine
  /\ UNCHANGED <<botVars, number, named, history, netVars, budgetVars>>

(* "Client not found" is printed. *)
AskAboutNobody ==
  /\ Executes(AskingAbout)
  /\ Arg \notin Present /\ ~(Name = "privchat" /\ ArgsOf(Current) = 0)
  /\ Crash(Name)
  /\ UNCHANGED <<running, left, own, untold, todo, numbers, history, netVars, budgetVars>>

(* So it is if the signal thread closed the session, and forgot its users,  *)
(* before the user was looked up.                                          *)
UsersForgotten ==
  LET s == sending["main"]
  IN  /\ Up /\ s.stage = "made" /\ s.name \in AskingAbout
      /\ link = "off"
      /\ Crash(s.name)
      /\ UNCHANGED <<running, left, own, untold, todo, numbers, history, netVars, budgetVars>>

(* /nick, /status: nothing happens if the value is the bot's own already;  *)
(* the value is kept whether or not the server accepts it.                 *)
Set ==
  /\ Executes(Setting)
  /\ LET value == IF ArgsOf(Current) = 0 THEN NoValue ELSE Arg
     IN  IF value = own[Name]
           THEN SendNothing /\ UNCHANGED own
           ELSE /\ own' = [own EXCEPT ![Name] = value]
                /\ IF Connected THEN Make("main", Name, value) ELSE SendNothing
  /\ NextLine
  /\ UNCHANGED <<process, culprit, running, left, untold, number, named, history, netVars,
                 budgetVars>>

(* /icon of the file; any other path cannot be read, which is printed. *)
SetIcon ==
  /\ Executes({"icon"})
  /\ Arg = IconPath /\ disk # NoIcon
  /\ TakeIcon("main", disk)
  /\ NextLine
  /\ UNCHANGED <<process, culprit, running, left, number, named, history, netVars, budgetVars>>

SetIconFails ==
  /\ Executes({"icon"})
  /\ Arg # IconPath \/ disk = NoIcon
  /\ Crash("icon")
  /\ UNCHANGED <<running, left, own, untold, todo, numbers, history, netVars, budgetVars>>

(* The commands that print or look at the current window. *)
Show ==
  /\ Executes(Printing \cup Looking)
  /\ Crash(Name)
  /\ UNCHANGED <<running, left, own, untold, todo, numbers, history, netVars, budgetVars>>

(* /load: the lines of the file are parsed first, and not as chat. *)
Load ==
  /\ Executes({"load"})
  /\ Arg \in DOMAIN Bookmarks
  /\ todo' = [i \in DOMAIN Bookmarks[Arg] |-> Parse(FALSE, Bookmarks[Arg][i])] \o Tail(todo)
  /\ UNCHANGED <<botVars, numbers, history, netVars, budgetVars>>

LoadFails ==
  /\ Executes({"load"})
  /\ Arg \notin DOMAIN Bookmarks
  /\ Crash("load")
  /\ UNCHANGED <<running, left, own, untold, todo, numbers, history, netVars, budgetVars>>

(* /quit and /exit. *)
Quit ==
  /\ Executes(Stopping)
  /\ running' = FALSE
  /\ NextLine
  /\ UNCHANGED <<process, culprit, left, own, untold, numbers, history, netVars, budgetVars>>

(* wr_client_disconnect: the socket leaves the run loop and nothing will   *)
(* connect again.                                                          *)
Close ==
  /\ link' = "off"
  /\ alive' = FALSE
  /\ toServer' = <<>> /\ toBot' = <<>>
  /\ UNCHANGED shown

Disconnect ==
  /\ Executes({"disconnect"})
  /\ Close
  /\ left' = TRUE
  /\ NextLine
  /\ UNCHANGED <<process, culprit, running, own, untold, numbers, history, budgetVars>>

(* !reload. *)
Reload ==
  /\ Turn /\ Current.job = "reload"
  /\ ReloadIcon("main")
  /\ NextLine
  /\ UNCHANGED <<process, culprit, running, left, number, named, history, netVars, budgetVars>>

Handle == \/ GiveWord
          \/ Drops
          \/ PrintUsage
          \/ Ask
          \/ AskAbout
          \/ AskAboutNobody
          \/ UsersForgotten
          \/ Set
          \/ SetIcon
          \/ SetIconFails
          \/ Show
          \/ Load
          \/ LoadFails
          \/ Quit
          \/ Disconnect
          \/ Reload
          \/ Take("main")
          \/ Put("main")
          \/ Count("main")

-----------------------------------------------------------------------------
(* The rest of the main thread: answers, the end, losses and logins.       *)

Idle == Up /\ running /\ link = "on" /\ todo = <<>> /\ sending["main"].stage = "none"

(* wr_message_okay and wr_message_error: an error is logged with the name  *)
(* of the command the number stands for.                                   *)
HandleReply ==
  /\ Idle /\ toBot # <<>>
  /\ LET reply == Head(toBot)
     IN  /\ reply.kind # "info"
         /\ IF reply.kind = "error"
              THEN misnamed' = (misnamed \/ NameFor(reply) # reply.cause)
              ELSE UNCHANGED misnamed
  /\ toBot' = Tail(toBot)
  /\ UNCHANGED <<botVars, todo, numbers, crossed, link, alive, shown, toServer, budgetVars>>

(* wr_message_user_info prints what /info asked for. *)
HandleInfo ==
  /\ Idle /\ toBot # <<>>
  /\ Head(toBot).kind = "info"
  /\ Crash("user_info")
  /\ UNCHANGED <<running, left, own, untold, todo, numbers, history, netVars, budgetVars>>

(* The run loop ends when the answer under way is finished. *)
Exit ==
  /\ Up /\ ~running /\ todo = <<>> /\ sending["main"].stage = "none"
  /\ link \in {"on", "off"}
  /\ process' = "exited"
  /\ UNCHANGED <<culprit, running, left, own, untold, todo, numbers, history, netVars, budgetVars>>

LoseSession ==
  /\ Idle /\ ~alive /\ toBot = <<>>
  /\ link' = "lost"
  /\ toServer' = <<>>
  /\ UNCHANGED <<botVars, todo, numbers, history, alive, shown, toBot, budgetVars>>

(* A request of the login, which has no number. *)
Bare(name, value) == [value |-> value, name |-> name, number |-> NoNumber]

(* wr_client_reconnect after its ten seconds: the one attempt fails, or the *)
(* server is reached and told the nick.                                     *)
Redial ==
  /\ Up /\ link = "lost"
  /\ \/ /\ link' = "off"
        /\ UNCHANGED <<alive, shown, toServer>>
     \/ /\ link' = "nick"
        /\ alive' = TRUE
        /\ shown' = [p \in Parts |-> NoValue]
        /\ toServer' = <<Bare("nick", own.nick)>>
  /\ UNCHANGED <<botVars, todo, numbers, history, toBot, budgetVars>>

Answered(stage) == /\ Up /\ link = stage
                   /\ toBot # <<>>
                   /\ toBot' = Tail(toBot)

\* A slip: the nick is sent twice, the status not at all.
LoginStatusCopied ==
  /\ Answered("nick")
  /\ link' = "status"
  /\ Write(Bare("nick", own.nick))
  /\ UNCHANGED <<running, left, own, untold, todo, numbers, history, alive, shown, budgetVars>>

(* The steps of wr_client_login: what the server answered to the one before *)
(* is not looked at, except for the last.                                   *)
LoginStatus ==
  /\ Answered("nick")
  /\ link' = "status"
  /\ Write(Bare("status", own.status))
  /\ UNCHANGED <<running, left, own, untold, todo, numbers, history, alive, shown, budgetVars>>

LoginIcon ==
  /\ Answered("status")
  /\ link' = "icon"
  /\ Write(Bare("icon", own.icon))
  /\ untold' = (untold /\ Unsent("signal"))
  /\ UNCHANGED <<running, left, own, todo, numbers, history, alive, shown, budgetVars>>

LoginSend ==
  /\ Answered("icon")
  /\ link' = "login"
  /\ Write(Bare("login", NoValue))
  /\ UNCHANGED <<running, left, own, untold, todo, numbers, history, alive, shown, budgetVars>>

(* The login is accepted, the public chat joined and wr_connected set; *)
LoginDone ==
  /\ Answered("login") /\ Head(toBot).kind = "okay"
  /\ link' = "opening"
  /\ Write(Bare("join_chat", NoValue))
  /\ UNCHANGED <<running, left, own, untold, todo, numbers, history, alive, shown, budgetVars>>

(* then the session can be used. *)
Opened ==
  /\ Up /\ link = "opening"
  /\ link' = "on"
  /\ UNCHANGED <<botVars, todo, numbers, history, alive, shown, toServer, toBot, budgetVars>>

(* A refusal is printed. *)
LoginRefused ==
  /\ Answered("login") /\ Head(toBot).kind = "error"
  /\ Crash("login")
  /\ UNCHANGED <<running, left, own, untold, todo, numbers, history, link, alive, shown,
                 toServer, budgetVars>>

(* No answer comes: wr_client_connect gives up. *)
LoginLost ==
  /\ Up /\ link \in Logins /\ ~alive /\ toBot = <<>>
  /\ link' = "off"
  /\ toServer' = <<>>
  /\ UNCHANGED <<botVars, todo, numbers, history, alive, shown, toBot, budgetVars>>

Session == \/ HandleReply
           \/ HandleInfo
           \/ Exit
           \/ LoseSession
           \/ Redial
           \/ LoginStatus
           \/ LoginIcon
           \/ LoginSend
           \/ LoginDone
           \/ Opened
           \/ LoginRefused
           \/ LoginLost

-----------------------------------------------------------------------------
(* The signal thread. *)

(* The requests that are or may soon be under way. *)
Unwritten(t) == IF sending[t].stage \in {"made", "numbered"} THEN 1 ELSE 0
Due == Len(toServer) + Len(toBot) + Len(todo) + Unwritten("main") + Unwritten("signal")

(* HUP reloads the icon and the dictionary, wherever the main thread is. *)
Hup ==
  /\ Up /\ events < MaxEvents /\ Due + Burst <= Wrap
  /\ sending["signal"].stage = "none"
  /\ ReloadIcon("signal")
  /\ events' = events + 1
  /\ UNCHANGED <<process, culprit, running, left, todo, number, named, history, netVars, disk>>

(* INT, TERM or QUIT.  During a login and after a loss: see Session.tla. *)
Terminate ==
  /\ Up /\ link = "on" /\ running
  /\ sending["signal"].stage = "none"
  /\ running' = FALSE
  /\ Close
  /\ UNCHANGED <<process, culprit, left, own, untold, todo, numbers, history, budgetVars>>

Signal == Hup \/ Terminate \/ Take("signal") \/ Put("signal") \/ Count("signal")

-----------------------------------------------------------------------------
(* The users, the operator and the server (external).                      *)

(* A message of a user is dispatched: Engine.tla says which leads to what. *)
Hears(tasks) ==
  /\ Idle /\ alive /\ events < MaxEvents /\ Due + Burst <= Wrap
  /\ todo' = tasks
  /\ events' = events + 1
  /\ UNCHANGED <<botVars, numbers, history, netVars, disk>>

(* A rule answers; the user who spoke is on the public chat. *)
HearTalk ==
  \E a \in Answers, nick \in Present :
    Hears([i \in DOMAIN a.texts |-> LineFor(a.kind, a.texts[i], nick)])

(* !nick and !status. *)
HearNick ==
  \E nick \in Nicks : Hears(<<Parse(FALSE, Slash("nick", 1, nick))>>)

HearStatus ==
  \/ \E status \in Statuses : Hears(<<Parse(FALSE, Slash("status", 1, status))>>)
  \/ Hears(<<Parse(FALSE, Slash("status", 0, NoValue))>>)

(* !reload, which may fail for the dictionary's sake. *)
HearReload ==
  \/ Hears(<<[job |-> "reload"]>>)
  \/ Hears(<<[job |-> "reload"], Parse(TRUE, Slash("me", 1, NoValue))>>)

DiskChange ==
  /\ Up /\ events < MaxEvents
  /\ disk' \in (Icons \cup {NoIcon}) \ {disk}
  /\ events' = events + 1
  /\ UNCHANGED <<botVars, todo, numbers, history, netVars>>

Drop ==
  /\ Up /\ alive /\ events < MaxEvents
  /\ alive' = FALSE
  /\ events' = events + 1
  /\ UNCHANGED <<botVars, todo, numbers, history, link, shown, toServer, toBot, disk>>

(* What the server may answer to a request. *)
Verdicts(r) ==
  CASE r.name \in Parts -> IF r.value \in Refused THEN {"error"} ELSE {"okay"}
    [] r.name = "info"  -> {"info", "error"}
    [] OTHER            -> {"okay", "error"}

(* Requests are answered in order; the answer repeats the number.  cause   *)
(* remembers which command sent the request.                               *)
Serve ==
  /\ Up /\ alive /\ toServer # <<>>
  /\ LET r     == Head(toServer)
         cause == IF r.number = NoNumber THEN "none" ELSE r.name
     IN  \E verdict \in Verdicts(r) :
           /\ toBot' = Append(toBot, [kind |-> verdict, number |-> r.number, cause |-> cause])
           /\ shown' = IF r.name \in Parts /\ verdict = "okay"
                         THEN [shown EXCEPT ![r.name] = r.value] ELSE shown
  /\ toServer' = Tail(toServer)
  /\ UNCHANGED <<botVars, todo, numbers, history, link, alive, budgetVars>>

World == HearTalk \/ HearNick \/ HearStatus \/ HearReload \/ DiskChange \/ Drop

-----------------------------------------------------------------------------
Bot == Handle \/ Session

Next == Bot \/ Signal \/ Serve \/ World

Spec == Init /\ [][Next]_vars

(* The main thread runs and the server answers. *)
FairSpec == Spec /\ WF_vars(Bot) /\ WF_vars(Serve)

-----------------------------------------------------------------------------
(* Properties. *)

(* Once the server has seen every request, it shows the nick and the status *)
(* the bot takes for its own (wr_nick, wr_status), unless it refuses them,  *)
(* and the icon, unless one was changed without sending it or while the     *)
(* other thread was sending one: over every loss, login and change in the   *)
(* middle of an answer.                                                    *)
IdentityAgrees ==
  (/\ Up /\ Connected /\ alive /\ toServer = <<>>
   /\ \A t \in Threads : sending[t].stage \notin {"made", "numbered"}) =>
    /\ \A p \in {"nick", "status"} : own[p] \in Refused \/ shown[p] = own[p]
    /\ untold \/ shown.icon = own.icon

(* An error is logged under the command that caused it, however late it     *)
(* comes and however many requests and sessions came between, as long as no *)
(* more than Wrap requests are unanswered and the two threads never held a  *)
(* number at once, the /icon of a HUP and a command that is being sent; an  *)
(* error of a request without a number is logged under no name.             *)
ErrorsAreNamed == misnamed => crossed

(* The main thread counts a number only while there is a session, or one    *)
(* the signal thread closed between the test of wr_connected and the use    *)
(* of the session: what the table says of each command fits what the        *)
(* command does, also after an answer closed the session itself.            *)
NumbersNeedSession ==
  [][(number' # number /\ UNCHANGED sending["signal"]) => Connected \/ (~running /\ ~left)]_vars

(* A plain text ends the process only if the session was closed under it:   *)
(* it is echoed, to a window that does not exist, when it cannot be said.   *)
TalkIsSafe ==
  (process = "crashed" /\ culprit = "echo" /\ ~Current.text.slash /\ Current.chat)
    => ~running \/ left

Reloading == link = "on" /\ todo # <<>> /\ Head(todo).job = "reload"

(* README: an icon file and !reload in a chat are enough to change the      *)
(* icon.  The server comes to show the file, or the bot or the file go.     *)
ReloadShowsIcon ==
  \A icon \in Icons :
    (Reloading /\ disk = icon)
      ~> shown.icon = icon \/ disk # icon \/ ~alive \/ ~Connected \/ ~Up
=============================================================================
