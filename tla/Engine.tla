------------------------------- MODULE Engine -------------------------------
(***************************************************************************)
(* What the bot says: bot.c (dispatch, the choice of a command or a rule,  *)
(* the built-in commands, reload), with the dictionary of Dictionary.      *)
(*                                                                         *)
(* A message of a user may call a command ("!name", in a chat or in a      *)
(* private message); otherwise, while the bot is started, the first rule   *)
(* it matches answers with one of its outputs, repeated as the dictionary  *)
(* says.  What the bot says on the chat comes back to it as a message of   *)
(* its own.  The dictionary is a file; !reload or the signal HUP reads it  *)
(* again, and one that is faulty is taken as far as it could be read.      *)
(*                                                                         *)
(* undefined says that the bot uses an object it released or never set: it *)
(* may go on or end there.  Wording and delays are left out; a permission  *)
(* stands for the users it admits, and what is part of which text is a     *)
(* relation.                                                               *)
(***************************************************************************)
EXTENDS Dictionary

CONSTANTS
  Users,       \* the users of the public chat other than the bot
  Self,        \* wb_user_id
  Texts,
  EmptyText,   \* a text of length 0, as of a join and a leave
  Calls,       \* the command a text calls, by text
  NoName,      \* the text calls none
  Within,      \* which text is part of which: with its case, and without
  Permitted,   \* the users of a permissions attribute, by its text
  HelpText, FailText,
  Documents,   \* what the operator may install as wirebot.xml, by name
  Utterances,  \* the kinds and texts of the messages users send
  MaxRepeat,   \* the highest repeat of an output
  MaxMessages, \* bound: messages of the users
  MaxEdits,    \* bound: changes of the file
  MaxHangups,  \* bound: signals HUP
  MaxSaid      \* bound: said counts no further

Kinds == {"say", "me", "message", "broadcast", "join", "leave"}

Uids    == Users \cup {Self}

Output  == [kind : {"say", "me", "message", "broadcast", "other"}, text : Texts,
            repeat : 0..MaxRepeat]
Input   == [kind : Kinds \cup {"other"}, comparison : Comparisons, sensitive : BOOLEAN,
            pattern : Texts]
Rule    == [permissions : DOMAIN Permitted, activated : BOOLEAN, inputs : SUBSET Input,
            outputs : SUBSET Output]
Command == [name : STRING, permissions : DOMAIN Permitted, activated : BOOLEAN,
            outputs : SUBSET Output]
Message == [user : Uids, kind : Kinds, text : Texts]

Files   == DOMAIN Documents

(* bot->rules and bot->commands after a file was read, and whether it could *)
(* be read to its end.                                                      *)
Contents == [f \in Files |-> [rules    |-> RulesOf(Documents[f]),
                              commands |-> CommandsOf(Documents[f])]]
Good     == [f \in Files |-> Loads(Documents[f])]

ASSUME UsersAssumption  == Self \notin Users
ASSUME TextsAssumption  == {EmptyText, HelpText, FailText} \subseteq Texts
ASSUME CallsAssumption  == \A t \in Texts : Calls[t] \in STRING
ASSUME PermissionsAssumption == \A p \in DOMAIN Permitted : Permitted[p] \subseteq Uids
ASSUME FilesAssumption  ==
  \A f \in Files : Contents[f] \in [rules : Seq(Rule), commands : Seq(Command)]
ASSUME NoNameAssumption ==
  \A f \in Files : \A i \in DOMAIN Contents[f].commands :
     Contents[f].commands[i].name # NoName
ASSUME UttersAssumption == /\ Utterances \subseteq Kinds \X Texts
                           /\ \A w \in Utterances :
                                w[1] \in {"join", "leave"} => w[2] = EmptyText
ASSUME RepeatAssumption == MaxRepeat \in Nat \ {0}
ASSUME BoundsAssumption == {MaxMessages, MaxEdits, MaxHangups, MaxSaid} \subseteq Nat

VARIABLES
  file,       \* the dictionary on disk
  loaded,     \* bot->rules and bot->commands
  xmlHeld,    \* bot->xml is the bot's to release
  started,    \* bot->started
  inbox,      \* messages of the session, the echoes of the bot included
  owed,       \* the outputs still to be sent for the message at hand
  stopping,   \* the message at hand is !stop
  undefined,
  status,     \* "running" or "crashed"
  messages, edits, hangups,
  said,       \* outputs sent
  handled     \* messages of the users that were handled

budget == <<messages, edits, hangups>>
vars   == <<file, loaded, xmlHeld, started, inbox, owed, stopping, undefined, status,
            budget, said, handled>>

TypeOK ==
  /\ file \in Files
  /\ loaded \in {Contents[f] : f \in Files}
  /\ xmlHeld \in BOOLEAN
  /\ started \in BOOLEAN
  /\ inbox \in Seq(Message)
  /\ owed \in Seq(Output)
  /\ stopping \in BOOLEAN
  /\ undefined \in BOOLEAN
  /\ status \in {"running", "crashed"}
  /\ messages \in Nat /\ edits \in Nat /\ hangups \in Nat
  /\ said \in Nat
  /\ handled \in Nat

(* wb_bot_init_with_file: a bot whose dictionary does not load ends. *)
Init ==
  /\ file \in {f \in Files : Good[f]}
  /\ loaded = Contents[file]
  /\ xmlHeld = TRUE
  /\ started = TRUE
  /\ inbox = <<>>
  /\ owed = <<>>
  /\ stopping = FALSE
  /\ undefined = FALSE
  /\ status = "running"
  /\ messages = 0 /\ edits = 0 /\ hangups = 0
  /\ said = 0
  /\ handled = 0

-----------------------------------------------------------------------------
(* The users and the operator (external).                                  *)

Speak(u, kind, text) ==
  /\ messages < MaxMessages
  /\ messages' = messages + 1
  /\ inbox' = Append(inbox, [user |-> u, kind |-> kind, text |-> text])
  /\ UNCHANGED <<file, loaded, xmlHeld, started, owed, stopping, undefined, status,
                 edits, hangups, said, handled>>

Edit(f) ==
  /\ edits < MaxEdits
  /\ f # file
  /\ file' = f
  /\ edits' = edits + 1
  /\ UNCHANGED <<loaded, xmlHeld, started, inbox, owed, stopping, undefined, status,
                 messages, hangups, said, handled>>

-----------------------------------------------------------------------------
(* Which command or rule a message goes to. *)

\* A slip: the bot takes its own words for those of a user.
OwnNever(m) == FALSE

Own(m) == m.user = Self

(* _wb_bot_decompose_bot_command_arguments: the command that is called. *)
Name(m) == IF m.kind \in {"say", "message"} THEN Calls[m.text] ELSE NoName

(* wb_bot_check_rule_permissions, wb_bot_check_command_permissions: "any"   *)
(* admits the bot itself too.                                              *)
Admits(t, m) == t.activated /\ m.user \in Permitted[t.permissions]

(* The comparison of wb_bot_check_input_match.  "starts" and "ends" look    *)
(* for the text in the pattern, anywhere in it.                             *)
Fits(input, text) ==
  CASE input.comparison = "equals" ->
         {<<input.pattern, text>>, <<text, input.pattern>>} \subseteq Within[input.sensitive]
    [] input.comparison = "contains" -> <<input.pattern, text>> \in Within[input.sensitive]
    [] input.comparison \in {"starts", "ends"} -> <<text, input.pattern>> \in Within[TRUE]
    [] input.comparison = "not equals" -> TRUE

\* A slip: an input is matched whatever the kind of the message.
MatchedAnyKind(input, m) == m.text = EmptyText \/ Fits(input, m.text)

(* wb_bot_check_input_match: a broadcast has no text, as far as             *)
(* wb_bot_input_for_message knows, and no text fits every pattern.          *)
Matched(input, m) ==
  /\ input.kind = m.kind
  /\ \/ m.kind = "broadcast"
     \/ m.text = EmptyText
     \/ Fits(input, m.text)

\* A slip: a bot that is stopped does not look for commands.
CommandedStarted(m) == {i \in DOMAIN loaded.commands :
                          /\ started
                          /\ Admits(loaded.commands[i], m)
                          /\ loaded.commands[i].name = Name(m)}

Commanded(m) == {i \in DOMAIN loaded.commands :
                   /\ Admits(loaded.commands[i], m)
                   /\ loaded.commands[i].name = Name(m)}

Ruled(m) == {i \in DOMAIN loaded.rules :
               /\ Admits(loaded.rules[i], m)
               /\ \E input \in loaded.rules[i].inputs : Matched(input, m)}

First(S, i) == i \in S /\ \A j \in S : i <= j

-----------------------------------------------------------------------------
(* What the bot owes for it. *)

Times(o) == IF o.repeat < 1 THEN 1 ELSE o.repeat

(* wb_bot_execute_output: the copies of o to send. *)
Owe(o) == [k \in 1..Times(o) |-> o]

(* wb_bot_execute_command: one of the outputs, sent the way the message     *)
(* came.  Without outputs it is wi_null() that is executed as an output.    *)
Reply(outputs, kind) ==
  \/ \E o \in outputs : owed' = Owe([o EXCEPT !.kind = kind])
  \/ outputs = {} /\ owed' = <<>>

\* Slips: a reload starts the bot, or keeps the commands.
ReloadStarts ==
  /\ loaded' = Contents[file]
  /\ xmlHeld' = Good[file]
  /\ started' = TRUE

ReloadKeepsCommands ==
  /\ loaded' = [loaded EXCEPT !.rules = Contents[file].rules]
  /\ xmlHeld' = Good[file]
  /\ UNCHANGED started

(* wb_bot_reload_configuration: the old dictionary is released first.  A    *)
(* file that cannot be read to its end leaves bot->xml as it was, released, *)
(* and the next reload releases it again.                                   *)
Reload ==
  /\ loaded' = Contents[file]
  /\ xmlHeld' = Good[file]
  /\ UNCHANGED started

-----------------------------------------------------------------------------
(* The main thread. *)

(* wb_bot_dispatch_message *)
Take ==
  /\ status = "running"
  /\ owed = <<>> /\ ~stopping /\ ~undefined
  /\ inbox # <<>>
  /\ inbox' = Tail(inbox)
  /\ handled' = IF Head(inbox).user = Self THEN handled ELSE handled + 1
  /\ UNCHANGED <<file, status, budget, said>>

IgnoreOwn ==
  /\ Take
  /\ Own(Head(inbox))
  /\ UNCHANGED <<loaded, xmlHeld, started, owed, stopping, undefined>>

TakeCommand(i) == Take /\ ~Own(Head(inbox)) /\ First(Commanded(Head(inbox)), i)

(* The output was taken from the old dictionary, which is released by now.  *)
RunReload(i) ==
  /\ TakeCommand(i)
  /\ loaded.commands[i].name = "reload"
  /\ Reload
  /\ IF Good[file]
       THEN Reply(loaded.commands[i].outputs, Head(inbox).kind) /\ undefined' = TRUE
       ELSE /\ owed' = <<[kind |-> "me", text |-> FailText, repeat |-> 0]>>
            /\ undefined' = ~xmlHeld
  /\ UNCHANGED stopping

RunStart(i) ==
  /\ TakeCommand(i)
  /\ loaded.commands[i].name = "start"
  /\ started' = TRUE
  /\ Reply(loaded.commands[i].outputs, Head(inbox).kind)
  /\ undefined' = (loaded.commands[i].outputs = {})
  /\ UNCHANGED <<loaded, xmlHeld, stopping>>

(* !stop answers first; Finish does the rest. *)
RunStop(i) ==
  /\ TakeCommand(i)
  /\ loaded.commands[i].name = "stop"
  /\ stopping' = TRUE
  /\ Reply(loaded.commands[i].outputs, Head(inbox).kind)
  /\ undefined' = (loaded.commands[i].outputs = {})
  /\ UNCHANGED <<loaded, xmlHeld, started>>

RunHelp(i) ==
  /\ TakeCommand(i)
  /\ loaded.commands[i].name = "help"
  /\ owed' = <<[kind |-> Head(inbox).kind, text |-> HelpText, repeat |-> 0]>>
  /\ UNCHANGED <<loaded, xmlHeld, started, stopping, undefined>>

(* nick, status, sleep, and the commands of the dictionary's own. *)
RunOther(i) ==
  /\ TakeCommand(i)
  /\ loaded.commands[i].name \notin {"reload", "start", "stop", "help"}
  /\ Reply(loaded.commands[i].outputs, Head(inbox).kind)
  /\ undefined' = (loaded.commands[i].outputs = {})
  /\ UNCHANGED <<loaded, xmlHeld, started, stopping>>

(* The output of a rule without outputs is whatever the variable held: of   *)
(* the outputs, one of an earlier call.  A broadcast leads through a null   *)
(* string before it comes here.                                             *)
AnswerByRule(i) ==
  /\ Take
  /\ LET m       == Head(inbox)
         outputs == loaded.rules[i].outputs
     IN /\ ~Own(m) /\ Commanded(m) = {}
        /\ started
        /\ First(Ruled(m), i)
        /\ \/ \E o \in outputs : owed' = Owe(o)
           \/ outputs = {} /\ owed' = <<>>
           \/ /\ outputs = {}
              /\ \E j \in DOMAIN loaded.rules :
                   \E o \in loaded.rules[j].outputs : owed' = Owe(o)
        /\ undefined' = (outputs = {} \/ m.kind = "broadcast")
  /\ UNCHANGED <<loaded, xmlHeld, started, stopping>>

StaySilent ==
  /\ Take
  /\ LET m == Head(inbox) IN
       /\ ~Own(m) /\ Commanded(m) = {}
       /\ ~started \/ Ruled(m) = {}
       /\ undefined' = (m.kind = "broadcast")
  /\ UNCHANGED <<loaded, xmlHeld, started, owed, stopping>>

(* One turn of the loop of wb_bot_execute_output; the server sends what is  *)
(* said to all to the bot too.                                              *)
Emit ==
  /\ status = "running"
  /\ owed # <<>>
  /\ owed' = Tail(owed)
  /\ said' = IF said < MaxSaid THEN said + 1 ELSE said
  /\ LET o == Head(owed) IN
       inbox' = IF o.kind \in {"say", "me", "broadcast"}
                  THEN Append(inbox, [user |-> Self, kind |-> o.kind, text |-> o.text])
                  ELSE inbox
  /\ UNCHANGED <<file, loaded, xmlHeld, started, stopping, undefined, status, budget,
                 handled>>

(* The message is dealt with. *)
Finish ==
  /\ status = "running"
  /\ owed = <<>>
  /\ stopping \/ undefined
  /\ started' = (started /\ ~stopping)
  /\ stopping' = FALSE
  /\ undefined' = FALSE
  /\ UNCHANGED <<file, loaded, xmlHeld, inbox, owed, status, budget, said, handled>>

Crash ==
  /\ status = "running"
  /\ undefined
  /\ status' = "crashed"
  /\ UNCHANGED <<file, loaded, xmlHeld, started, inbox, owed, stopping, undefined,
                 budget, said, handled>>

(* The signal HUP.  Its thread reloads at any time; an output the main      *)
(* thread is about to send, after its delay, may be released under it.      *)
Hangup ==
  /\ status = "running"
  /\ hangups < MaxHangups
  /\ hangups' = hangups + 1
  /\ Reload
  /\ undefined' = (undefined \/ ~xmlHeld \/ owed # <<>>)
  /\ UNCHANGED <<file, inbox, owed, stopping, status, messages, edits, said, handled>>

-----------------------------------------------------------------------------
Run(i) == \/ RunReload(i)
          \/ RunStart(i)
          \/ RunStop(i)
          \/ RunHelp(i)
          \/ RunOther(i)

Bot == \/ Emit
       \/ Finish
       \/ IgnoreOwn
       \/ StaySilent
       \/ \E i \in DOMAIN loaded.commands : Run(i)
       \/ \E i \in DOMAIN loaded.rules : AnswerByRule(i)

World == \/ \E u \in Users, w \in Utterances : Speak(u, w[1], w[2])
         \/ \E f \in Files : Edit(f)

Next == Bot \/ World \/ Hangup \/ Crash

Spec == Init /\ [][Next]_vars

FairSpec == Spec /\ WF_vars(Bot)

-----------------------------------------------------------------------------
(* Properties. *)

(* Every output is paid for by a message of a user: the bot, to whom all    *)
(* it says on the chat comes back, never starts or prolongs a conversation  *)
(* by itself (the test of wb_user_id in wb_bot_dispatch_message).           *)
AnswersAreBounded == said + Len(owed) <= MaxRepeat * handled

(* When the users fall silent so does the bot, though its own words come    *)
(* back to it and may match its rules.                                      *)
ConversationEnds == <>[](status = "crashed" \/ (inbox = <<>> /\ owed = <<>>))

(* m asks for the command called name, and the dictionary f lets it.        *)
Asks(m, name, f) ==
  /\ m.user # Self
  /\ Name(m) = name
  /\ \E i \in DOMAIN f.commands :
       f.commands[i].name = name /\ Admits(f.commands[i], m)

(* A bot that was stopped can be started again through the chat, as long as *)
(* the dictionary has a command for it.                                     *)
StartIsHeard ==
  (\E i \in DOMAIN inbox : Asks(inbox[i], "start", loaded))
    ~> \/ started \/ status = "crashed"
       \/ \A i \in DOMAIN loaded.commands : loaded.commands[i].name # "start"

(* Nothing but !start from a user who may starts a bot that was stopped; a  *)
(* reload, by !reload or by the signal HUP, leaves it stopped.              *)
OnlyStartStarts ==
  [][~started /\ started' => inbox # <<>> /\ Asks(Head(inbox), "start", loaded)]_vars

(* A !reload takes effect if it comes from a user whom the dictionary on    *)
(* disk lets, that dictionary can be read, and the one in memory was read   *)
(* to its end: the prefix of a faulty file may have lost !reload.           *)
ReloadTakesEffect ==
  [][handled' # handled /\ Asks(Head(inbox), "reload", Contents[file]) /\ Good[file] /\ xmlHeld
       => loaded' = Contents[file]]_vars

(* The text holds what the input was written for, whatever its comparison.  *)
Meant(input, text) ==
  input.comparison = "not equals" \/ <<input.pattern, text>> \in Within[FALSE]

(* An answer to a message that calls no command comes from a rule with an   *)
(* input of the kind and, unless it is a join or a leave, the text of it    *)
(* (wb_bot_check_input_match, wb_bot_input_for_message); only where that    *)
(* rule has no outputs is it chance what is said.                           *)
AnswersMatch ==
  [][handled' # handled /\ owed' # <<>> /\ Name(Head(inbox)) = NoName
       => \E i \in DOMAIN loaded.rules :
            /\ \/ \E o \in loaded.rules[i].outputs : owed' = Owe(o)
               \/ loaded.rules[i].outputs = {}
            /\ \E input \in loaded.rules[i].inputs :
                 /\ input.kind = Head(inbox).kind
                 /\ input.kind \in {"join", "leave"} \/ Meant(input, Head(inbox).text)]_vars

(* Who may reload is the same in every dictionary that can be read.         *)
ReloadStays ==
  \A f, g \in {f \in Files : Good[f]}, m \in Message :
     Asks(m, "reload", Contents[f]) => Asks(m, "reload", Contents[g])

(* Dictionaries whose inputs mean what they do: none takes a broadcast or   *)
(* looks for a start or an end.  The users say no empty text but by joining *)
(* or leaving.                                                              *)
PlainInputs ==
  /\ \A f \in Files : \A i \in DOMAIN Contents[f].rules :
       \A input \in Contents[f].rules[i].inputs :
          input.kind # "broadcast" /\ input.comparison \notin {"starts", "ends"}
  /\ \A w \in Utterances : w[2] = EmptyText => w[1] \in {"join", "leave"}
  /\ Within[TRUE] \subseteq Within[FALSE]

(* The engine only ever answers: it implements Responder, whatever is       *)
(* loaded, reloaded or undefined (wb_bot_dispatch_message,                  *)
(* wb_bot_execute_output, wb_bot_reload_configuration).                     *)
Abstract == INSTANCE Responder WITH due <- Len(owed), down <- (status = "crashed")

OnlyAnswers == Abstract!Spec
=============================================================================
