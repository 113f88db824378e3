# Wirebot: specifications, model checking and proofs

Wirebot is a chat bot for Wired servers. One process holds one session with a
server, keeps the rosters of the chats it is on, matches what users do against
the rules and commands of an XML dictionary, watches directories of the server
and announces the files that appear there. The modules in this directory specify
what the code under `src/wirebot/` does with its state. TLC checks them on small
instances; TLAPS proves the central invariants for all instances.

## 1. The system

### Components

| component | files | state | operations |
|---|---|---|---|
| process | `main.c` | pid file, `wr_running` | start, `wb_write_pid`, `wb_delete_pid`, `wr_cleanup`, `wr_sig_crash` |
| run loop and signals | `main.c` | `wr_runloop_sockets`, the time of the last ping | `wr_runloop_run`, `wr_runloop`, the stdin callback, `wd_signal_thread` |
| session | `client.c` | `wr_connected`, `wr_reconnecting`, `wr_socket`, `wr_p7_socket` | `wr_client_connect`, `_login`, `_disconnect`, `_reconnect`, `wr_runloop_server_callback` |
| message handlers | `messages.c` | the table of handlers | one handler for each message of the server |
| chats and users | `chats.c`, `users.c` | `wr_chats`, `users_array`, `users_dictionary`, `wr_private_chat_invite_uid` | join, leave, rename, clear, lookups |
| bot engine | `bot.c` | `rules`, `commands`, `watchers`, `xml`, `started`, `subscribing` | `wb_bot_dispatch_message`, the built-in commands, `wb_bot_reload_configuration` |
| dictionary elements | `rule.c`, `input.c`, `output.c`, `command.c` | immutable once loaded | load, serialise an output |
| directory watchers | `watcher.c`, parts of `bot.c` and `messages.c` | `files`, `new_files` | subscribe, collect a listing, diff, announce |
| console commands | `commands.c` | the table of commands, the table of transactions | parse, send, report errors |
| lookup of titles | `service.c` | `text`, one for all outputs of a watcher | one synchronous web request, clean up |
| protocol | `spec.c`, `wired.xml.h` | the specification | verify a message |
| settings, server record, topics | `settings.c`, `server.c`, `topic.c` | records that are filled once | load, print |
| remains of the terminal client | `windows.c`, `terminal.c`, `files.c`, `ignores.c`, `transfers.c` | never initialised | none that the bot calls, but see below |

### How they interact

`main` reads the settings and the dictionary, connects, and enters the run loop.
The loop waits for the server's socket and the standard input. A message of the
server reaches its handler in `messages.c`; the handler updates the roster or a
watcher and, for chat, private messages, broadcasts, joins and leaves, calls
`wb_bot_dispatch_message`. An output of the dictionary is text such as
`/say hello`, which is handed to the parser of `commands.c`, so the bot acts
through the same commands a person at a console would use. Whatever it says on a
chat comes back to it as a message of the server. The outputs of a watcher open
threads on a board as well; before each of them the main thread may ask a web
service for the title of the file, and reads nothing until that has answered.

A second thread takes the signals: INT, QUIT and TERM clear `wr_running` and
close the session under the main thread, HUP reloads the dictionary. The two
threads share the session and the dictionary without a lock.

The bot has no terminal: `wr_current_window` is NULL for ever and each
`wr_printf_prefix` dereferences it. Errors that the client this program was made
from would print end the process instead. The models call that a crash.

### What is hard here, and what makes each part correct

| component | hard | correct means |
|---|---|---|
| watchers | notices overlap the listings they cause; one flag for all watchers; snapshots survive a session; reload releases what it then enumerates | only uploads are announced, once, by the watcher of their directory; what is reported is learned |
| rosters | messages in flight, two containers for each chat, lookups by nick, `/privchat` with one global | the roster follows the server; no handler misses the chat or user it uses untested; answers and invitations reach whom they are for |
| session | the signal thread, one attempt to reconnect, stale `wr_socket` | the loop waits for open sockets only; nothing is released twice; a loss is repaired; a signal ends the process |
| process | several processes, one file, crashes | the process that serves is the one the file names |
| engine | echoes, stop and start, reload in the middle of an answer, faulty dictionaries, values read without being set | the bot only answers; it can be stopped and started; a reload takes effect; the answer fits the message |
| wire | the login takes whatever comes for its answer; pings, notices and faulty messages at any time; a lookup blocks the reader; one text for all outputs | the server has nothing to reject; the bot knows its own id; handlers find their fields; pings are answered; a thread is about its file |
| commands | abbreviations, the session ends between two lines of an answer, a value is kept before the server accepts it, errors come late and numbers wrap | the server shows what the bot takes for its identity; an error is logged under its own command; requests are numbered in a session only; talk does not end the process |

`PROJECT.json` lists the hazards, each at its line, with the properties that
address it or the reason why none does.

## 2. Modules and their correspondence to the code

Each component has a module; `MC<module>` gives TLC the values a `.cfg` cannot
express; `<module>Proofs` holds the theorems. `PROJECT.json` maps each
definition to the lines it stands for. In each module some definitions are
marked "slip": they are plausible mistakes in the definition next to them and no
part of the specification. The properties are tried on them.

### Watchers

The state of the bot is `loaded` (a prefix of the dictionary's watchers),
`subscribing`, and for each watcher `files` and `newFiles`. Actions: `Connect`
(`wb_bot_subscribe_watchers`: for each watcher a list request, then a
subscription), the handlers `FileList`, `FileListDone` and `DirectoryChanged`,
`LoseConnection` (`wr_client_disconnect`, which leaves the snapshots), `Reload`
and `ReloadCrash`. `Reload` uses the old array after its release: the
unsubscriptions are sent or not, or the process dies. A dictionary that fails to
load leaves the watchers before the fault.

The server is external: it answers requests in order, takes a listing at one
moment and sends it entry by entry, and sends a notice at once to a subscriber,
so that notices fall between entries. `watcher->files = wi_copy(new_files)` is
taken to be the copy libwired promises.

### Roster

Per chat `array` and `dict` (the two containers), `nickOf` (the nick in a user
object), `chats` (the keys of `wr_chats`) and `inviteUid`. One action for each
handler of `messages.c` about chats and users; `Unhandled` for
`wired.chat.user_kick`, which has no handler; `PrivChat`, `PrivChatUnknown`,
`Connect`, `LoseConnection` with `wr_chats_clear`. A handler that uses a lookup
without a test crashes the process if the lookup finds nothing, and `fault` says
which lookup it was. `chat_me` is handled as `chat_say` is. The entries of a
user list and its end are one message.

The server is external. Four switches say what kind of server and of users there
are: `UniqueNicks`, `PrivateFirst` (users leave their private chats before the
public one), `Kicks`, `Orderly` (one `/privchat` at a time, and it is granted).

### Session

`main` is the place of the main thread, `sig` that of the signal thread. The two
interleave between the steps of connecting, logging in, waiting, reading,
pinging and the ten seconds before a reconnection. No lock protects what they share, so
the statements that make and undo a session are steps of their own. At the end of
`wr_client_connect`: `wr_connected` is set (`LoginDone`), the new pointers are assigned
(`Hold`), the socket enters the run loop and the watchers are subscribed (`Listen`). In
`wr_client_disconnect`, which either thread executes: `wr_connected` is cleared (`Clear`),
the socket leaves the loop (`Remove`), is closed (`Shut`) and released (`Release`); `Close`
and `CloseSession` take the two threads through them. A signal that falls between `Hold` and
`Listen` does put a closed socket into the loop; since `wr_running` was cleared before, the
loop ends without waiting for it. `wr_socket` stands for the pointers that are assigned and
released next to it. Signals are blocked until their thread exists, which is after the first
attempt to connect. A read, write or second release of a socket the other thread released
survives or crashes (`Stale`). A login ends without a session if the server closes it, does
not answer in 30 seconds or sends what does not verify (`LoginLost`, after `Drop`, `GoDown` or
`Falter`). A handler may ask the web (`Fetch`), which has no timeout. `wr_client_reconnect`
does not look at `wr_running` and makes one attempt. The standard input is never read, so once it is readable (`typed`) it
stays readable; which of two ready sockets the loop takes is up to libwired and
is left open. An answer may be `/disconnect`, which closes the session for good (`left`),
or `/quit`.

`Link` is what the other parts may rely on: the place of the session (`Place`), and that
the process goes from one place to another only as it should. A session that was lost is
opened again by one attempt; an attempt that fails, or an order to leave, is not followed by
another as long as the process is not told to end; after it was told, one attempt begins at
most. `Session` implements it (`OneAttemptEach`: `link` is `Place`, `spent` is `late > 0`).

### PidFile

Successive processes, the file, and an operator who starts them and stops them
with ``kill `cat ~/.wirebot/wirebot.pid` `` as the README of the repository says.
`wb_delete_pid` deletes the file whoever wrote it; `wr_sig_crash` does so too;
KILL leaves it. TERM has its default effect until the signals are blocked.

### Dictionary

How the XML document becomes `bot->rules`, `bot->commands` and `bot->watchers`:
`_wb_bot_load_file` and the `load_with_node` function of each element, with their
defaults. A document is a tree of records. Loading stops at the first element out
of place and keeps what it has read (`RulesOf`, `CommandsOf`, `WatchersOf`); `Loads`
says whether it came to the end. The module has no state. `Engine` computes what is
in memory from `Documents` with it, and `MCWire` its watcher.

### Engine and Responder

`Engine` is `wb_bot_dispatch_message` with all it calls. `inbox` holds the messages
to dispatch, `owed` the outputs that remain of an answer (an output with a repeat is
sent several times), `loaded` the dictionary in memory and `file` the one on
disk. Actions: `IgnoreOwn`; `RunReload`, `RunStart`, `RunStop`, `RunHelp` and
`RunOther` for the first command that fits; `AnswerByRule` for the first rule;
`StaySilent`; `Emit` for one output, whose echo joins the inbox if it is chat;
`Finish`, where a `!stop` takes its effect; `Hangup` for the signal HUP; and, for
the world, `Speak` and `Edit`.

Texts are members of a small set. `Calls` says which command a text calls;
`Within` says which text is part of which, with and without its case, and `Fits`
makes the five comparisons of `wb_bot_check_input_match` from it, with their quirks:
"starts" and "ends" look for the text in the pattern, "not equals" accepts all, an
empty text fits everything. Who may use a rule or a command is a set of users, the
bot among them for "any". The code compares nicks there, although `README.md` speaks
of logins; the set stands for either. Each use of released or
unset memory sets `undefined`: after it the process goes on with any value the
code could have picked up, or crashes. Such uses are: the output of `!reload`,
taken from the dictionary it releases; the output of a rule without outputs; a
broadcast's text; a second release of `bot->xml` after a faulty file; a HUP while
an answer is under way.

`Responder` is what all that amounts to, without messages or dictionaries: a
message that is handled pays for at most `MaxRepeat` outputs, which are sent before
the next message is looked at; a stopped bot starts only with an answer; the
process may end. `Engine` implements it (`OnlyAnswers`: `due` is `Len(owed)`).

### Wired, Posting and Wire

`Wired` holds the tables of the protocol, from the specification the program is
compiled with (`wired.xml.h`): the fields a message must have (`Required`), the
answers to each request (`Answers`), what may come before the login, and what the
server tells unasked; and those of the program: the fields it fills in (`Filled`,
from the functions that make the requests) and the fields its handlers read without a
test (`Uses`). Three of the latter the specification does not require: `wired.user.admin`,
`wired.account.color` and `wired.error.string` (`Ornaments`). A message without them leaves
the local variable of its handler unset; what is read is kept in the user, where only a window
would look at it, or logged.

`Posting` is `wb_watcher_execute_output` and `service.c`: each output of the watcher
is executed for each new file (`todo`), after a lookup if the watcher has a service
(`Ask`, `Told`), and uses and clears the one `text` of the service.

`Wire` composes both with the bot as a client of the protocol. `toServer` and `toBot`
are the two directions of the session, `stage` and `waiting` what the server keeps,
`main` the place of the main thread. `LoginStep`, `LoginAccepted` and `LoginDone` are
the statements of `wr_client_login` and the end of `wr_client_connect`: each reads the
next message, whatever it is, and looks at its name only where the code does.
`LoginTimeout`, `LoginUnverified` and `LoginUnexpected` are its ways to fail. In the loop,
`Handles` reads and verifies a message and `HandlePing`, `HandleListed`, `HandleTalk` and the
others do what the table of handlers says; a message that does not verify ends the
session. `Hup` is the signal thread: it reloads, sends what a reload sends, and
releases the watcher whose files are being announced (`freed`); what the process does
with it afterwards (`UseReleased`) is open. The server is external: it is slow or
fast, may close the session, ping, tell something, or send a message without fields,
but its answers are those of the specification. A write to a session that was closed is
lost or crashes.

### Commands

An answer is a sequence of lines in `todo`; `LineFor` makes them from an output of
the dictionary. A line goes through `wr_commands_parse_command` in steps, because the signal
thread may close the session or reload the icon between any two of them. A text to be said is
first given its word, "say" or "echo" (`GiveWord`). Then the word is looked up by prefix
(`Hits`, `Lookup`; the relation `Begins` says which word is a prefix of which name), the
session and the arguments are tested, and the command does what it does. If that is to
send a request, the message is made (`Make`) and `wr_commands_send_message` follows in three
steps: it takes the number and stores its name (`Take`), writes (`Put`), and moves the counter
on from the value it has by then or had since (`Count`). `sending` says where each thread is in
there: the main thread with a command, the signal thread with the `/icon` of a HUP. A request
written after the session was closed is lost or crashes (`WriteStale`), and so is one written
by the signal thread after `wr_connected` was set and before the new session is in its place
(`link = "opening"`, until `Opened`). The table of the code is a sequence of names and a set
for each column. What the forty actions do falls into a few kinds: send a request
(`Ask`), send one about a user (`AskAbout`, `AskAboutNobody`), change the identity
(`Set`, `SetIcon`), replace the line by those of a bookmark (`Load`), end the
session or the process (`Disconnect`, `Quit`), or print to the missing window,
which crashes.

`own` is the identity the bot keeps (`wr_nick`, `wr_status`, `wr_icon`) and `shown`
the one on the server, which the login sends, the commands change, and the server
may refuse. A status is taken to be configured. `number` and `named` are the counter and the
dictionary of transactions; the server repeats the number of a request in its answer, and
`cause` remembers what the number should stand for. `crossed` remembers that both threads had
a number at once: then they had the same one, the name of one command replaced that of the
other, and an error may be logged under the wrong name. `ErrorsAreNamed` says that this is
the only way. `Hup` may fall between any two steps, `Terminate` between any two while there is
a session; `Session` has the signals of the other moments.

`/open` and its synonyms with a host would replace the session and are excluded by
`TextsAssumption`. `NamesFound` assumes that no row of the table is hidden by an earlier
one that it abbreviates. `LoadsAlone` is the condition under which `Burst` bounds the lines
of a message: a text that loads a bookmark is the only one of its answer, and no bookmark
loads another. `MCCommands` has TLC evaluate it. A command with several users (`/info a b`) is taken with one.

### Interfaces between the modules

`Watchers`, `Roster` and `Engine` see a session as `link` or not at all and lose
it in one step; `Session` says when that happens. `Roster` takes a dispatch as a
lookup of the sender and at most one private answer; `Engine` says what the
answer is. `PidFile` abstracts a process to its place in `main`.
`Wire` takes from `Watchers` that a listing may bring new files and from `Engine` and
`Commands` that talk may lead to a request, a reload, nothing or the end.
`Commands` starts where `Engine` stops, with the lines of one answer, and has its own
short form of a loss and a login, whose requests `Session` does not look at. Each of these
short forms starts a session again after a loss, which `Link` allows and does not promise:
whether it happens is `LossIsRepaired`.

## 3. Runs

All runs set `CHECK_DEADLOCK FALSE`: what users, server and operator do is
bounded, a process may end, and a bot to whom nobody speaks does nothing.

| run | instance | question | outcome |
|---|---|---|---|
| `watchers_one` | one watcher, two files, any initial directory, 3 changes, 1 loss | is only what was uploaded announced, and is everything reported learned? | holds |
| `watchers_shared` | three watchers on two directories (one inactive, two on one path), an unfinished transfer, 1 change, 1 reload, good or faulty | can a wrong file, or the wrong watcher, be announced? | no |
| `roster_orderly` | two users with unique nicks, a public and a private chat, 3 events, 1 loss | does the roster follow the server, and do lookups, answers and invitations find whom they should? | holds |
| `roster_unordered` | shared nicks, kicks, overlapping and refused `/privchat`, users leaving chats in any order, 3 events | is the chat of a message always there, and does every member become known? | holds |
| `roster_kick` | unique nicks, kicks | does the roster follow the server? | violated |
| `session` | 3 drops, 2 outages, 2 signals, 2 messages, login refused, answered late or not, console readable or not | are sockets used and released properly while two threads undo a session statement by statement, is a loss repaired, does a signal end the process, does it implement `Link`? | holds |
| `session_retry` | 1 drop, 2 outages, no signals | is a loss always repaired in the end? | violated |
| `pidfile` | four processes, 2 crashes or KILLs, patient operator | does the file name the process that serves? | holds |
| `engine` | three documents, one faulty half way, 3 messages and none a broadcast (those are `engine_broadcast`'s), 1 edit, 1 HUP, an output that is repeated | is each output paid for by a user's message, do conversations end, does only `!start` start the bot and is it heard, do answers fit, does `!reload` take effect, does it implement `Responder`? | holds |
| `commands` | commands of every kind, alone or two in one answer, two nicks of which one is refused, a status or none, two icons, 3 events (messages, HUPs, losses, changes of the icon file), 3 numbers | do server and bot agree on the identity, are errors named after their command unless both threads had a number at once, are requests numbered in a session only, or one closed under them, can talk end the process, does a reload show the icon? | holds |
| `wire` | 2 sessions, 1 ping, a watcher with a service and three outputs, a listing with two new files of which the web knows one, and 1 of: a notice, a faulty message, a call of the bot, a HUP | does the server have nothing to reject, does the bot know its id, are fields found but the three of `Ornaments`, threads right, pings answered, and does a login end? | holds |
| `engine_broadcast` | a rule for broadcasts, 1 message | do answers fit broadcasts? | violated |

### Why the bounds are enough

*Watchers.* Three changes allow an upload, a removal and a second upload of one
file, or two uploads and a removal that overlap two listings; a loss can fall in
any answer. The hazards involve at most two listings of a directory at a time.
The three watchers of `watchers_shared` are each way a watcher can be hidden.
*Roster.* Three events are enough for a nick to change hands while a message is
under way, for a private chat to be opened, joined and left, and for a kick and a
return. *Session.* Each drop leads through a full reconnection; the second signal
finds the first being handled. *Engine.* Three messages are a stop, a start and
something in between; the counter `said` saturates at `MaxSaid`, above what one
message can pay for. *Wire.* The second session shows what the first one leaves
behind; the ping may fall anywhere, into the login and into a lookup included; two
files are enough for one to get the text of the other, three outputs for an output
of each kind. *Commands.* Three events are two messages and a HUP between them or in the
middle of one, which is enough for a number to be used again (`Wrap` is 3) and for two threads
to take the same one; or a message, a loss and another loss, HUP or change of the file in the
login that follows. INT, QUIT and TERM are not counted among them. `Burst` keeps no more than
`Wrap` requests unanswered, which the code's 2^32 makes sure of: with more, an error would be named after a later command.

### Fairness

* `Watchers`, `Roster`: `WF(Serve)`, `WF(Handle)`. The server answers, and the run
  loop hands over what arrives. Neither changes nor losses are required.
* `Session`: `WF(main # "fetching" /\ Main)`, since every wait of the main thread but one
  ends by itself (a timeout of 30 seconds, ten seconds of sleep, the timeouts of the
  socket). The exception is a request to the web, for which `service.c` sets no timeout:
  nothing is assumed of it, and `QuitStops`, `LossIsRepaired` and `AutoReconnects` have the
  premise `WebAnswers`, that the main thread is not in one for ever. Without the premise
  `QuitStops` fails: a signal does not end a process that waits for the web.
  `WF(Signal)`, the second thread is scheduled; `WF(ComeUp)`, the server comes
  back after an outage. `LossIsRepaired` excepts what the one attempt does not survive: a
  server that is down, that closes the session during the login, or that is up and does not
  answer it in 30 seconds and by the protocol. It also excepts `/disconnect` and a readable
  standard input: the loop may then be kept busy by an input nobody reads.
* `Engine`: `WF(Bot)`, the handler runs to its end.
* `Wire`: `WF(Bot)`, the main thread runs; a read of the login ends after 30 seconds at
  the latest. `WF(Web)`: a request to the web service ends, which is an assumption:
  `service.c` sets no timeout, and with a web service that never answers, pings wait for
  ever. Nothing is required of the server.
* `Commands`: `WF(Bot)`, the main thread runs, and `WF(Serve)`, the server answers.

### What the violations show

* `roster_kick`: the table in `messages.c` has no handler for
  `wired.chat.user_kick`, so a kicked user stays on the roster.
* `session_retry`: a loss is followed by one attempt to connect after ten seconds.
  If the server is down then, the process stays without a session for ever; the
  setting `auto reconnect` is declared in `settings.c` and never read.
* `engine_broadcast`: `wb_bot_input_for_message` tests `wired.message.message` twice
  and never `wired.message.broadcast`. The text of a broadcast is missing and a
  missing text fits every input.

One more disagreement is not a run: the specification lets either side ping "at any
time" and has the ping answered (`wired.xml.h`, lines 3137 to 3140), but a ping that comes
during the login is taken for the answer the login waits for. It is never answered, the
answers that follow are each taken for the next one, and the login ends with
"unexpected message". `PingsAreAnswered` therefore speaks of a bot that is logged in.

Changing an instance shows more ways to fail, which the properties above leave
out by their assumptions: with `Orderly = FALSE` the chat of one `/privchat` invites
the user of another (`InvitesNamedUser`); with `Patient = FALSE` an old process
deletes the pid file of the new one (`ServingIsNamed`). After an edit to the
document `broken` and a reload, `!reload` itself is gone and a second edit
that mends the file is taken up by a HUP only: `ReloadTakesEffect` therefore speaks of a
bot whose dictionary was read to its end (`xmlHeld`). With two watchers in `watchers_one`,
`AnnouncesOnlyUploads` fails: `wr_message_file_directory_changed` clears `subscribing`
for the whole bot, and when a notice is about one directory while the first listing
of another is still coming, the rest of that listing is announced as if it were new.
A file uploaded after a listing was taken and before
the subscription, which is requested later, is in no listing and no notice:
`unseen` marks it, and `QuietKnowsAll` and `ReportedIsLearned` leave it out.

## 4. Proofs

The theorems hold for every value of the constants that satisfies the modules'
named assumptions: which sets are subsets of which, that the special values are
outside the sets, that bounds are natural numbers. Three say something of the tables
of the code and are evaluated on them by TLC: `UsesAssumption` and `TablesAssumption` of `Wire`
(what the handlers and the login know of the specification) and `NamesFound` of `Commands`. A theorem that
needs more states it as its hypothesis, and the row says what it is; the runs' instances
meet these hypotheses unless the row says otherwise.

| theorem | argument |
|---|---|
| `WatchersProofs.TypeCorrect` | `TypeOK` is inductive; lemmas type the head of a channel and the requests of a subscription |
| `WatchersProofs.RealFilesOnly` | `AnnouncesRealFiles` is not inductive: an announcement comes from `newFiles`, that from messages, those from the listing being sent. `RealFiles` says of all of them that they name files that arrived in that directory (`InFlightReal`) |
| `WatchersProofs.OnlyTheFirstAnnounces` | a notice reaches the watcher `Target` finds, and that is the first of its directory (`TargetIsFirst`, by `SequenceFacts.LeastNumber`) |
| `WatchersProofs.FirstDictionaryAnnounces`, `FirstDictionaryLearns` | hypothesis: one watcher, which holds of `watchers_one`; conclusion: the property until the first reload. `OneSession` says what of the first listing and the subscription is under way. `FollowsFile` follows one file: its age grows by one when it comes and when it goes, and every message under way is as old as the file was when the server looked at the directory (`Told`). Ages rise along the channel, and how often the file was announced bounds them from below (`Least`), so an announcement is of a later upload than the one before. Two watchers, or a reload, break both properties: TLC has a counterexample for each |
| `RosterProofs.ChatsAreFound` | `ChatInv`: the bot asks to be let only into chats it knows (`Asked`), is told only of those (`Heard`) and is on no other (`Known`) |
| `RosterProofs.InvitesRight` | `Single`: with `Orderly` at most one `/privchat` is under way, for the user in `wr_private_chat_invite_uid`; the request and its answer are followed through both channels |
| `RosterProofs.TypeCorrect` | needs `Kept`: who is found by id is also found by nick, so that `/msg` has a receiver, kicks or not |
| `RosterProofs.QuietRight` | without kicks, `Follows`: read to its end, the channel leaves in the dictionary who is on the chat, because the last notice about a user is the one that tells where the user is; `Calls` says the same of the nick, and `JoinInv` that the bot is on each chat it knows or has asked to be let in |
| `RosterProofs.ContainersRight` | without kicks, `OnceEach`: between two notices that enter a user there is one that takes it out, so the handler never enters a user twice; then array and dictionary change together (`ListInv`) |
| `RosterProofs.SendersAreFound` | without kicks, where users leave private chats first: `Entered` and `Departed` order the notices about a user of two chats, so each dictionary is within that of the public chat, whatever part of the channel is read |
| `RosterProofs.AnswersArrive` | without kicks, where the server keeps nicks unique: `OneCalled`, the bot hears of a user by a nick only after whoever had it was renamed or left, so nicks are unique in the dictionary too and the lookup of `/msg` finds the one who caused the answer |
| `SessionProofs.TypeCorrect` | split into flags, places and counters, because the provers differ in what they are good at |
| `SessionProofs.LoopIsSound` | `Undisturbed`: until a signal is taken the main thread has the session to itself, and which statement it is at says what is connected, in the loop and open (`InOrder`); afterwards `wr_running` is clear |
| `SessionProofs.NoDoubleRelease` | `Undisturbed` again: a callback that runs before a signal is taken finds its socket open, because the loop holds open sockets only and nobody else closes one |
| `SessionProofs.LateIsLast` | `LastSession`: after the late session the main thread only logs in, makes the session, pings, checks `wr_running` and ends |
| `SessionProofs.ImplementsLink` | the second refinement, with a lemma for each kind of step. `Placed`: there is no session while one is sought or undone, and only a process told to end has its session closed by the other thread, so that a callback that finds it closed starts the last attempt; `LastSession` says that no other follows |
| `PidFileProofs.PidIsRight` | with a patient operator at most one process has not ended (`OneAtATime`), so nobody else writes or deletes the file while one serves |
| `EngineProofs.TypeCorrect` | `TypeOK` says that `loaded` is always the contents of one file |
| `EngineProofs.TalkIsBounded` | the invariant `said + Len(owed) <= MaxRepeat * handled`, with a lemma for each kind of step: taking a message pays for what it owes, an output moves from `owed` to `said`, an echo pays nothing because it is the bot's own |
| `EngineProofs.StopHolds` | an action property: `RunStart` alone sets `started` |
| `EngineProofs.ImplementsResponder` | the refinement: the initial states map to initial states, and each step to a step of `Responder` or to none; taking a message is an `Answer`, an output is a `Say`, the rest changes nothing `Responder` sees |
| `WireProofs.PostsAreRight` | `Announces`: as long as a text is kept it is that of the file at hand; each output, and a reload that takes the watcher away, clears it |
| `WireProofs.FieldsAreFound` | what was verified has the required fields, and a handler reads no others but the three of `Ornaments` (`UsesAssumption`, which TLC evaluates on the tables); every place where a field is read, in the login too, comes after the verification |
| `WireProofs.KnowsItself` | `IdInv`: a login answer under way belongs to this session and the server has accepted it (`LoginTold`), so the bot that has read one, and then its privileges, is in the session (`InSession`), whatever it took for the answers before |
| `EngineProofs.ReloadsAreHeard` | hypothesis `ReloadStays`: the dictionaries that can be read agree on who may reload. `ReadWhole`: what is in memory while `bot->xml` is held is the contents of such a file, so the command is found in it, by its own name, and no rule or other command comes first |
| `EngineProofs.PlainRulesMatch` | hypothesis `PlainInputs`: no input for broadcasts, none that compares by `starts` or `ends`, no empty texts; the run `engine_broadcast` shows what the first excludes. `Uttered`: a message that waits is the bot's own or one the users utter |
| `WireProofs.KeepsToProtocol` | `OrderInv`: what waits in `toServer` is what the program writes (`Written`), with the fields the specification requires; while the server has not greeted, that is the one request of `Opening`, since nothing under way could be taken for its answer (`Ungreeted`), and until the login is done only what may come before it. The tables meet `TablesAssumption` |
| `CommandsProofs.NumbersOnline` | every kind of command that sends without a look at `wr_connected` says in the table that it needs a session (`SendersNeedSession`), so the parser has looked; the others look themselves. `AsksOnline`: from then to the count the session is there or the signal thread closed it, since `/disconnect`, a loss and a login wait for the main thread |
| `CommandsProofs.TalkEndsNothing` | `Parted`: an answer is begun in a session and loses it only to `/disconnect` or a signal; `Prefixed`: a text has been given "echo" only after that |
| `CommandsProofs.IdentityIsShown` | `IdentityInv`: the last request about a part of the identity that is under way, or what is shown if there is none, names what the bot takes for its own, unless a thread is about to send it, and no command of the main thread runs during a login (`Alone`); assumes the server refuses no icon |
| `CommandsProofs.TypeCorrect` | `Typed`: a request that bears a number is named by a command (`Tagged`), and so is one that a thread is about to send (`Pending`), which `TypeOK` does not say |
| `CommandsProofs.ErrorsKeepTheirName` | hypothesis `LoadsAlone`; conclusion: as long as both threads never had a number at once. `Counted`: `OneAtATime`, a thread that has a number has the next one, under its own name; `Room`, the numbers suffice for all that is under way or about to be written and all the remaining lines of the answer can still send; and `Recorded`, a number is as far behind the counter as requests were sent after it (`Behind`), so the table still has its name |

`SequenceFacts` holds what several proofs need of sequences: what appending, joining and
dropping the head do to the places of a sequence, and `LeastNumber`, the least-number
principle, from the well-foundedness of `<` in the library. It also has the argument the
four theorems about a quiet or orderly `Roster` share: `Undone` says of a channel that
whatever some of its messages do is undone further on, `UndoneBefore` that it is undone
before a message of a third kind; both are kept when the first message is read and when a
step of the server puts in what `Told` allows (`ReadUndone`, `KeptUndone`, `NowUndone` and
their counterparts). `ActTells` and `ServeTells` show that every step of the server is told
so, and `HandleReads` that a handler does to the roster what its message says.

Only model-checked, with the reason:

* Liveness (`ReportedIsLearned`, `MembersBecomeKnown`, `QuitStops`, `LossIsRepaired`,
  `ConversationEnds`, `StartIsHeard`, `ReloadShowsIcon`, `PingsAreAnswered`, `LoginEnds`):
  the prover does not reason about fairness here.
* What the theorems leave out by their hypotheses: `AnnouncesOnlyUploads` and
  `QuietKnowsAll` after a reload, `ErrorsAreNamed` with bookmarks that load bookmarks,
  the properties of `Roster` with kicks. Where it is said above that a property then fails,
  TLC has found the counterexample.
* The two runs on findings, whose properties do not hold.
* What a recursive definition computes: what `Dictionary` reads of a document enters the
  proofs as `Contents` and `Good`, about which `FilesAssumption` says only the type.

## 5. What is not modelled

* Windows, terminal, ignores, files and transfers: `wr_windows_initialize`,
  `wr_terminal_init`, `wr_ignores_init`, `wr_files_init` and `wr_transfers_init` are
  never called. Their one effect is the crash described above.
* Settings, server record and topics: they are read once, or stored and printed. How
  `service.c` finds a title in the name of a file, and what it makes of the answer.
* What two threads that write to one socket at once put on the wire. A HUP between
  `wr_connected = true` and `wr_p7_socket` (`client.c`, line 260) is in `Commands`, a TERM there
  in `Session`; `Wire` takes the end of `wr_client_connect` as one step, so `NeverRejected` says
  nothing of it. Field types and values other than the id of a login and the number of a ping.
* Wording, the length of delays, colours, the replacement of `@INPUT_NICK`, and
  that `/msg` splits a nick with a space:
  data no property here depends on.
* A HUP that interrupts the main thread within a statement: its outcome is
  undefined in C. `Engine` and `Watchers` take a reload as a step between the
  steps of the main thread, with the uses of released memory listed above.
* `/open` with a host, and the completers of readline, which nothing calls.
* `IdentityAgrees` excepts two cases the code leaves open: a value the server
  refused, which the bot goes on taking for its own, and an icon that is not known to be
  sent (`untold`: the file was removed; there was no session, for example because HUP fell
  between the icon of a login and its end, or it was not in its place yet; or one thread
  changed the icon while the other was about to send one, and the older may arrive last).
* `repeat="0"` counts as 1 (`Times`); an answer by `/say` always goes to the public
  chat.

## 6. Plan

Written, in this order: Watchers, Roster, Session, PidFile, Engine, Commands; then
Dictionary, Responder, Wired, Posting, Wire and Link. What would come next:

1. An abstract specification of a watcher: a cache that only grows by what the directory
   held, implemented by `Watchers`.
2. Composition: `Wire` with `Watchers` and `Roster`, so that a listing or a user list is cut
   by a login that follows, with the end of `wr_client_connect` in the steps of `Session`;
   `PidFile` with `Session`.
3. Proofs: `Watchers` as an implementation of item 1; the conditions under which `AnnouncesOnlyUploads` survives a reload.
