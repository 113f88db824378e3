--------------------------- MODULE CommandsProofs ---------------------------
(* What holds of the commands for every dictionary, every relation between  *)
(* words and names, and every interleaving of answers, reloads, losses and  *)
(* logins, the two threads writing at once included.                        *)
EXTENDS Commands, SequenceFacts, TLAPS

(* Types. *)

(* A request with a number is one of a command. *)
Tagged == {r \in Request : r.number # NoNumber => r.name \in Names}

(* So is one that a thread is about to send; it has a number from a point on. *)
Pending ==
  \A t \in Threads :
    /\ sending[t].stage # "none" => sending[t].name \in Names
    /\ Numbered(t) => sending[t].number \in 0..(Wrap - 1)

Typed == TypeOK /\ toServer \in Seq(Tagged) /\ Pending

LEMMA TableTyped == DOMAIN Order = 1..40
BY DEF Order

LEMMA NamesOfCommands ==
  {"nick", "status", "icon", "info", "me", "msg", "broadcast", "say", "echo", "load"}
    \subseteq Names
<1>1. /\ Order[7] = "echo" /\ Order[10] = "icon" /\ Order[13] = "info" /\ Order[16] = "load"
      /\ Order[18] = "me" /\ Order[19] = "msg" /\ Order[20] = "nick" /\ Order[25] = "say"
      /\ Order[28] = "status" /\ Order[1] = "broadcast"
  BY DEF Order
<1> QED
  BY <1>1, TableTyped DEF Names

LEMMA WordFound ==
  ASSUME NEW word \in Words, Hits[word] # {}
  PROVE  Lookup(word) \in Names
<1>1. Hits[word] \subseteq DOMAIN Order /\ DOMAIN Order \subseteq Nat
  BY TableTyped DEF Hits
<1>2. \E m \in Hits[word] : \A i \in Hits[word] : m <= i
  BY <1>1, LeastNumber
<1>3. Min(Hits[word]) \in Hits[word]
  BY <1>2 DEF Min
<1> QED
  BY <1>1, <1>3 DEF Lookup, Names

LEMMA EmptyTyped == \A S : <<>> \in Seq(S)
OBVIOUS

(* The numbers go round. *)
LEMMA Rounding ==
  ASSUME NEW a \in Int
  PROVE  a % Wrap \in 0..(Wrap - 1)
BY NumbersAssumption

LEMMA NumberAfter ==
  ASSUME NEW n \in 0..(Wrap - 1)
  PROVE  /\ After(n) \in 0..(Wrap - 1)
         /\ After(n) = n + 1 \/ After(n) = n + 1 - Wrap
<1>1. Wrap \in Nat \ {0, 1} /\ n \in Nat /\ n < Wrap
  BY NumbersAssumption
<1>2. CASE n + 1 < Wrap
  BY <1>1, <1>2 DEF After
<1>3. CASE n + 1 = Wrap
  BY <1>1, <1>3 DEF After
<1> QED
  BY <1>1, <1>2, <1>3

LEMMA SinceTyped ==
  ASSUME Typed, NEW n \in 0..(Wrap - 1)
  PROVE  Since(n) \subseteq 0..(Wrap - 1)
<1>1. Wrap \in Nat \ {0, 1} /\ n \in Int /\ number \in Int /\ number - n \in Int
  BY NumbersAssumption DEF Typed, TypeOK
<1>2. (number - n) % Wrap \in Nat
  BY <1>1, Rounding
<1>3. \A i \in 0..((number - n) % Wrap) : n + i \in Int
  BY <1>1, <1>2
<1>4. \A i \in 0..((number - n) % Wrap) : (n + i) % Wrap \in 0..(Wrap - 1)
  BY <1>3, Rounding
<1> QED
  BY <1>4 DEF Since

(* The line under way and its command. *)
LEMMA LineTyped ==
  ASSUME Typed, Turn, Current.job \in {"prefix", "parse"}
  PROVE  /\ todo # <<>> /\ Current \in Line /\ Arg \in Values
         /\ WordOf(Current) \in Words
         /\ Known => Name \in Names
<1>1. Current \in Task
  BY DEF Typed, TypeOK, Turn, Current
<1>2. Current \in Line
  BY <1>1 DEF Task
<1>3. Current.text \in Text
  BY <1>2 DEF Line
<1>4. WordOf(Current) \in Words /\ Arg \in Values
  BY <1>3 DEF Text, Arg, WordOf
<1>5. Known => Name \in Names
  BY <1>4, WordFound DEF Known, Name
<1> QED
  BY <1>2, <1>4, <1>5 DEF Turn

LEMMA ExecutesTyped ==
  ASSUME Typed, NEW names, Executes(names)
  PROVE  /\ Turn /\ Name \in Names /\ Name \in names /\ Arg \in Values
         /\ Current \in Line
BY LineTyped DEF Executes, Parsing

LEMMA NextLineTyped ==
  ASSUME Typed, Turn, NextLine
  PROVE  todo' \in Seq(Task)
BY DEF Typed, TypeOK, NextLine, Turn

(* What the variables of a request, and of a thread's message, are.         *)
Requests ==
  /\ number \in 0..(Wrap - 1)
  /\ named \in [0..(Wrap - 1) -> Names \cup {"none"}]
  /\ sending \in [Threads -> Sending] /\ Pending

LEMMA MakeTyped ==
  ASSUME Typed, NEW t \in Threads, NEW name \in Names, NEW value \in Values,
         Make(t, name, value) \/ SendNothing, UNCHANGED <<number, named>>
  PROVE  Requests'
<1>1. Requests
  BY DEF Typed, TypeOK, Requests
<1>2. CASE SendNothing
  BY <1>1, <1>2 DEF SendNothing, Requests, Pending, Numbered
<1>3. CASE Make(t, name, value)
  <2> DEFINE s == [value |-> value, name |-> name, number |-> NoNumber, stage |-> "made"]
  <2>1. s \in Sending /\ s.stage = "made" /\ s.name \in Names
    BY DEF Sending, Stages, Number
  <2>2. sending' = [sending EXCEPT ![t] = s]
    BY <1>3 DEF Make
  <2> HIDE DEF s
  <2> QED
    BY <1>1, <2>1, <2>2 DEF Requests, Pending, Numbered
<1> QED
  BY <1>2, <1>3

LEMMA WriteTyped ==
  ASSUME Typed, NEW r \in Tagged, Write(r)
  PROVE  /\ process' \in {"up", "exited", "crashed"}
         /\ culprit' \in Names \cup {"none", "write", "login", "user_info"}
         /\ toServer' \in Seq(Request) /\ toServer' \in Seq(Tagged)
<1>1. r \in Request
  BY DEF Tagged
<1>2. CASE toServer' = Append(toServer, r) /\ UNCHANGED <<process, culprit>>
  BY <1>1, <1>2 DEF Typed, TypeOK
<1>3. CASE Crash("write") /\ UNCHANGED toServer
  BY <1>3 DEF Typed, TypeOK, Crash
<1> QED
  BY <1>2, <1>3 DEF Write

(* The three steps of a thread that sends. *)
LEMMA TakeTyped ==
  ASSUME Typed, NEW t \in Threads, Take(t)
  PROVE  Typed'
<1>1. /\ number \in 0..(Wrap - 1) /\ number \in Number /\ sending[t] \in Sending
      /\ sending[t].name \in Names
  BY DEF Take, Typed, TypeOK, Number, Pending
<1>2. sending' = [sending EXCEPT ![t].stage = "numbered", ![t].number = number]
      /\ sending \in [Threads -> Sending] /\ Pending
  BY DEF Take, Typed, TypeOK
<1>3. sending' \in [Threads -> Sending] /\ Pending'
  BY <1>1, <1>2 DEF Sending, Stages, Pending, Numbered
<1>4. named' \in [0..(Wrap - 1) -> Names \cup {"none"}]
  BY <1>1 DEF Take, Typed, TypeOK
<1>5. crossed' \in BOOLEAN
  <2>1. (\E u \in Threads \ {t} : Numbered(u)) \in BOOLEAN /\ crossed \in BOOLEAN
    BY DEF Typed, TypeOK
  <2> QED
    BY <2>1, Zenon DEF Take
<1> QED
  BY <1>3, <1>4, <1>5 DEF Take, Typed, TypeOK, botVars, netVars, budgetVars

LEMMA PutTyped ==
  ASSUME Typed, NEW t \in Threads, Put(t)
  PROVE  Typed'
<1> DEFINE s == sending[t]
           r == [value |-> s.value, name |-> s.name, number |-> s.number]
<1>1. /\ s \in Sending /\ s.name \in Names /\ s.number \in 0..(Wrap - 1)
      /\ s.stage = "numbered"
  BY DEF Put, Typed, TypeOK, Pending, Numbered
<1>2. r \in Tagged
  BY <1>1 DEF Tagged, Request, Number, Sending
<1>3. Write(r) \/ WriteStale
  BY DEF Put
<1>4. /\ process' \in {"up", "exited", "crashed"}
      /\ culprit' \in Names \cup {"none", "write", "login", "user_info"}
      /\ toServer' \in Seq(Request) /\ toServer' \in Seq(Tagged)
  <2>1. CASE Write(r)
    BY <1>2, <2>1, WriteTyped
  <2>2. CASE WriteStale
    BY <2>2 DEF WriteStale, Crash, Typed, TypeOK
  <2> QED
    BY <1>3, <2>1, <2>2
<1>5. sending' \in [Threads -> Sending] /\ Pending'
  <2>1. sending' = [sending EXCEPT ![t].stage = "written"]
    BY DEF Put
  <2>2. sending \in [Threads -> Sending] /\ Pending
    BY DEF Typed, TypeOK
  <2> QED
    BY <1>1, <2>1, <2>2 DEF Sending, Stages, Pending, Numbered
<1>6. untold' \in BOOLEAN
  <2>1. (s.name = "icon") \in BOOLEAN /\ untold \in BOOLEAN
    BY DEF Typed, TypeOK
  <2> QED
    BY <2>1, Zenon DEF Put
<1> QED
  BY <1>4, <1>5, <1>6 DEF Put, Typed, TypeOK, history, budgetVars

LEMMA CountTyped ==
  ASSUME Typed, NEW t \in Threads, Count(t)
  PROVE  Typed'
<1>1. sending[t].number \in 0..(Wrap - 1)
  BY DEF Count, Typed, Pending, Numbered
<1>2. PICK n \in 0..(Wrap - 1) : number' = After(n)
  BY <1>1, SinceTyped DEF Count
<1>3. number' \in 0..(Wrap - 1)
  BY <1>2, NumberAfter
<1>4. Nothing \in Sending
  BY ValuesAssumption DEF Nothing, Sending, Stages, Number
<1>5. sending' = [sending EXCEPT ![t] = Nothing]
      /\ sending \in [Threads -> Sending] /\ Pending
  BY DEF Count, Typed, TypeOK
<1>6. sending' \in [Threads -> Sending] /\ Pending'
  BY <1>4, <1>5 DEF Pending, Numbered, Nothing
<1> QED
  BY <1>3, <1>6 DEF Count, Typed, TypeOK, botVars, history, netVars, budgetVars

LEMMA SendTyped ==
  ASSUME Typed, NEW t \in Threads, Take(t) \/ Put(t) \/ Count(t)
  PROVE  Typed'
BY TakeTyped, PutTyped, CountTyped

LEMMA IconTyped ==
  ASSUME Typed, NEW t \in Threads, ReloadIcon(t), UNCHANGED <<number, named>>
  PROVE  own' \in Identity /\ untold' \in BOOLEAN /\ Requests'
<1>1. PICK icon \in Icons :
        /\ own' = [own EXCEPT !.icon = icon] /\ untold' \in BOOLEAN
        /\ Make(t, "icon", icon) \/ SendNothing
  <2>1. CASE disk = NoIcon
    BY <2>1, ValuesAssumption DEF ReloadIcon
  <2>2. CASE disk # NoIcon
    <3>1. disk \in Icons /\ TakeIcon(t, disk)
      BY <2>2 DEF Typed, TypeOK, ReloadIcon
    <3>2. (~Connected \/ \E u \in Threads \ {t} : Unsent(u)) \in BOOLEAN
      BY DEF Connected
    <3> QED
      BY <3>1, <3>2 DEF TakeIcon
  <2> QED
    BY <2>1, <2>2
<1>2. own' \in Identity
  BY <1>1 DEF Typed, TypeOK, Identity
<1>3. "icon" \in Names /\ icon \in Values
  BY NamesOfCommands, ValuesAssumption
<1> QED
  BY <1>1, <1>2, <1>3, MakeTyped

(* The variables neither a request nor the line under way is about. *)
LEMMA SameTyped ==
  ASSUME Typed, UNCHANGED vars
  PROVE  Typed'
BY DEF Typed, TypeOK, Pending, Numbered, vars, botVars, numbers, history, netVars, budgetVars

(* A step of the main thread that only ends the process. *)
LEMMA CrashTyped ==
  ASSUME Typed, NEW in \in Names \cup {"none", "write", "login", "user_info"}, Crash(in),
         UNCHANGED <<running, left, own, untold, todo, numbers, history, netVars, budgetVars>>
  PROVE  Typed'
BY DEF Typed, TypeOK, Pending, Numbered, Crash, numbers, history, netVars, budgetVars

(* A step that may make a message, and change the identity and the lines. *)
LEMMA MadeTyped ==
  ASSUME Typed, Requests', todo' \in Seq(Task), own' \in Identity, untold' \in BOOLEAN,
         events' \in Nat,
         UNCHANGED <<process, culprit, running, left, history, netVars, disk>>
  PROVE  Typed'
BY DEF Typed, TypeOK, Requests, history, netVars

LEMMA CloseTyped ==
  ASSUME Typed, Close
  PROVE  /\ link' \in Logins \cup {"opening", "lost", "on", "off"} /\ alive' \in BOOLEAN
         /\ shown' \in [Parts -> Values]
         /\ toServer' \in Seq(Request) /\ toServer' \in Seq(Tagged) /\ toBot' \in Seq(Reply)
BY EmptyTyped DEF Close, Typed, TypeOK

LEMMA SameRequests ==
  ASSUME Typed, UNCHANGED numbers
  PROVE  Requests'
BY DEF Typed, TypeOK, Requests, Pending, Numbered, numbers

LEMMA HandleTyped ==
  ASSUME Typed, Handle
  PROVE  Typed'
<1>1. CASE GiveWord
  <2>1. Turn /\ Current.job = "prefix"
        /\ todo' = [todo EXCEPT ![1].job = "parse", ![1].text.word = Prefix]
    BY <1>1 DEF GiveWord
  <2>2. Current \in Line /\ Prefix \in Words /\ todo \in Seq(Task) /\ todo # <<>>
    BY <2>1, LineTyped, NamesOfCommands, NamesFound DEF Prefix, Typed, TypeOK, Turn
  <2> DEFINE text == [Current.text EXCEPT !.word = Prefix]
             line == [Current EXCEPT !.job = "parse", !.text.word = Prefix]
  <2>3. text \in Text /\ line = [Current EXCEPT !.job = "parse", !.text = text]
    BY <2>2 DEF Line, Text
  <2> HIDE DEF text
  <2>4. line \in Line
    BY <2>2, <2>3 DEF Line
  <2>5. todo' = [todo EXCEPT ![1] = line]
    <3>1. todo[1] = Current
      BY <2>2 DEF Current
    <3> QED
      BY <2>1, <2>2, <3>1
  <2> HIDE DEF line
  <2>6. todo' \in Seq(Task)
    BY <2>2, <2>4, <2>5 DEF Task
  <2> QED
    BY <1>1, <2>6, MadeTyped, SameRequests DEF GiveWord, Typed, TypeOK, botVars, budgetVars
<1>2. CASE Drops
  <2>1. todo' \in Seq(Task)
    BY <1>2, NextLineTyped DEF Drops, Parsing
  <2> QED
    BY <1>2, <2>1, MadeTyped, SameRequests DEF Drops, Typed, TypeOK, botVars, budgetVars
<1>3. CASE PrintUsage
  <2>1. Name \in Names
    BY <1>3, LineTyped DEF PrintUsage, Parsing
  <2> QED
    BY <1>3, <2>1, CrashTyped DEF PrintUsage
<1>4. CASE AskAboutNobody \/ Show
  <2>1. Name \in Names
    BY <1>4, ExecutesTyped DEF AskAboutNobody, Show
  <2> QED
    BY <1>4, <2>1, CrashTyped DEF AskAboutNobody, Show
<1>5. CASE UsersForgotten
  <2>1. sending["main"].name \in Names
    BY <1>5 DEF UsersForgotten, Typed, Pending, Threads
  <2> QED
    BY <1>5, <2>1, CrashTyped DEF UsersForgotten
<1>6. CASE SetIconFails \/ LoadFails
  BY <1>6, NamesOfCommands, CrashTyped DEF SetIconFails, LoadFails
<1>7. CASE Ask
  <2>1. Name \in Names /\ NoValue \in Values /\ Turn
    BY <1>7, ExecutesTyped, ValuesAssumption DEF Ask
  <2>2. Requests' /\ todo' \in Seq(Task)
    BY <1>7, <2>1, MakeTyped, NextLineTyped DEF Ask, Threads
  <2> QED
    BY <1>7, <2>2, MadeTyped DEF Ask, Typed, TypeOK, botVars, budgetVars
<1>8. CASE AskAbout
  <2>1. (IF Name = "whois" THEN "info" ELSE Name) \in Names /\ Arg \in Values /\ Turn
    BY <1>8, ExecutesTyped, NamesOfCommands DEF AskAbout
  <2>2. Requests' /\ todo' \in Seq(Task)
    BY <1>8, <2>1, MakeTyped, NextLineTyped DEF AskAbout, Threads
  <2> QED
    BY <1>8, <2>2, MadeTyped DEF AskAbout, Typed, TypeOK, botVars, budgetVars
<1>9. CASE Set
  <2> DEFINE value == IF ArgsOf(Current) = 0 THEN NoValue ELSE Arg
  <2>1. Name \in Names /\ Name \in {"nick", "status"} /\ value \in Values /\ Turn
    BY <1>9, ExecutesTyped, ValuesAssumption DEF Set, Setting
  <2>2. /\ own' = own \/ own' = [own EXCEPT ![Name] = value]
        /\ SendNothing \/ Make("main", Name, value)
    BY <1>9 DEF Set
  <2> HIDE DEF value
  <2>3. own' \in Identity
    BY <2>1, <2>2 DEF Typed, TypeOK, Identity
  <2>4. Requests' /\ todo' \in Seq(Task)
    BY <1>9, <2>1, <2>2, MakeTyped, NextLineTyped DEF Set, Threads
  <2> QED
    BY <1>9, <2>3, <2>4, MadeTyped DEF Set, Typed, TypeOK, budgetVars
<1>10. CASE SetIcon \/ Reload
  <2>1. ReloadIcon("main") /\ Turn /\ NextLine
    BY <1>10, ExecutesTyped DEF SetIcon, Reload, ReloadIcon
  <2>2. /\ own' \in Identity /\ untold' \in BOOLEAN /\ Requests'
        /\ todo' \in Seq(Task)
    BY <1>10, <2>1, IconTyped, NextLineTyped DEF SetIcon, Reload, Threads
  <2> QED
    BY <1>10, <2>2, MadeTyped DEF SetIcon, Reload, Typed, TypeOK, budgetVars
<1>11. CASE Load
  <2> DEFINE file == Bookmarks[Arg]
             lines == [i \in DOMAIN file |-> Parse(FALSE, file[i])]
  <2>1. file \in Seq(Text) /\ todo # <<>>
    BY <1>11, ExecutesTyped, TextsAssumption DEF Load, Turn
  <2>2. todo' = lines \o Tail(todo)
    BY <1>11 DEF Load
  <2>3. ASSUME NEW text \in Text PROVE Parse(FALSE, text) \in Task
    BY DEF Parse, Task, Line
  <2> HIDE DEF file
  <2>4. lines \in Seq(Task)
    <3>1. /\ Len(file) \in Nat /\ DOMAIN file = 1..Len(file)
          /\ \A i \in 1..Len(file) : file[i] \in Text
      BY <2>1
    <3>2. lines \in [1..Len(file) -> Task]
      BY <2>3, <3>1
    <3> HIDE DEF lines
    <3> QED
      BY <3>1, <3>2
  <2> HIDE DEF lines
  <2>5. todo' \in Seq(Task)
    BY <2>1, <2>2, <2>4 DEF Typed, TypeOK
  <2> QED
    BY <1>11, <2>5, MadeTyped, SameRequests DEF Load, Typed, TypeOK, botVars, budgetVars
<1>12. CASE Quit
  <2>1. todo' \in Seq(Task)
    BY <1>12, ExecutesTyped, NextLineTyped DEF Quit
  <2>2. Requests' /\ running' \in BOOLEAN
    BY <1>12, SameRequests DEF Quit
  <2> QED
    BY <1>12, <2>1, <2>2 DEF Quit, Typed, TypeOK, Requests, history, netVars, budgetVars
<1>13. CASE Disconnect
  <2>1. todo' \in Seq(Task)
    BY <1>13, ExecutesTyped, NextLineTyped DEF Disconnect
  <2> QED
    BY <1>13, <2>1, CloseTyped, SameRequests
    DEF Disconnect, Typed, TypeOK, Requests, numbers, history, budgetVars
<1>14. CASE Take("main") \/ Put("main") \/ Count("main")
  BY <1>14, SendTyped DEF Threads
<1> QED
  BY <1>1, <1>2, <1>3, <1>4, <1>5, <1>6, <1>7, <1>8, <1>9, <1>10, <1>11, <1>12, <1>13, <1>14
  DEF Handle

(* The steps of the session. *)
LEMMA BareTyped ==
  ASSUME NEW name \in Names \cup {"login", "join_chat"}, NEW value \in Values
  PROVE  Bare(name, value) \in Tagged
BY DEF Bare, Tagged, Request, Number

LEMMA LoginTyped ==
  ASSUME Typed, NEW name \in Names \cup {"login", "join_chat"}, NEW value \in Values,
         toBot # <<>>, toBot' = Tail(toBot),
         Write(Bare(name, value)), link' \in Logins \cup {"opening"}, untold' \in BOOLEAN,
         UNCHANGED <<running, left, own, todo, numbers, history, alive, shown, budgetVars>>
  PROVE  Typed'
<1>1. /\ process' \in {"up", "exited", "crashed"}
      /\ culprit' \in Names \cup {"none", "write", "login", "user_info"}
      /\ toServer' \in Seq(Request) /\ toServer' \in Seq(Tagged)
  BY BareTyped, WriteTyped
<1>2. toBot' \in Seq(Reply)
  BY DEF Typed, TypeOK
<1>3. link' \in Logins \cup {"opening", "lost", "on", "off"}
  OBVIOUS
<1> QED
  BY <1>1, <1>2, <1>3, SameRequests DEF Typed, TypeOK, Requests, numbers, history, budgetVars

LEMMA SessionTyped ==
  ASSUME Typed, Session
  PROVE  Typed'
<1>0. /\ own["nick"] \in Values /\ own["status"] \in Values /\ own["icon"] \in Values
      /\ NoValue \in Values
  BY ValuesAssumption DEF Typed, TypeOK, Identity
<1>1. CASE HandleReply
  <2>1. toBot' \in Seq(Reply)
    BY <1>1 DEF HandleReply, Typed, TypeOK
  <2>2. misnamed' \in BOOLEAN
    BY <1>1 DEF HandleReply, Typed, TypeOK
  <2> QED
    BY <1>1, <2>1, <2>2, SameRequests
    DEF HandleReply, Typed, TypeOK, Requests, botVars, numbers, budgetVars
<1>2. CASE HandleInfo
  BY <1>2, CrashTyped DEF HandleInfo
<1>3. CASE Exit
  BY <1>3, SameRequests
  DEF Exit, Typed, TypeOK, Requests, numbers, history, netVars, budgetVars
<1>4. CASE LoseSession \/ LoginLost \/ Opened
  BY <1>4, EmptyTyped, SameRequests
  DEF LoseSession, LoginLost, Opened, Typed, TypeOK, Requests, botVars, numbers, history,
      budgetVars
<1>5. CASE Redial
  <2> DEFINE r == Bare("nick", own["nick"])
  <2>1. r \in Tagged /\ r \in Request
    BY <1>0, NamesOfCommands, BareTyped DEF Tagged
  <2>2. /\ toServer' = toServer \/ toServer' = <<r>>
        /\ link' \in {"off", "nick"}
        /\ alive' \in BOOLEAN
        /\ shown' \in [Parts -> Values]
    BY <1>0, <1>5 DEF Redial, Typed, TypeOK
  <2> HIDE DEF r
  <2>3. <<r>> \in Seq(Request) /\ <<r>> \in Seq(Tagged)
    BY <2>1
  <2>4. toServer' \in Seq(Request) /\ toServer' \in Seq(Tagged)
    BY <2>2, <2>3 DEF Typed, TypeOK
  <2> QED
    BY <1>5, <2>2, <2>4, SameRequests
    DEF Redial, Typed, TypeOK, Requests, Logins, botVars, numbers, history, budgetVars
<1>6. CASE LoginStatus
  BY <1>0, <1>6, NamesOfCommands, LoginTyped DEF LoginStatus, Answered, Logins, Typed, TypeOK
<1>7. CASE LoginIcon
  <2>1. Unsent("signal") \in BOOLEAN /\ untold \in BOOLEAN
    BY DEF Unsent, Typed, TypeOK
  <2>2. untold' \in BOOLEAN
    BY <1>7, <2>1, Zenon DEF LoginIcon
  <2> QED
    BY <1>0, <1>7, <2>2, NamesOfCommands, LoginTyped
    DEF LoginIcon, Answered, Logins, Typed, TypeOK
<1>8. CASE LoginSend
  BY <1>0, <1>8, LoginTyped DEF LoginSend, Answered, Logins, Typed, TypeOK
<1>9. CASE LoginDone
  BY <1>0, <1>9, LoginTyped DEF LoginDone, Answered, Typed, TypeOK
<1>10. CASE LoginRefused
  <2>1. toBot' \in Seq(Reply)
    BY <1>10 DEF LoginRefused, Answered, Typed, TypeOK
  <2> QED
    BY <1>10, <2>1, SameRequests
    DEF LoginRefused, Crash, Typed, TypeOK, Requests, numbers, history, budgetVars
<1> QED
  BY <1>1, <1>2, <1>3, <1>4, <1>5, <1>6, <1>7, <1>8, <1>9, <1>10 DEF Session

(* The server's answer to a request. *)
LEMMA ServeTyped ==
  ASSUME Typed, Serve
  PROVE  Typed'
<1> DEFINE r     == Head(toServer)
           cause == IF r.number = NoNumber THEN "none" ELSE r.name
<1>1. /\ r \in Tagged /\ toServer' \in Seq(Request) /\ toServer' \in Seq(Tagged)
      /\ UNCHANGED <<botVars, todo, numbers, history, link, alive, budgetVars>>
  BY DEF Serve, Typed, TypeOK
<1>2. PICK verdict \in Verdicts(r) :
        /\ toBot' = Append(toBot, [kind |-> verdict, number |-> r.number, cause |-> cause])
        /\ shown' = IF r.name \in Parts /\ verdict = "okay"
                      THEN [shown EXCEPT ![r.name] = r.value] ELSE shown
  BY DEF Serve
<1> DEFINE reply == [kind |-> verdict, number |-> r.number, cause |-> cause]
<1> HIDE DEF r
<1>3. verdict \in {"okay", "error", "info"}
  BY <1>2 DEF Verdicts
<1>4. r.number \in Number /\ r.value \in Values /\ cause \in Names \cup {"none"}
  BY <1>1 DEF Tagged, Request
<1>5. reply \in Reply
  BY <1>3, <1>4 DEF Reply
<1> HIDE DEF reply
<1>6. toBot' \in Seq(Reply)
  BY <1>2, <1>5 DEF Typed, TypeOK, reply
<1>7. shown' \in [Parts -> Values]
  BY <1>2, <1>4 DEF Typed, TypeOK
<1> QED
  BY <1>1, <1>6, <1>7, SameRequests
  DEF Typed, TypeOK, Requests, botVars, numbers, history, budgetVars

LEMMA HearsTyped ==
  ASSUME Typed, NEW tasks \in Seq(Task), Hears(tasks)
  PROVE  Typed'
<1>1. events' \in Nat
  BY DEF Hears, Typed, TypeOK
<1> QED
  BY <1>1, MadeTyped, SameRequests DEF Hears, Typed, TypeOK, botVars

LEMMA LineIsTyped ==
  ASSUME NEW kind \in Kinds, NEW text \in Text, NEW nick \in Values
  PROVE  LineFor(kind, text, nick) \in Line
<1>1. "me" \in Words /\ "msg" \in Words /\ "broadcast" \in Words /\ NoValue \in Values
  BY NamesOfCommands, NamesFound, ValuesAssumption
<1>2. ASSUME NEW chat \in BOOLEAN, NEW t \in Text PROVE Parse(chat, t) \in Line
  BY DEF Parse, Line
<1>3. /\ Slash("me", 1, NoValue) \in Text /\ Slash("msg", 2, nick) \in Text
      /\ Slash("broadcast", 1, NoValue) \in Text
  BY <1>1 DEF Slash, Text
<1> QED
  BY <1>2, <1>3 DEF LineFor, Kinds

LEMMA SlashTyped ==
  ASSUME NEW chat \in BOOLEAN, NEW word \in Words, NEW n \in 0..2, NEW value \in Values
  PROVE  Parse(chat, Slash(word, n, value)) \in Task
<1>1. Slash(word, n, value) \in Text
  BY DEF Slash, Text
<1> QED
  BY <1>1 DEF Parse, Task, Line

(* What users say leads to lines. *)
LEMMA HeardTyped ==
  ASSUME NEW tasks, Hears(tasks),
         \/ \E a \in Answers, nick \in Present :
              tasks = [i \in DOMAIN a.texts |-> LineFor(a.kind, a.texts[i], nick)]
         \/ \E word \in {"nick", "status"}, n \in {0, 1}, value \in Values :
              tasks = <<Parse(FALSE, Slash(word, n, value))>>
         \/ tasks = <<[job |-> "reload"]>>
         \/ tasks = <<[job |-> "reload"], Parse(TRUE, Slash("me", 1, NoValue))>>
  PROVE  tasks \in Seq(Task)
<1>0. 0 \in 0..2 /\ 1 \in 0..2 /\ TRUE \in BOOLEAN /\ FALSE \in BOOLEAN
  OBVIOUS
<1>1. "nick" \in Words /\ "status" \in Words /\ "me" \in Words /\ NoValue \in Values
  BY NamesOfCommands, NamesFound, ValuesAssumption
<1>2. ASSUME NEW t \in Task PROVE <<t>> \in Seq(Task)
  OBVIOUS
<1>3. ASSUME NEW t \in Task, NEW u \in Task PROVE <<t, u>> \in Seq(Task)
  OBVIOUS
<1>4. [job |-> "reload"] \in Task
  BY DEF Task
<1>5. Parse(TRUE, Slash("me", 1, NoValue)) \in Task
  BY <1>0, <1>1, SlashTyped, Zenon
<1>6. ASSUME NEW a \in Answers, NEW nick \in Present,
             tasks = [i \in DOMAIN a.texts |-> LineFor(a.kind, a.texts[i], nick)]
      PROVE  tasks \in Seq(Task)
  <2> DEFINE texts == a.texts
             lines == [i \in DOMAIN texts |-> LineFor(a.kind, texts[i], nick)]
  <2>1. texts \in Seq(Text) /\ a.kind \in Kinds /\ nick \in Values
    BY TextsAssumption, ValuesAssumption
  <2>2. tasks = lines
    BY <1>6
  <2> HIDE DEF texts
  <2>3. /\ Len(texts) \in Nat /\ DOMAIN texts = 1..Len(texts)
        /\ \A i \in 1..Len(texts) : texts[i] \in Text
    BY <2>1
  <2>4. lines \in [1..Len(texts) -> Line]
    BY <2>1, <2>3, LineIsTyped
  <2> HIDE DEF lines
  <2>5. lines \in [1..Len(texts) -> Task]
    BY <2>4 DEF Task
  <2> QED
    BY <2>2, <2>3, <2>5
<1>7. ASSUME NEW word \in {"nick", "status"}, NEW n \in {0, 1}, NEW value \in Values
      PROVE  <<Parse(FALSE, Slash(word, n, value))>> \in Seq(Task)
  <2>1. n \in 0..2 /\ word \in Words
    BY <1>1
  <2>2. Parse(FALSE, Slash(word, n, value)) \in Task
    BY <1>0, <2>1, SlashTyped, Zenon
  <2> QED
    BY <1>2, <2>2
<1> QED
  BY <1>2, <1>3, <1>4, <1>5, <1>6, <1>7

(* Every message of a user is one of these. *)
LEMMA Heard ==
  ASSUME HearTalk \/ HearNick \/ HearStatus \/ HearReload
  PROVE  \E tasks :
           /\ Hears(tasks)
           /\ \/ \E a \in Answers, nick \in Present :
                   tasks = [i \in DOMAIN a.texts |-> LineFor(a.kind, a.texts[i], nick)]
              \/ \E word \in {"nick", "status"}, n \in {0, 1}, value \in Values :
                   tasks = <<Parse(FALSE, Slash(word, n, value))>>
              \/ tasks = <<[job |-> "reload"]>>
              \/ tasks = <<[job |-> "reload"], Parse(TRUE, Slash("me", 1, NoValue))>>
<1>0. Nicks \subseteq Values /\ Statuses \subseteq Values /\ NoValue \in Values
  BY ValuesAssumption
<1>1. CASE HearTalk
  BY <1>1 DEF HearTalk
<1>2. CASE HearNick
  BY <1>0, <1>2 DEF HearNick
<1>3. CASE HearStatus
  BY <1>0, <1>3 DEF HearStatus
<1>4. CASE HearReload
  BY <1>4 DEF HearReload
<1> QED
  BY <1>1, <1>2, <1>3, <1>4

(* The signals, the users, the file and the server's end. *)
LEMMA WorldTyped ==
  ASSUME Typed, Signal \/ World
  PROVE  Typed'
<1>1. CASE Hup
  <2>1. events' \in Nat
    BY <1>1 DEF Hup, Typed, TypeOK
  <2>2. own' \in Identity /\ untold' \in BOOLEAN /\ Requests'
    BY <1>1, IconTyped DEF Hup, Threads
  <2> QED
    BY <1>1, <2>1, <2>2, MadeTyped DEF Hup, Typed, TypeOK
<1>2. CASE Terminate
  BY <1>2, CloseTyped, SameRequests
  DEF Terminate, Typed, TypeOK, Requests, numbers, history, budgetVars
<1>3. CASE Take("signal") \/ Put("signal") \/ Count("signal")
  BY <1>3, SendTyped DEF Threads
<1>4. CASE HearTalk \/ HearNick \/ HearStatus \/ HearReload
  BY <1>4, Heard, HeardTyped, HearsTyped
<1>5. CASE DiskChange
  <2>1. disk' \in Icons \cup {NoIcon} /\ events' \in Nat
    BY <1>5 DEF DiskChange, Typed, TypeOK
  <2> QED
    BY <1>5, <2>1, SameRequests
    DEF DiskChange, Typed, TypeOK, Requests, botVars, numbers, history, netVars
<1>6. CASE Drop
  <2>1. events' \in Nat
    BY <1>6 DEF Drop, Typed, TypeOK
  <2>2. Requests' /\ alive' \in BOOLEAN
    BY <1>6, SameRequests DEF Drop
  <2> QED
    BY <1>6, <2>1, <2>2 DEF Drop, Typed, TypeOK, Requests, botVars, history
<1> QED
  BY <1>1, <1>2, <1>3, <1>4, <1>5, <1>6 DEF Signal, World

LEMMA InitTyped == Init => Typed
<1> SUFFICES ASSUME Init PROVE Typed
  OBVIOUS
<1> DEFINE r == [value |-> NoValue, name |-> "join_chat", number |-> NoNumber]
<1>1. r \in Tagged /\ r \in Request
  BY ValuesAssumption DEF Tagged, Request, Number
<1>2. toServer = <<r>>
  BY DEF Init
<1> HIDE DEF r
<1>3. toServer \in Seq(Request) /\ toServer \in Seq(Tagged)
  BY <1>1, <1>2
<1>4. own \in Identity /\ shown \in [Parts -> Values] /\ disk \in Icons \cup {NoIcon}
  <2>1. /\ own \in [nick : Nicks \ Refused, status : Statuses \ Refused, icon : Icons]
        /\ disk \in Icons \cup {NoIcon} /\ shown = own
    BY DEF Init
  <2> QED
    BY <2>1, ValuesAssumption DEF Identity, Parts
<1>5. /\ number \in 0..(Wrap - 1) /\ named \in [0..(Wrap - 1) -> Names \cup {"none"}]
      /\ link \in Logins \cup {"opening", "lost", "on", "off"}
      /\ culprit \in Names \cup {"none", "write", "login", "user_info"}
  BY NumbersAssumption DEF Init
<1>6. todo \in Seq(Task) /\ toBot \in Seq(Reply)
  BY EmptyTyped DEF Init
<1>7. sending \in [Threads -> Sending] /\ Pending
  <2>1. Nothing \in Sending
    BY ValuesAssumption DEF Nothing, Sending, Stages, Number
  <2> QED
    BY <2>1 DEF Init, Pending, Numbered, Nothing
<1>8. /\ process \in {"up", "exited", "crashed"}
      /\ running \in BOOLEAN /\ left \in BOOLEAN /\ alive \in BOOLEAN
      /\ untold \in BOOLEAN /\ misnamed \in BOOLEAN /\ crossed \in BOOLEAN
      /\ events \in Nat
  BY DEF Init
<1> QED
  BY <1>3, <1>4, <1>5, <1>6, <1>7, <1>8 DEF Typed, TypeOK

LEMMA TypedKept == Typed /\ [Next]_vars => Typed'
BY SameTyped, HandleTyped, SessionTyped, WorldTyped, ServeTyped DEF Next, Bot

(* Every variable of the commands keeps its type, whatever the dictionary,   *)
(* the bookmarks and the answers of the server: in particular a number that *)
(* is sent indexes the table of names, also when both threads move the      *)
(* counter, and every crash is in a command, a write, the login or the      *)
(* answer to /info.                                                         *)
THEOREM TypeCorrect == Spec => []TypeOK
<1>1. Typed => TypeOK
  BY DEF Typed
<1> QED
  BY <1>1, InitTyped, TypedKept, PTL DEF Spec

-----------------------------------------------------------------------------
(* What needs a session. *)

(* Every command that sends a request whatever the state is says in the     *)
(* table that it needs a session.                                           *)
LEMMA SendersNeedSession == Asking \cup AskingAbout \subseteq NeedSession
BY DEF Asking, AskingAbout, NeedSession

(* A command that is executed although it needs a session has one. *)
LEMMA ExecutedOnline ==
  ASSUME NEW names, names \subseteq NeedSession, Executes(names)
  PROVE  Connected
BY DEF Executes, WithoutSession

(* The main thread makes a request in a session, which only the signal      *)
(* thread may close before the request is written and counted.              *)
AsksOnline ==
  /\ left => link = "off"
  /\ sending["main"].stage # "none" => Connected \/ (~running /\ ~left)

LEMMA SameAsks ==
  ASSUME AsksOnline, UNCHANGED <<running, left, link, sending>>
  PROVE  AsksOnline'
BY DEF AsksOnline, Connected

LEMMA MakeAsks ==
  ASSUME AsksOnline, UNCHANGED <<running, left, link>>,
         SendNothing \/ (Connected /\ \E name, value : Make("main", name, value))
  PROVE  AsksOnline'
BY DEF AsksOnline, SendNothing, Connected

(* What a thread does with the message it made. *)
LEMMA SendAsks ==
  ASSUME Typed, AsksOnline, NEW t \in Threads, Take(t) \/ Put(t) \/ Count(t)
  PROVE  AsksOnline'
<1>1. UNCHANGED <<running, left, link>>
  BY DEF Take, Put, Count, botVars, netVars
<1>2. /\ \A u \in Threads \ {t} : sending'[u] = sending[u]
      /\ sending[t].stage # "none"
  BY DEF Take, Put, Count, Typed, TypeOK
<1>3. sending'["main"].stage # "none" => sending["main"].stage # "none"
  BY <1>2 DEF Threads
<1> QED
  BY <1>1, <1>3 DEF AsksOnline, Connected

LEMMA HandleAsks ==
  ASSUME Typed, AsksOnline, Handle
  PROVE  AsksOnline'
<1>1. CASE GiveWord \/ Drops \/ PrintUsage \/ AskAboutNobody \/ UsersForgotten \/ SetIconFails
           \/ Show \/ Load \/ LoadFails
  BY <1>1, SameAsks DEF GiveWord, Drops, PrintUsage, AskAboutNobody, UsersForgotten,
     SetIconFails, Show, Load, LoadFails, botVars, numbers, netVars
<1>2. CASE Ask
  BY <1>2, SendersNeedSession, ExecutedOnline, MakeAsks DEF Ask, botVars, netVars
<1>3. CASE AskAbout
  BY <1>3, SendersNeedSession, ExecutedOnline, MakeAsks DEF AskAbout, botVars, netVars
<1>4. CASE Set
  BY <1>4, MakeAsks DEF Set, SendNothing, netVars
<1>5. CASE SetIcon \/ Reload
  <2>1. UNCHANGED <<running, left, link>>
    BY <1>5 DEF SetIcon, Reload, netVars
  <2>2. SendNothing \/ (Connected /\ \E name, value : Make("main", name, value))
    BY <1>5 DEF SetIcon, Reload, ReloadIcon, TakeIcon
  <2> QED
    BY <2>1, <2>2, MakeAsks
<1>6. CASE Quit
  BY <1>6 DEF Quit, AsksOnline, Connected, numbers, netVars
<1>7. CASE Disconnect
  BY <1>7 DEF Disconnect, Close, Executes, Parsing, Turn, AsksOnline, numbers
<1>8. CASE Take("main") \/ Put("main") \/ Count("main")
  BY <1>8, SendAsks DEF Threads
<1> QED
  BY <1>1, <1>2, <1>3, <1>4, <1>5, <1>6, <1>7, <1>8 DEF Handle

LEMMA SessionAsks ==
  ASSUME AsksOnline, Session
  PROVE  AsksOnline'
<1>0. UNCHANGED <<running, left, sending>>
  BY DEF Session, HandleReply, HandleInfo, Exit, LoseSession, Redial, LoginStatus, LoginIcon,
         LoginSend, LoginDone, Opened, LoginRefused, LoginLost, botVars, numbers
<1>1. CASE HandleReply \/ HandleInfo \/ Exit \/ LoginRefused
  BY <1>0, <1>1, SameAsks DEF HandleReply, HandleInfo, Exit, LoginRefused, netVars
<1>2. CASE LoseSession
  BY <1>0, <1>2 DEF LoseSession, Idle, AsksOnline
<1>3. CASE Redial \/ LoginLost
  BY <1>0, <1>3 DEF Redial, LoginLost, AsksOnline, Connected, Logins
<1>4. CASE LoginStatus \/ LoginIcon \/ LoginSend \/ LoginDone \/ Opened
  BY <1>0, <1>4 DEF LoginStatus, LoginIcon, LoginSend, LoginDone, Opened, Answered, AsksOnline,
     Connected
<1> QED
  BY <1>1, <1>2, <1>3, <1>4 DEF Session

LEMMA OthersAsk ==
  ASSUME Typed, AsksOnline, Signal \/ Serve \/ World
  PROVE  AsksOnline'
<1>1. CASE Serve \/ World
  BY <1>1, SameAsks DEF Serve, World, HearTalk, HearNick, HearStatus, HearReload, Hears,
     DiskChange, Drop, botVars, numbers, netVars
<1>2. CASE Hup
  <2>1. UNCHANGED <<running, left, link>>
    BY <1>2 DEF Hup, netVars
  <2>2. sending'["main"] = sending["main"]
    BY <1>2 DEF Hup, ReloadIcon, TakeIcon, SendNothing, Make, Typed, TypeOK, Threads
  <2> QED
    BY <2>1, <2>2 DEF AsksOnline, Connected
<1>3. CASE Terminate
  BY <1>3 DEF Terminate, Close, AsksOnline, Connected, numbers
<1>4. CASE Take("signal") \/ Put("signal") \/ Count("signal")
  BY <1>4, SendAsks DEF Threads
<1> QED
  BY <1>1, <1>2, <1>3, <1>4 DEF Signal

LEMMA AsksKept == Typed /\ AsksOnline /\ [Next]_vars => AsksOnline'
<1>1. UNCHANGED vars => UNCHANGED <<running, left, link, sending>>
  BY DEF vars, botVars, numbers, netVars
<1> QED
  BY <1>1, SameAsks, HandleAsks, SessionAsks, OthersAsk DEF Next, Bot

(* Only a thread that has written its message moves the counter on. *)
LEMMA OnlyCounted ==
  ASSUME Next, number' # number
  PROVE  Count("main") \/ Count("signal")
<1>1. CASE Handle
  BY <1>1 DEF Handle, GiveWord, Drops, PrintUsage, Ask, AskAbout, AskAboutNobody, UsersForgotten,
     Set, SetIcon, SetIconFails, Show, Load, LoadFails, Quit, Disconnect, Reload, Take, Put,
     numbers
<1>2. CASE Session
  BY <1>2 DEF Session, HandleReply, HandleInfo, Exit, LoseSession, Redial, LoginStatus,
     LoginIcon, LoginSend, LoginDone, Opened, LoginRefused, LoginLost, numbers
<1>3. CASE Signal \/ Serve
  BY <1>3 DEF Signal, Hup, Terminate, Take, Put, Serve, numbers
<1>4. CASE World
  BY <1>4 DEF World, HearTalk, HearNick, HearStatus, HearReload, Hears, DiskChange, Drop, numbers
<1> QED
  BY <1>1, <1>2, <1>3, <1>4 DEF Next, Bot

(* commands.c tests wr_connected when it has found the command, and the     *)
(* command numbers and counts its request later: unless the signal thread   *)
(* closed the session in between, there still is one, whatever the          *)
(* dictionary makes the bot execute and whatever /disconnect closed.        *)
THEOREM NumbersOnline == Spec => NumbersNeedSession
<1>1. Init => AsksOnline
  BY DEF Init, AsksOnline, Nothing, Threads
<1>2. Typed /\ AsksOnline /\ [Next]_vars =>
        [(number' # number /\ UNCHANGED sending["signal"]) => Connected \/ (~running /\ ~left)]_vars
  <2> SUFFICES ASSUME Typed, AsksOnline, Next, number' # number, UNCHANGED sending["signal"]
               PROVE  Connected \/ (~running /\ ~left)
    BY DEF vars, numbers
  <2>1. CASE Count("main")
    BY <2>1 DEF Count, AsksOnline
  <2>2. CASE Count("signal")
    <3>1. sending["signal"].stage = "written"
          /\ sending' = [sending EXCEPT !["signal"] = Nothing]
      BY <2>2 DEF Count
    <3>2. sending'["signal"].stage = "none"
      BY <3>1 DEF Typed, TypeOK, Threads, Nothing
    <3> QED
      BY <3>1, <3>2
  <2> QED
    BY <2>1, <2>2, OnlyCounted
<1> QED
  BY <1>1, <1>2, InitTyped, TypedKept, AsksKept, PTL DEF Spec, NumbersNeedSession

-----------------------------------------------------------------------------
(* What is said. *)

(* An answer is begun in a session, and the session is lost during it only   *)
(* if it is closed, by /disconnect or by the signal thread.                 *)
Parted == todo # <<>> => Connected \/ ~running \/ left

(* A plain text that has its word is the next to be parsed, and is echoed    *)
(* only if the session was closed.                                          *)
Given(line)    == line.job = "parse" /\ Plain(line.chat, line.text)
GivenWell(line) == line.text.word = "say" \/ (line.text.word = "echo" /\ (~running \/ left))
Prefixed == \A i \in DOMAIN todo : Given(todo[i]) => i = 1 /\ GivenWell(todo[i])

Said == Parted /\ Prefixed

LEMMA SameSaid ==
  ASSUME Said, UNCHANGED todo, Connected => Connected' \/ ~running' \/ left',
         ~running => ~running', left => left'
  PROVE  Said'
BY DEF Said, Parted, Prefixed, GivenWell

(* The next line's turn. *)
LEMMA NextSaid ==
  ASSUME Typed, Said, Turn, NextLine, Connected => Connected' \/ ~running' \/ left',
         ~running => ~running', left => left'
  PROVE  Said'
<1>1. todo \in Seq(Task) /\ todo # <<>> /\ todo' = Tail(todo)
  BY DEF Typed, TypeOK, Turn, NextLine
<1>2. \A i \in DOMAIN todo' : i + 1 \in DOMAIN todo /\ todo'[i] = todo[i + 1] /\ i + 1 # 1
  BY <1>1
<1>3. \A i \in DOMAIN todo' : ~Given(todo'[i])
  BY <1>2 DEF Said, Prefixed
<1> QED
  BY <1>1, <1>3 DEF Said, Parted, Prefixed

LEMMA HandleSaid ==
  ASSUME Typed, Said, Handle
  PROVE  Said'
<1>1. CASE GiveWord
  <2>1. /\ Turn /\ UNCHANGED <<running, left, link>>
        /\ todo' = [todo EXCEPT ![1].job = "parse", ![1].text.word = Prefix]
    BY <1>1 DEF GiveWord, botVars, netVars
  <2>2. /\ todo \in Seq(Task) /\ todo # <<>> /\ DOMAIN todo' = DOMAIN todo
        /\ \A i \in DOMAIN todo : i # 1 => todo'[i] = todo[i]
        /\ 1 \in DOMAIN todo /\ todo[1] = Current
    BY <2>1 DEF Typed, TypeOK, Turn, Current
  <2>3. todo'[1] = [Current EXCEPT !.job = "parse", !.text.word = Prefix]
    BY <2>1, <2>2
  <2>4. todo'[1].text.word = Prefix
    <3>1. Current \in Line
      BY <1>1, LineTyped DEF GiveWord
    <3>2. Current.text \in Text /\ DOMAIN Current = {"chat", "text", "job"}
      BY <3>1 DEF Line
    <3>3. "word" \in DOMAIN Current.text
      BY <3>2 DEF Text
    <3> QED
      BY <2>3, <3>2, <3>3
  <2>5. Connected \/ ~running \/ left
    BY <2>2 DEF Said, Parted
  <2>6. LET word == todo'[1].text.word
        IN  word = "say" \/ (word = "echo" /\ (~running' \/ left'))
    BY <2>1, <2>4, <2>5 DEF Prefix
  <2>7. \A i \in DOMAIN todo : i # 1 => ~Given(todo[i])
    BY DEF Said, Prefixed
  <2>8. Prefixed'
    BY <2>2, <2>6, <2>7 DEF Prefixed, GivenWell
  <2> QED
    BY <2>1, <2>2, <2>5, <2>8 DEF Said, Parted, Connected
<1>2. CASE PrintUsage \/ AskAboutNobody \/ UsersForgotten \/ SetIconFails \/ Show \/ LoadFails
  BY <1>2, SameSaid DEF PrintUsage, AskAboutNobody, UsersForgotten, SetIconFails, Show, LoadFails,
     netVars, Connected
<1>3. CASE Drops \/ Ask \/ AskAbout \/ Set \/ SetIcon \/ Reload \/ Quit
  <2>1. Turn /\ NextLine
    BY <1>3 DEF Drops, Ask, AskAbout, Set, SetIcon, Reload, Quit, Executes, Parsing
  <2>2. (~running => ~running') /\ UNCHANGED <<left, link>>
    BY <1>3 DEF Drops, Ask, AskAbout, Set, SetIcon, Reload, Quit, botVars, netVars
  <2> QED
    BY <2>1, <2>2, NextSaid DEF Connected
<1>4. CASE Disconnect
  <2>1. Turn /\ NextLine /\ left' /\ UNCHANGED running
    BY <1>4 DEF Disconnect, Executes, Parsing
  <2> QED
    BY <2>1, NextSaid
<1>5. CASE Load
  <2> DEFINE lines == [i \in DOMAIN Bookmarks[Arg] |-> Parse(FALSE, Bookmarks[Arg][i])]
  <2>1. /\ Turn /\ UNCHANGED <<running, left, link>> /\ todo' = lines \o Tail(todo)
        /\ Arg \in DOMAIN Bookmarks
    BY <1>5 DEF Load, Executes, Parsing, botVars, netVars
  <2>2. todo \in Seq(Task) /\ todo # <<>>
    BY <2>1 DEF Typed, TypeOK, Turn
  <2>3. lines \in Seq(Task) /\ \A i \in DOMAIN lines : ~Given(lines[i])
    <3>1. /\ Bookmarks[Arg] \in Seq(Text)
          /\ \A i \in DOMAIN Bookmarks[Arg] : Bookmarks[Arg][i] \in Text
      BY <2>1, TextsAssumption
    <3>2. \A text \in Text : Parse(FALSE, text) \in Task
      BY DEF Parse, Task, Line
    <3>3. \A text : ~Given(Parse(FALSE, text))
      BY DEF Given, Parse, Plain
    <3>4. \A i \in DOMAIN lines : lines[i] \in Task /\ ~Given(lines[i])
      BY <3>1, <3>2, <3>3
    <3>5. DOMAIN lines = 1..Len(Bookmarks[Arg]) /\ Len(Bookmarks[Arg]) \in Nat
      BY <3>1
    <3>6. lines \in [1..Len(Bookmarks[Arg]) -> Task]
      BY <3>4, <3>5
    <3> HIDE DEF lines
    <3> QED
      BY <3>4, <3>5, <3>6
  <2> HIDE DEF lines
  <2>4. /\ Tail(todo) \in Seq(Task)
        /\ \A i \in DOMAIN Tail(todo) : i + 1 \in DOMAIN todo /\ Tail(todo)[i] = todo[i + 1]
                                        /\ i + 1 # 1
    BY <2>2
  <2>5. \A i \in DOMAIN Tail(todo) : ~Given(Tail(todo)[i])
    BY <2>4 DEF Said, Prefixed
  <2>6. \A i \in DOMAIN todo' : \/ i \in DOMAIN lines /\ todo'[i] = lines[i]
                                \/ \E j \in DOMAIN Tail(todo) : todo'[i] = Tail(todo)[j]
    BY <2>1, <2>3, <2>4, Joining DEF IsSeq
  <2>7. Prefixed'
    BY <2>3, <2>5, <2>6 DEF Prefixed
  <2> QED
    BY <2>1, <2>2, <2>7 DEF Said, Parted, Connected
<1>6. CASE Take("main") \/ Put("main") \/ Count("main")
  BY <1>6, SameSaid DEF Take, Put, Count, botVars, netVars, Connected
<1> QED
  BY <1>1, <1>2, <1>3, <1>4, <1>5, <1>6 DEF Handle

LEMMA SessionSaid ==
  ASSUME Said, Session
  PROVE  Said'
<1>1. UNCHANGED <<todo, running, left>>
  BY DEF Session, HandleReply, HandleInfo, Exit, LoseSession, Redial, LoginStatus, LoginIcon,
     LoginSend, LoginDone, Opened, LoginRefused, LoginLost, botVars
<1>2. CASE LoseSession
  BY <1>1, <1>2 DEF LoseSession, Idle, Said, Parted, Prefixed, GivenWell
<1>3. CASE HandleReply \/ HandleInfo \/ Exit \/ LoginRefused
  BY <1>1, <1>3, SameSaid DEF HandleReply, HandleInfo, Exit, LoginRefused, netVars, Connected
<1>4. CASE Redial \/ LoginStatus \/ LoginIcon \/ LoginSend \/ LoginDone \/ Opened \/ LoginLost
  BY <1>1, <1>4, SameSaid DEF Redial, LoginStatus, LoginIcon, LoginSend, LoginDone, Opened,
     LoginLost, Answered, Connected, Logins
<1> QED
  BY <1>2, <1>3, <1>4 DEF Session

(* What a user leads to is parsed from the start. *)
LEMMA HeardSaid ==
  ASSUME NEW tasks, Hears(tasks),
         \/ \E a \in Answers, nick \in Present :
              tasks = [i \in DOMAIN a.texts |-> LineFor(a.kind, a.texts[i], nick)]
         \/ \E word \in {"nick", "status"}, n \in {0, 1}, value \in Values :
              tasks = <<Parse(FALSE, Slash(word, n, value))>>
         \/ tasks = <<[job |-> "reload"]>>
         \/ tasks = <<[job |-> "reload"], Parse(TRUE, Slash("me", 1, NoValue))>>
  PROVE  Said'
<1>1. \A chat, text : ~Given(Parse(chat, text))
  BY DEF Given, Parse
<1>2. ~Given([job |-> "reload"])
  BY DEF Given
<1>3. \A i \in DOMAIN tasks : ~Given(tasks[i])
  <2>1. ASSUME NEW a \in Answers, NEW nick \in Present,
               tasks = [i \in DOMAIN a.texts |-> LineFor(a.kind, a.texts[i], nick)]
        PROVE  \A i \in DOMAIN tasks : ~Given(tasks[i])
    <3>1. ASSUME NEW kind \in Kinds, NEW text PROVE ~Given(LineFor(kind, text, nick))
      BY <1>1 DEF LineFor, Kinds
    <3>2. a.kind \in Kinds
      BY TextsAssumption
    <3> QED
      BY <2>1, <3>1, <3>2
  <2>2. ASSUME NEW line, ~Given(line), tasks = <<line>>
        PROVE  \A i \in DOMAIN tasks : ~Given(tasks[i])
    BY <2>2
  <2>3. ASSUME NEW line, ~Given(line), NEW other, ~Given(other), tasks = <<line, other>>
        PROVE  \A i \in DOMAIN tasks : ~Given(tasks[i])
    BY <2>3
  <2> QED
    BY <1>1, <1>2, <2>1, <2>2, <2>3
<1>4. todo' = tasks /\ link' = "on"
  BY DEF Hears, Idle, netVars
<1> QED
  BY <1>3, <1>4 DEF Said, Parted, Prefixed, Connected

LEMMA OthersSaid ==
  ASSUME Said, Signal \/ Serve \/ World
  PROVE  Said'
<1>1. CASE HearTalk \/ HearNick \/ HearStatus \/ HearReload
  BY <1>1, Heard, HeardSaid
<1>2. CASE DiskChange \/ Drop \/ Serve
  BY <1>2, SameSaid DEF DiskChange, Drop, Serve, botVars, netVars, Connected
<1>3. CASE Hup
  BY <1>3, SameSaid DEF Hup, netVars, Connected
<1>4. CASE Terminate
  BY <1>4, SameSaid DEF Terminate
<1>5. CASE Take("signal") \/ Put("signal") \/ Count("signal")
  BY <1>5, SameSaid DEF Take, Put, Count, botVars, netVars, Connected
<1> QED
  BY <1>1, <1>2, <1>3, <1>4, <1>5 DEF Signal, World

LEMMA SaidKept == Typed /\ Said /\ [Next]_vars => Said'
<1>1. UNCHANGED vars => UNCHANGED <<todo, running, left, link>>
  BY DEF vars, botVars, netVars
<1>2. Said /\ UNCHANGED <<todo, running, left, link>> => Said'
  BY SameSaid DEF Connected
<1> QED
  BY <1>1, <1>2, HandleSaid, SessionSaid, OthersSaid DEF Next, Bot

(* The step in which a text that is to be said ends the process.             *)
Echoed == process = "crashed" /\ culprit = "echo" /\ ~Current.text.slash /\ Current.chat

LEMMA WordsOfTalk == Lookup("say") = "say" /\ Lookup("echo") = "echo"
BY NamesFound, NamesOfCommands

LEMMA EchoedOffline ==
  ASSUME Typed, Said, Handle, ~Echoed, Echoed'
  PROVE  ~running' \/ left'
<1>1. CASE Show \/ PrintUsage
  <2>1. /\ UNCHANGED <<todo, running, left>> /\ culprit' = Name
        /\ Parsing /\ Name = Lookup(WordOf(Current))
    BY <1>1 DEF Show, PrintUsage, Crash, Executes, Name
  <2>2. ~Current.text.slash /\ Current.chat /\ Name = "echo"
    BY <2>1 DEF Echoed, Current
  <2>3. Given(Current)
    BY <2>1, <2>2 DEF Given, Plain, Parsing
  <2>4. 1 \in DOMAIN todo /\ Current = todo[1]
    BY <2>1 DEF Typed, TypeOK, Parsing, Turn, Current
  <2>5. GivenWell(Current)
    BY <2>3, <2>4 DEF Said, Prefixed
  <2> QED
    BY <2>1, <2>2, <2>5, WordsOfTalk DEF GivenWell, WordOf
<1>2. CASE AskAboutNobody \/ UsersForgotten
  <2>1. culprit' \in AskingAbout
    BY <1>2 DEF AskAboutNobody, UsersForgotten, Crash, Executes
  <2> QED
    BY <2>1 DEF Echoed, AskingAbout
<1>3. CASE SetIconFails \/ LoadFails
  BY <1>3 DEF SetIconFails, LoadFails, Crash, Echoed
<1>4. CASE GiveWord \/ Drops \/ Ask \/ AskAbout \/ Set \/ SetIcon \/ Reload \/ Load \/ Quit
           \/ Disconnect \/ Take("main") \/ Put("main") \/ Count("main")
  <2>1. Up
    BY <1>4 DEF GiveWord, Drops, Ask, AskAbout, Set, SetIcon, Reload, Load, Quit, Disconnect,
       Take, Put, Count, Executes, Parsing, Turn
  <2>2. UNCHANGED process \/ culprit' = "write"
    BY <1>4 DEF GiveWord, Drops, Ask, AskAbout, Set, SetIcon, Reload, Load, Quit, Disconnect,
       Take, Put, Count, Write, WriteStale, Crash, botVars
  <2> QED
    BY <2>1, <2>2 DEF Echoed, Up
<1> QED
  BY <1>1, <1>2, <1>3, <1>4 DEF Handle

LEMMA OthersDoNotEcho ==
  ASSUME Session \/ Signal \/ Serve \/ World
  PROVE  ~Echoed'
<1>1. Up
  BY DEF Session, HandleReply, HandleInfo, Exit, LoseSession, Redial, LoginStatus, LoginIcon,
     LoginSend, LoginDone, Opened, LoginRefused, LoginLost, Answered, Signal, Hup, Terminate,
     Take, Put, Count, Serve, World, HearTalk, HearNick, HearStatus, HearReload, Hears,
     DiskChange, Drop, Idle
<1>2. process' = process \/ process' = "exited" \/ culprit' \in {"write", "login", "user_info"}
  <2>1. CASE Session
    BY <2>1 DEF Session, HandleReply, HandleInfo, Exit, LoseSession, Redial, LoginStatus,
       LoginIcon, LoginSend, LoginDone, Opened, LoginRefused, LoginLost, Write, Crash, botVars
  <2>2. CASE Signal
    BY <2>2 DEF Signal, Hup, Terminate, Take, Put, Count, Write, WriteStale, Crash, botVars
  <2>3. CASE Serve \/ World
    BY <2>3 DEF Serve, World, HearTalk, HearNick, HearStatus, HearReload, Hears, DiskChange,
       Drop, botVars
  <2> QED
    BY <2>1, <2>2, <2>3
<1> QED
  BY <1>1, <1>2 DEF Echoed, Up

(* Handlers of a process that has ended do not run. *)
LEMMA CrashedStays ==
  ASSUME Echoed, [Next]_vars
  PROVE  UNCHANGED <<todo, running, left, process, culprit>>
<1>1. ~Next
  BY DEF Echoed, Next, Bot, Handle, GiveWord, Drops, PrintUsage, Ask, AskAbout, AskAboutNobody,
     UsersForgotten, Set, SetIcon, SetIconFails, Show, Load, LoadFails, Quit, Disconnect, Reload,
     Executes, Parsing, Turn, Up, Session, HandleReply, HandleInfo, Exit, LoseSession, Redial,
     LoginStatus, LoginIcon, LoginSend, LoginDone, Opened, LoginRefused, LoginLost, Answered,
     Signal, Hup, Terminate, Take, Put, Count, Serve, World, HearTalk, HearNick, HearStatus,
     HearReload, Hears, DiskChange, Drop, Idle
<1> QED
  BY <1>1 DEF vars, botVars

(* What the dictionary makes the bot say ends the process only if the        *)
(* session was closed under the answer: /say is echoed to a window that does *)
(* not exist when there is no session, and wr_commands_parse_command looks   *)
(* for one at every line.                                                   *)
THEOREM TalkEndsNothing == Spec => []TalkIsSafe
<1>1. Init => Said /\ TalkIsSafe
  <2>1. DOMAIN <<>> = {}
    OBVIOUS
  <2> QED
    BY <2>1 DEF Init, Said, Parted, Prefixed, TalkIsSafe
<1>2. Typed /\ Said /\ TalkIsSafe /\ [Next]_vars => TalkIsSafe'
  <2> SUFFICES ASSUME Typed, Said, TalkIsSafe, [Next]_vars, Echoed'
               PROVE  ~running' \/ left'
    BY DEF TalkIsSafe, Echoed
  <2>1. CASE Echoed
    BY <2>1, CrashedStays DEF TalkIsSafe, Echoed
  <2>2. CASE ~Echoed /\ Handle
    BY <2>2, EchoedOffline
  <2>3. CASE ~Echoed /\ UNCHANGED vars
    BY <2>3 DEF Echoed, Current, vars, botVars
  <2> QED
    BY <2>1, <2>2, <2>3, OthersDoNotEcho DEF Next, Bot
<1> QED
  BY <1>1, <1>2, InitTyped, TypedKept, SaidKept, PTL DEF Spec

-----------------------------------------------------------------------------
(* The bot's identity. *)

(* A part p of the identity on its way to the server: the last request about *)
(* it names what the bot takes for its own, and if none is under way the    *)
(* server shows that, or refused it.                                        *)
Agrees(s, p, mine, seen) ==
  /\ \A i \in DOMAIN s :
       s[i].name = p /\ (\A j \in DOMAIN s : j > i => s[j].name # p) => s[i].value = mine
  /\ (\A i \in DOMAIN s : s[i].name # p) => mine \in Refused \/ seen = mine

LEMMA AskingOther ==
  ASSUME NEW s, IsSeq(s), NEW p, NEW mine, NEW seen, Agrees(s, p, mine, seen),
         NEW r, r.name # p
  PROVE  Agrees(Append(s, r), p, mine, seen)
<1> DEFINE t == Append(s, r)
<1>1. /\ \A i \in DOMAIN s : i \in Nat /\ i \in DOMAIN t /\ t[i] = s[i]
      /\ \A i \in DOMAIN t : (i \in DOMAIN s /\ t[i] = s[i]) \/ t[i] = r
  BY Appending
<1> HIDE DEF t
<1>2. ASSUME NEW i \in DOMAIN t, t[i].name = p, \A j \in DOMAIN t : j > i => t[j].name # p
      PROVE  t[i].value = mine
  <2>1. i \in DOMAIN s /\ t[i] = s[i] /\ \A j \in DOMAIN s : j > i => s[j].name # p
    BY <1>1, <1>2
  <2> QED
    BY <1>2, <2>1 DEF Agrees
<1>3. (\A i \in DOMAIN t : t[i].name # p) => mine \in Refused \/ seen = mine
  BY <1>1 DEF Agrees
<1> QED
  BY <1>2, <1>3 DEF Agrees, t

LEMMA AskingThis ==
  ASSUME NEW s, IsSeq(s), NEW r, NEW seen
  PROVE  Agrees(Append(s, r), r.name, r.value, seen)
<1> DEFINE t == Append(s, r)
           n == Len(s) + 1
<1>1. /\ \A i \in DOMAIN t : (i \in DOMAIN s /\ t[i] = s[i]) \/ (i = n /\ t[i] = r)
      /\ n \in DOMAIN t /\ t[n] = r
      /\ \A i \in DOMAIN s : i \in 1..Len(s) /\ Len(s) \in Nat
  <2>1. \A i \in DOMAIN s : i \in 1..Len(s) /\ Len(s) \in Nat
    BY DEF IsSeq
  <2> QED
    BY <2>1, Appending
<1> HIDE DEF t
<1>2. \A i \in DOMAIN s : n > i
  BY <1>1
<1> HIDE DEF n
<1> QED
  BY <1>1, <1>2 DEF Agrees, t

LEMMA Answering ==
  ASSUME NEW s, IsSeq(s), s # <<>>, NEW p, NEW mine, NEW seen, Agrees(s, p, mine, seen),
         NEW shows, Head(s).name # p => shows = seen,
         Head(s).name = p => Head(s).value \in Refused \/ shows = Head(s).value
  PROVE  Agrees(Tail(s), p, mine, shows)
<1> DEFINE t == Tail(s)
<1>1. /\ 1 \in DOMAIN s /\ Head(s) = s[1] /\ DOMAIN s \subseteq Nat \ {0}
      /\ \A i \in Nat : i \in DOMAIN t <=> i # 0 /\ i + 1 \in DOMAIN s
      /\ \A i \in DOMAIN t : i \in Nat /\ t[i] = s[i + 1]
  BY Taking
<1> HIDE DEF t
<1>2. \A j \in DOMAIN s : j = 1 \/ (j - 1 \in DOMAIN t /\ t[j - 1] = s[j])
  <2>1. \A j \in Nat \ {0} : j # 1 => j - 1 \in Nat /\ j - 1 # 0 /\ (j - 1) + 1 = j
    OBVIOUS
  <2> QED
    BY <1>1, <2>1
<1>3. ASSUME NEW i \in DOMAIN t, t[i].name = p, \A j \in DOMAIN t : j > i => t[j].name # p
      PROVE  t[i].value = mine
  <2>1. i \in Nat /\ i + 1 \in DOMAIN s /\ t[i] = s[i + 1]
    BY <1>1
  <2>2. ASSUME NEW j \in DOMAIN s, j > i + 1 PROVE s[j].name # p
    <3>1. j \in Nat /\ j # 1 /\ j - 1 > i
      BY <1>1, <2>1, <2>2
    <3> QED
      BY <1>2, <1>3, <3>1
  <2> QED
    BY <1>3, <2>1, <2>2 DEF Agrees
<1>4. ASSUME \A i \in DOMAIN t : t[i].name # p
      PROVE  mine \in Refused \/ shows = mine
  <2>1. \A j \in DOMAIN s : j = 1 \/ s[j].name # p
    BY <1>2, <1>4
  <2>2. CASE Head(s).name = p
    <3>1. s[1].value = mine
      BY <1>1, <2>1, <2>2 DEF Agrees
    <3> QED
      BY <1>1, <2>2, <3>1
  <2>3. CASE Head(s).name # p
    BY <1>1, <2>1, <2>3 DEF Agrees
  <2> QED
    BY <2>2, <2>3
<1> QED
  BY <1>3, <1>4 DEF Agrees, t

(* The main thread has a part of the identity to send. *)
Waits(p) == sending["main"].name = p /\ sending["main"].stage \in {"made", "numbered"}
IconWaits == \E t \in Threads : Unsent(t)

(* The parts the server was told or is being told, by the step of the login. *)
Told ==
  /\ link \notin {"lost", "off"} =>
       Waits("nick") \/ Agrees(toServer, "nick", own["nick"], shown["nick"])
  /\ link \notin {"lost", "off", "nick"} =>
       Waits("status") \/ Agrees(toServer, "status", own["status"], shown["status"])
  /\ link \notin {"lost", "off", "nick", "status"} =>
       untold \/ IconWaits \/ Agrees(toServer, "icon", own["icon"], shown["icon"])

(* What a thread has to send is what the bot takes for its own.              *)
Fits ==
  /\ sending["signal"].name \in {"none", "icon"}
  /\ \A p \in {"nick", "status"} : Waits(p) => sending["main"].value = own[p]
  /\ ~untold => \A t \in Threads : Unsent(t) => sending[t].value = own["icon"]

(* During a login no answer is under way that could change the identity.     *)
Alone == link \in Logins \cup {"lost", "opening"} => todo = <<>> /\ sending["main"].stage = "none"

IdentityInv == Alone /\ Fits /\ (alive => Told)

LEMMA SameIdentity ==
  ASSUME IdentityInv, UNCHANGED <<own, shown, untold, toServer, link, alive, sending>>,
         link \in Logins \cup {"lost", "opening"} => todo' = todo
  PROVE  IdentityInv'
BY DEF IdentityInv, Alone, Fits, Told, Waits, IconWaits, Unsent

LEMMA TypedParts ==
  ASSUME Typed
  PROVE  /\ IsSeq(toServer) /\ DOMAIN own = Parts /\ DOMAIN shown = Parts
         /\ own["icon"] \in Icons /\ disk \in Icons \cup {NoIcon}
         /\ DOMAIN sending = Threads
<1>1. IsSeq(toServer)
  BY DEF Typed, TypeOK, IsSeq
<1> QED
  BY <1>1 DEF Typed, TypeOK, Identity, Parts

LEMMA Writing ==
  ASSUME NEW r, Write(r), alive
  PROVE  toServer' = Append(toServer, r)
BY DEF Write

(* A part of the identity is told to the server. *)
LEMMA PartAsked ==
  ASSUME Typed, NEW r, toServer' = Append(toServer, r), UNCHANGED shown
  PROVE  /\ \A p \in Parts : r.name # p /\ own'[p] = own[p]
              /\ Agrees(toServer, p, own[p], shown[p])
              => Agrees(toServer', p, own'[p], shown'[p])
         /\ \A p \in Parts : r.name = p /\ own'[p] = r.value
              => Agrees(toServer', p, own'[p], shown'[p])
BY TypedParts, AskingOther, AskingThis

(* A thread's message, once its part of the identity was made, goes its way. *)
LEMMA PutKeepsIdentity ==
  ASSUME Typed, IdentityInv, NEW t \in Threads, Put(t)
  PROVE  IdentityInv'
<1> DEFINE s == sending[t]
           r == [value |-> s.value, name |-> s.name, number |-> s.number]
<1>1. /\ UNCHANGED <<own, todo, link, alive, shown>> /\ s.stage = "numbered"
      /\ sending' = [sending EXCEPT ![t].stage = "written"]
  BY DEF Put
<1>2. /\ \A u \in Threads \ {t} : sending'[u] = sending[u]
      /\ sending'[t].stage = "written" /\ sending'[t].name = s.name
      /\ sending'[t].value = s.value
  BY <1>1 DEF Typed, TypeOK, Sending
<1>3. s \in Sending /\ s.name \in Names /\ r.name = s.name /\ r.value = s.value
  BY <1>1 DEF Typed, TypeOK, Pending
<1>4. \/ link = "on" /\ Write(r) /\ UNCHANGED untold
      \/ link # "on" /\ UNCHANGED toServer /\ untold' = (untold \/ s.name = "icon")
  BY DEF Put, WriteStale
<1> HIDE DEF r, s
<1>5. t = "main" \/ t = "signal"
  BY DEF Threads
<1>6. /\ t = "main" => (s = sending["main"] /\ \A p : ~Waits(p)')
      /\ t = "signal" => (s = sending["signal"] /\ \A p : Waits(p)' = Waits(p))
      /\ \A u \in Threads : Unsent(u)' => Unsent(u) /\ u # t /\ sending'[u] = sending[u]
      /\ \A u \in Threads : Unsent(u) => Unsent(u)' \/ (u = t /\ s.name = "icon")
  BY <1>2, <1>5 DEF Waits, Unsent, Threads, s
<1>7. Alone'
  BY <1>1, <1>2, <1>5 DEF IdentityInv, Alone, Threads, s
<1>8. untold => untold'
  BY <1>4
<1>9. Fits'
  <2>1. sending'["signal"].name \in {"none", "icon"}
    BY <1>2, <1>5, <1>6 DEF IdentityInv, Fits, Threads
  <2>2. \A p \in {"nick", "status"} : Waits(p)' => sending'["main"].value = own'[p]
    BY <1>1, <1>2, <1>5, <1>6 DEF IdentityInv, Fits, Threads
  <2>3. ~untold' => \A u \in Threads : Unsent(u)' => sending'[u].value = own'["icon"]
    BY <1>1, <1>6, <1>8 DEF IdentityInv, Fits
  <2> QED
    BY <2>1, <2>2, <2>3 DEF Fits
<1>10. ASSUME alive'
       PROVE  Told'
  <2>1. alive /\ Told
    BY <1>1, <1>10 DEF IdentityInv
  <2>2. CASE link = "on" /\ Write(r) /\ UNCHANGED untold
    <3>1. toServer' = Append(toServer, r)
      BY <2>1, <2>2, Writing
    <3>2. ASSUME NEW p \in {"nick", "status"}
          PROVE  Waits(p)' \/ Agrees(toServer', p, own'[p], shown'[p])
      <4>1. Waits(p) \/ Agrees(toServer, p, own[p], shown[p])
        BY <2>1, <2>2 DEF Told
      <4>2. CASE r.name = p
        <5>1. t = "main" /\ r.value = own[p]
          BY <1>1, <1>3, <1>5, <1>6, <4>2 DEF IdentityInv, Fits, Waits
        <5> QED
          BY <1>1, <3>1, <4>2, <5>1, PartAsked DEF Parts
      <4>3. CASE r.name # p
        <5>1. Waits(p)' \/ Agrees(toServer, p, own[p], shown[p])
          BY <1>3, <1>5, <1>6, <4>1, <4>3 DEF Waits
        <5> QED
          BY <1>1, <3>1, <4>3, <5>1, PartAsked DEF Parts
      <4> QED
        BY <4>2, <4>3
    <3>3. untold' \/ IconWaits' \/ Agrees(toServer', "icon", own'["icon"], shown'["icon"])
      <4>1. untold \/ IconWaits \/ Agrees(toServer, "icon", own["icon"], shown["icon"])
        BY <2>1, <2>2 DEF Told
      <4>2. CASE r.name = "icon"
        <5>1. untold \/ r.value = own["icon"]
          BY <1>1, <1>3, <4>2 DEF IdentityInv, Fits, Unsent, s
        <5> QED
          BY <1>1, <1>8, <3>1, <4>2, <5>1, PartAsked DEF Parts
      <4>3. CASE r.name # "icon"
        <5>1. IconWaits => IconWaits'
          BY <1>3, <1>6, <4>3 DEF IconWaits
        <5> QED
          BY <1>1, <1>8, <3>1, <4>1, <4>3, <5>1, PartAsked DEF Parts
      <4> QED
        BY <4>2, <4>3
    <3> QED
      BY <3>2, <3>3 DEF Told
  <2>3. CASE link # "on" /\ UNCHANGED toServer /\ untold' = (untold \/ s.name = "icon")
    <3>1. t = "main" => link \in {"lost", "off"}
      BY <1>1, <1>6, <2>3 DEF IdentityInv, Alone, Typed, TypeOK
    <3>2. IconWaits => IconWaits' \/ untold'
      BY <1>6, <2>3 DEF IconWaits
    <3> QED
      BY <1>1, <1>5, <1>6, <2>1, <2>3, <3>1, <3>2 DEF Told
  <2> QED
    BY <1>4, <2>2, <2>3
<1> QED
  BY <1>7, <1>9, <1>10 DEF IdentityInv

LEMMA SendKeepsIdentity ==
  ASSUME Typed, IdentityInv, NEW t \in Threads, Take(t) \/ Put(t) \/ Count(t)
  PROVE  IdentityInv'
<1>1. CASE Take(t) \/ Count(t)
  <2>1. UNCHANGED <<own, shown, untold, toServer, link, alive, todo>>
    BY <1>1 DEF Take, Count, botVars, netVars
  <2>2. /\ \A u \in Threads \ {t} : sending'[u] = sending[u]
        /\ \/ /\ sending[t].stage = "made" /\ sending'[t].stage = "numbered"
              /\ sending'[t].name = sending[t].name /\ sending'[t].value = sending[t].value
           \/ /\ sending[t].stage = "written" /\ sending'[t].stage = "none"
              /\ sending'[t].name = "none"
    BY <1>1 DEF Take, Count, Typed, TypeOK, Sending, Nothing
  <2>3. /\ \A p : Waits(p)' = Waits(p)
        /\ \A u \in Threads : /\ Unsent(u)' = Unsent(u)
                              /\ Unsent(u) => sending'[u].value = sending[u].value
        /\ \A p : Waits(p) => sending'["main"].value = sending["main"].value
        /\ sending["main"].stage = "none" => sending'["main"].stage = "none"
        /\ sending["signal"].name \in {"none", "icon"} =>
             sending'["signal"].name \in {"none", "icon"}
    BY <2>2 DEF Waits, Unsent, Threads
  <2> QED
    BY <2>1, <2>3 DEF IdentityInv, Alone, Fits, Told, IconWaits
<1> QED
  BY <1>1, PutKeepsIdentity

(* The icon is taken from the file, or the default one is. *)
LEMMA IconTaken ==
  ASSUME Typed, IdentityInv, NEW t \in Threads, sending[t].stage = "none", ReloadIcon(t),
         link \in Logins \cup {"lost", "opening"} => t = "signal" /\ todo' = todo,
         UNCHANGED <<shown, toServer, link, alive>>
  PROVE  IdentityInv'
<1>1. own'["nick"] = own["nick"] /\ own'["status"] = own["status"]
  <2>1. PICK icon : own' = [own EXCEPT !["icon"] = icon]
    BY DEF ReloadIcon, TakeIcon
  <2> QED
    BY <2>1, TypedParts DEF Parts
<1>2. /\ \A u \in Threads \ {t} : sending'[u] = sending[u]
      /\ sending'[t] = sending[t] \/ sending'[t].name = "icon"
  BY DEF ReloadIcon, TakeIcon, SendNothing, Make, Typed, TypeOK
<1>3. t = "main" \/ t = "signal"
  BY DEF Threads
<1>4. \A p \in {"nick", "status"} :
        /\ Waits(p)' = Waits(p)
        /\ Waits(p) => sending'["main"] = sending["main"]
  BY <1>2, <1>3 DEF Waits, Threads
<1>5. Alone' /\ sending'["signal"].name \in {"none", "icon"}
  BY <1>2, <1>3 DEF IdentityInv, Alone, Fits, Threads
<1>6. \A p \in {"nick", "status"} : Waits(p)' => sending'["main"].value = own'[p]
  BY <1>1, <1>4 DEF IdentityInv, Fits
<1>7. ~untold' => /\ \A u \in Threads : Unsent(u)' => sending'[u].value = own'["icon"]
                  /\ IconWaits'
  <2> SUFFICES ASSUME ~untold'
               PROVE  /\ \A u \in Threads : Unsent(u)' => sending'[u].value = own'["icon"]
                      /\ IconWaits'
    OBVIOUS
  <2>1. /\ Make(t, "icon", disk) /\ own' = [own EXCEPT !["icon"] = disk]
        /\ \A u \in Threads \ {t} : ~Unsent(u)
    BY DEF ReloadIcon, TakeIcon
  <2>2. /\ sending'[t].name = "icon" /\ sending'[t].value = disk
        /\ sending'[t].stage = "made" /\ own'["icon"] = disk
    BY <2>1, TypedParts DEF Make, Parts
  <2>3. Unsent(t)' /\ \A u \in Threads \ {t} : ~Unsent(u)'
    BY <1>2, <2>1, <2>2 DEF Unsent
  <2> QED
    BY <2>2, <2>3 DEF IconWaits
<1>8. Fits'
  BY <1>5, <1>6, <1>7 DEF Fits
<1>9. alive' => Told'
  BY <1>1, <1>4, <1>7 DEF IdentityInv, Told
<1> QED
  BY <1>5, <1>8, <1>9 DEF IdentityInv

LEMMA HandleKeepsIdentity ==
  ASSUME Typed, IdentityInv, Handle
  PROVE  IdentityInv'
<1>1. CASE GiveWord \/ Drops \/ PrintUsage \/ AskAboutNobody \/ UsersForgotten \/ SetIconFails
           \/ Show \/ Load \/ LoadFails \/ Quit
  <2>1. UNCHANGED <<own, shown, untold, toServer, link, alive, sending>>
    BY <1>1 DEF GiveWord, Drops, PrintUsage, AskAboutNobody, UsersForgotten, SetIconFails, Show,
       Load, LoadFails, Quit, botVars, numbers, netVars
  <2>2. todo # <<>> \/ todo' = todo
    BY <1>1 DEF GiveWord, Drops, PrintUsage, AskAboutNobody, UsersForgotten, SetIconFails, Show,
       Load, LoadFails, Quit, Executes, Parsing, Turn
  <2> QED
    BY <2>1, <2>2, SameIdentity DEF IdentityInv, Alone
<1>2. CASE Ask \/ AskAbout
  <2>1. /\ UNCHANGED <<own, shown, untold, toServer, link, alive>> /\ todo # <<>>
        /\ sending["main"].stage = "none"
    BY <1>2 DEF Ask, AskAbout, Executes, Parsing, Turn, botVars, netVars
  <2>2. PICK name, value : Make("main", name, value) /\ name \notin Parts
    <3>1. Asking \cap Parts = {} /\ AskingAbout \cap Parts = {} /\ "info" \notin Parts
      BY DEF Asking, AskingAbout, Parts
    <3>2. CASE Ask
      BY <3>1, <3>2 DEF Ask, Executes
    <3>3. CASE AskAbout
      BY <3>1, <3>3 DEF AskAbout, Executes
    <3> QED
      BY <1>2, <3>2, <3>3
  <2>3. sending'["main"].name \notin Parts /\ sending'["signal"] = sending["signal"]
    BY <2>2, TypedParts DEF Make, Threads
  <2>4. /\ \A p \in Parts : ~Waits(p) /\ ~Waits(p)'
        /\ ~Unsent("main") /\ ~Unsent("main")' /\ Unsent("signal")' = Unsent("signal")
    BY <2>1, <2>3 DEF Waits, Unsent, Parts
  <2> QED
    BY <2>1, <2>3, <2>4 DEF IdentityInv, Alone, Fits, Told, IconWaits, Threads, Parts
<1>3. CASE Set
  <2> DEFINE value == IF ArgsOf(Current) = 0 THEN NoValue ELSE Arg
  <2>1. /\ Name \in {"nick", "status"} /\ UNCHANGED <<shown, untold, toServer, link, alive>>
        /\ todo # <<>> /\ sending["main"].stage = "none"
        /\ \/ UNCHANGED <<sending, own>>
           \/ ~Connected /\ own' = [own EXCEPT ![Name] = value] /\ UNCHANGED sending
           \/ own' = [own EXCEPT ![Name] = value] /\ Make("main", Name, value)
    BY <1>3 DEF Set, SendNothing, Executes, Setting, Parsing, Turn, netVars
  <2> HIDE DEF value
  <2>2. CASE UNCHANGED <<sending, own>>
    BY <2>1, <2>2, SameIdentity DEF IdentityInv, Alone
  <2>3. CASE own' = [own EXCEPT ![Name] = value]
    <3>1. own'[Name] = value /\ \A p \in Parts \ {Name} : own'[p] = own[p]
      BY <2>1, <2>3, TypedParts DEF Parts
    <3>2. CASE ~Connected /\ UNCHANGED sending
      <4>1. link = "off"
        BY <2>1, <3>2 DEF Connected, IdentityInv, Alone, Typed, TypeOK
      <4>2. own'["icon"] = own["icon"]
        BY <2>1, <3>1 DEF Parts
      <4> QED
        BY <2>1, <3>2, <4>1, <4>2
        DEF IdentityInv, Alone, Fits, Told, Waits, IconWaits, Unsent, Logins
    <3>3. CASE Make("main", Name, value)
      <4>1. /\ sending'["main"].name = Name /\ sending'["main"].value = value
            /\ sending'["main"].stage = "made" /\ sending'["signal"] = sending["signal"]
        BY <3>3, TypedParts DEF Make, Threads
      <4>2. /\ \A p \in Parts : ~Waits(p) /\ (Waits(p)' <=> p = Name)
            /\ ~Unsent("main") /\ ~Unsent("main")' /\ Unsent("signal")' = Unsent("signal")
        BY <2>1, <4>1 DEF Waits, Unsent, Parts
      <4>3. Fits'
        BY <2>1, <3>1, <4>1, <4>2 DEF IdentityInv, Fits, Threads, Parts
      <4>4. alive' => Told'
        BY <2>1, <3>1, <4>2 DEF IdentityInv, Told, IconWaits, Threads, Parts
      <4> QED
        BY <2>1, <4>3, <4>4 DEF IdentityInv, Alone
    <3> QED
      BY <2>1, <2>3, <3>2, <3>3, SameIdentity DEF IdentityInv, Alone
  <2> QED
    BY <2>1, <2>2, <2>3
<1>4. CASE SetIcon \/ Reload
  <2>1. /\ ReloadIcon("main") /\ UNCHANGED <<shown, toServer, link, alive>>
        /\ todo # <<>> /\ sending["main"].stage = "none"
    BY <1>4 DEF SetIcon, Reload, ReloadIcon, Executes, Parsing, Turn, netVars
  <2> QED
    BY <2>1, IconTaken DEF IdentityInv, Alone, Threads
<1>5. CASE Disconnect
  BY <1>5 DEF Disconnect, Close, IdentityInv, Alone, Fits, Waits, Unsent, Logins, numbers
<1>6. CASE Take("main") \/ Put("main") \/ Count("main")
  BY <1>6, SendKeepsIdentity DEF Threads
<1> QED
  BY <1>1, <1>2, <1>3, <1>4, <1>5, <1>6 DEF Handle

(* A request that is about no part. *)
LEMMA OtherRequest ==
  ASSUME Typed, IdentityInv, NEW r, r.name \notin Parts, Write(r),
         UNCHANGED <<own, shown, untold, alive, sending, todo>>,
         (link = "icon" /\ link' = "login") \/ (link = "login" /\ link' = "opening")
  PROVE  IdentityInv'
<1>1. ASSUME alive' PROVE Told'
  <2>1. toServer' = Append(toServer, r) /\ Told
    BY <1>1, Writing DEF IdentityInv
  <2>2. \A p \in Parts : Agrees(toServer, p, own[p], shown[p])
                         => Agrees(toServer', p, own'[p], shown'[p])
    BY <2>1, PartAsked
  <2> QED
    BY <2>1, <2>2 DEF Told, Parts, Waits, IconWaits, Unsent
<1> QED
  BY <1>1 DEF IdentityInv, Alone, Fits, Waits, Unsent, Logins

(* Each step of wr_client_login tells the part that comes next. *)
LEMMA LoginTells ==
  ASSUME Typed, IdentityInv, Redial \/ LoginStatus \/ LoginIcon
  PROVE  IdentityInv'
<1>1. CASE Redial
  <2> DEFINE r == Bare("nick", own["nick"])
  <2>1. UNCHANGED <<own, untold, todo, sending>> /\ link = "lost"
    BY <1>1 DEF Redial, botVars, numbers
  <2>2. Alone' /\ Fits'
    BY <1>1, <2>1 DEF Redial, IdentityInv, Alone, Fits, Waits, Unsent, Logins
  <2>3. CASE link' = "off"
    BY <2>2, <2>3 DEF IdentityInv, Told
  <2>4. CASE link' = "nick" /\ toServer' = <<r>>
    <3>1. toServer' = Append(<<>>, r) /\ r.name = "nick" /\ r.value = own["nick"]
      BY <2>4 DEF Bare
    <3> HIDE DEF r
    <3>2. Agrees(Append(<<>>, r), r.name, r.value, shown'["nick"])
      BY EmptyIsSeq, AskingThis
    <3>3. Agrees(toServer', "nick", own'["nick"], shown'["nick"])
      BY <2>1, <3>1, <3>2
    <3> QED
      BY <2>2, <2>4, <3>3 DEF IdentityInv, Told
  <2> QED
    BY <1>1, <2>3, <2>4 DEF Redial
<1>2. CASE LoginStatus
  <2> DEFINE r == Bare("status", own["status"])
  <2>1. /\ link = "nick" /\ link' = "status" /\ Write(r)
        /\ UNCHANGED <<own, shown, untold, todo, alive, sending>>
        /\ r.name = "status" /\ r.value = own["status"]
    BY <1>2 DEF LoginStatus, Answered, Bare, numbers
  <2> HIDE DEF r
  <2>2. Alone' /\ Fits' /\ sending["main"].stage = "none"
    BY <2>1 DEF IdentityInv, Alone, Fits, Waits, Unsent, Logins
  <2>3. ASSUME alive' PROVE Told'
    <3>1. toServer' = Append(toServer, r) /\ Told
      BY <2>1, <2>3, Writing DEF IdentityInv
    <3>2. Agrees(toServer', "status", own'["status"], shown'["status"])
      BY <2>1, <3>1, PartAsked DEF Parts
    <3>3. Agrees(toServer', "nick", own'["nick"], shown'["nick"])
      BY <2>1, <2>2, <3>1, PartAsked DEF Parts, Told, Waits
    <3> QED
      BY <2>1, <3>2, <3>3 DEF Told
  <2> QED
    BY <2>2, <2>3 DEF IdentityInv
<1>3. CASE LoginIcon
  <2> DEFINE r == Bare("icon", own["icon"])
  <2>1. /\ link = "status" /\ link' = "icon" /\ Write(r)
        /\ UNCHANGED <<own, shown, todo, alive, sending>>
        /\ untold' = (untold /\ Unsent("signal"))
        /\ r.name = "icon" /\ r.value = own["icon"]
    BY <1>3 DEF LoginIcon, Answered, Bare, numbers
  <2> HIDE DEF r
  <2>2. Alone' /\ sending["main"].stage = "none"
    BY <2>1 DEF IdentityInv, Alone, Logins
  <2>3. Fits'
    <3>1. ~Unsent("main") /\ \A u : Unsent(u)' = Unsent(u)
      BY <2>1, <2>2 DEF Unsent
    <3>2. ~untold' => ~untold \/ ~Unsent("signal")
      BY <2>1
    <3>3. ~untold' => \A u \in Threads : Unsent(u)' => sending'[u].value = own'["icon"]
      BY <2>1, <3>1, <3>2 DEF IdentityInv, Fits, Threads
    <3> QED
      BY <2>1, <3>3 DEF IdentityInv, Fits, Waits
  <2>4. ASSUME alive' PROVE Told'
    <3>1. toServer' = Append(toServer, r) /\ Told
      BY <2>1, <2>4, Writing DEF IdentityInv
    <3>2. Agrees(toServer', "icon", own'["icon"], shown'["icon"])
      BY <2>1, <3>1, PartAsked DEF Parts
    <3>3. /\ Agrees(toServer', "nick", own'["nick"], shown'["nick"])
          /\ Agrees(toServer', "status", own'["status"], shown'["status"])
      BY <2>1, <2>2, <3>1, PartAsked DEF Parts, Told, Waits
    <3> QED
      BY <2>1, <3>2, <3>3 DEF Told
  <2> QED
    BY <2>2, <2>3, <2>4 DEF IdentityInv
<1> QED
  BY <1>1, <1>2, <1>3

LEMMA SessionKeepsIdentity ==
  ASSUME Typed, IdentityInv, Session
  PROVE  IdentityInv'
<1>1. CASE HandleReply \/ HandleInfo \/ Exit \/ LoginRefused
  <2>1. UNCHANGED <<own, shown, untold, toServer, link, alive, sending, todo>>
    BY <1>1 DEF HandleReply, HandleInfo, Exit, LoginRefused, botVars, numbers, netVars
  <2> QED
    BY <2>1, SameIdentity
<1>2. CASE LoseSession \/ LoginLost
  <2>1. ~alive' /\ UNCHANGED <<own, untold, sending, todo>>
    BY <1>2 DEF LoseSession, LoginLost, Idle, botVars, numbers
  <2>2. (todo = <<>> /\ sending["main"].stage = "none") \/ link' = "off"
    BY <1>2 DEF LoseSession, LoginLost, Idle
  <2> QED
    BY <2>1, <2>2 DEF IdentityInv, Alone, Fits, Waits, Unsent, Logins
<1>3. CASE LoginSend \/ LoginDone
  <2>1. PICK r : r.name \notin Parts /\ Write(r)
    BY <1>3 DEF LoginSend, LoginDone, Bare, Parts
  <2>2. /\ UNCHANGED <<own, shown, untold, alive, sending, todo>>
        /\ (link = "icon" /\ link' = "login") \/ (link = "login" /\ link' = "opening")
    BY <1>3 DEF LoginSend, LoginDone, Answered, numbers
  <2> QED
    BY <2>1, <2>2, OtherRequest
<1>4. CASE Opened
  <2>1. /\ UNCHANGED <<own, shown, untold, toServer, alive, sending, todo>>
        /\ link = "opening" /\ link' = "on"
    BY <1>4 DEF Opened, botVars, numbers
  <2> QED
    BY <2>1 DEF IdentityInv, Alone, Fits, Told, Waits, IconWaits, Unsent, Logins
<1> QED
  BY <1>1, <1>2, <1>3, <1>4, LoginTells DEF Session

(* The server takes the requests in order and shows what it does not refuse. *)
LEMMA ServeKeepsIdentity ==
  ASSUME Typed, IdentityInv, Serve
  PROVE  IdentityInv'
<1> DEFINE r == Head(toServer)
<1>1. /\ alive /\ toServer # <<>> /\ toServer' = Tail(toServer)
      /\ UNCHANGED <<own, untold, todo, link, alive, sending>>
      /\ \/ r.name \in Parts /\ r.value \in Refused /\ UNCHANGED shown
         \/ r.name \in Parts /\ shown' = [shown EXCEPT ![r.name] = r.value]
         \/ r.name \notin Parts /\ UNCHANGED shown
  <2>1. PICK verdict \in Verdicts(r) :
          shown' = IF r.name \in Parts /\ verdict = "okay"
                     THEN [shown EXCEPT ![r.name] = r.value] ELSE shown
    BY DEF Serve
  <2>2. r.name \in Parts => Verdicts(r) = IF r.value \in Refused THEN {"error"} ELSE {"okay"}
    BY DEF Verdicts, Parts
  <2>3. /\ alive /\ toServer # <<>> /\ toServer' = Tail(toServer)
        /\ UNCHANGED <<own, untold, todo, link, alive, sending>>
    BY DEF Serve, botVars, numbers
  <2> HIDE DEF r
  <2>4. CASE r.name \notin Parts
    BY <2>1, <2>3, <2>4
  <2>5. CASE r.name \in Parts /\ r.value \in Refused
    <3>1. verdict = "error"
      BY <2>1, <2>2, <2>5
    <3> QED
      BY <2>1, <2>3, <2>5, <3>1
  <2>6. CASE r.name \in Parts /\ r.value \notin Refused
    <3>1. verdict = "okay"
      BY <2>1, <2>2, <2>6
    <3> QED
      BY <2>1, <2>3, <2>6, <3>1
  <2> QED
    BY <2>4, <2>5, <2>6
<1> HIDE DEF r
<1>2. ASSUME NEW p \in Parts, Agrees(toServer, p, own[p], shown[p])
      PROVE  Agrees(toServer', p, own'[p], shown'[p])
  <2>1. r.name # p => shown'[p] = shown[p]
    BY <1>1, TypedParts
  <2>2. r.name = p => r.value \in Refused \/ shown'[p] = r.value
    BY <1>1, TypedParts
  <2> QED
    BY <1>1, <1>2, <2>1, <2>2, Answering, TypedParts DEF r
<1>3. Told'
  BY <1>1, <1>2 DEF IdentityInv, Told, Waits, IconWaits, Unsent, Parts
<1> QED
  BY <1>1, <1>3 DEF IdentityInv, Alone, Fits, Waits, Unsent

LEMMA WorldKeepsIdentity ==
  ASSUME Typed, IdentityInv, Signal \/ World
  PROVE  IdentityInv'
<1>1. CASE Hup
  <2>1. /\ ReloadIcon("signal") /\ sending["signal"].stage = "none"
        /\ UNCHANGED <<todo, shown, toServer, link, alive>>
    BY <1>1 DEF Hup, netVars
  <2> QED
    BY <2>1, IconTaken DEF Threads
<1>2. CASE Terminate
  BY <1>2 DEF Terminate, Close, IdentityInv, Alone, Fits, Waits, Unsent, Logins, numbers
<1>3. CASE Take("signal") \/ Put("signal") \/ Count("signal")
  BY <1>3, SendKeepsIdentity DEF Threads
<1>4. ASSUME NEW tasks, Hears(tasks)
      PROVE  IdentityInv'
  <2>1. /\ UNCHANGED <<own, shown, untold, toServer, link, alive, sending>>
        /\ link = "on"
    BY <1>4 DEF Hears, Idle, botVars, numbers, netVars
  <2> QED
    BY <2>1, SameIdentity DEF Logins
<1>5. CASE DiskChange
  BY <1>5, SameIdentity DEF DiskChange, botVars, numbers, netVars
<1>6. CASE Drop
  BY <1>6 DEF Drop, IdentityInv, Alone, Fits, Waits, Unsent, botVars, numbers
<1> QED
  BY <1>1, <1>2, <1>3, <1>4, <1>5, <1>6, Heard DEF Signal, World

(* Once the server has seen every request it shows the nick, the status and  *)
(* the icon the bot takes for its own, over losses, logins, reloads of the  *)
(* icon in the middle of an answer or of a request, and changes that are    *)
(* under way when the session ends: wr_client_login tells the server all    *)
(* three again, and no command runs before it has.                          *)
THEOREM IdentityIsShown == Refused \cap Icons = {} /\ Spec => []IdentityAgrees
<1>1. Init => IdentityInv
  <2> SUFFICES ASSUME Init PROVE IdentityInv
    OBVIOUS
  <2> DEFINE r == [value |-> NoValue, name |-> "join_chat", number |-> NoNumber]
  <2>1. toServer = Append(<<>>, r) /\ r.name \notin Parts
    BY DEF Init, Parts
  <2> HIDE DEF r
  <2>2. \A p \in Parts : Agrees(<<>>, p, own[p], own[p])
    BY DEF Agrees
  <2>3. \A p \in Parts : Agrees(toServer, p, own[p], own[p])
    BY <2>1, <2>2, EmptyIsSeq, AskingOther
  <2>4. shown = own /\ sending = [t \in Threads |-> Nothing] /\ link = "on"
    BY DEF Init
  <2> QED
    BY <2>3, <2>4 DEF IdentityInv, Alone, Fits, Told, Waits, Unsent, Nothing, Threads, Parts,
       Logins
<1>2. SUFFICES ASSUME Refused \cap Icons = {} PROVE Spec => []IdentityAgrees
  OBVIOUS
<1>3. Typed /\ IdentityInv /\ [Next]_vars => IdentityInv'
  <2> SUFFICES ASSUME Typed, IdentityInv, [Next]_vars PROVE IdentityInv'
    OBVIOUS
  <2>1. CASE UNCHANGED vars
    BY <2>1, SameIdentity DEF vars, botVars, numbers, netVars
  <2> QED
    BY <2>1, HandleKeepsIdentity, SessionKeepsIdentity, ServeKeepsIdentity, WorldKeepsIdentity
    DEF Next, Bot
<1>4. Typed /\ IdentityInv => IdentityAgrees
  <2> SUFFICES ASSUME Typed, IdentityInv, Connected, alive, toServer = <<>>,
                      \A t \in Threads : sending[t].stage \notin {"made", "numbered"}
               PROVE  /\ \A p \in {"nick", "status"} : own[p] \in Refused \/ shown[p] = own[p]
                      /\ untold \/ shown["icon"] = own["icon"]
    BY DEF IdentityAgrees
  <2>1. Told /\ link \in {"opening", "on"} /\ own["icon"] \notin Refused
    BY <1>2, TypedParts DEF IdentityInv, Connected
  <2>2. \A p, mine, seen : Agrees(toServer, p, mine, seen) => mine \in Refused \/ seen = mine
    BY DEF Agrees
  <2>3. ~IconWaits /\ \A p : ~Waits(p)
    BY DEF IconWaits, Unsent, Waits, Threads
  <2> QED
    BY <2>1, <2>2, <2>3 DEF Told
<1> QED
  BY <1>1, <1>3, <1>4, InitTyped, TypedKept, PTL DEF Spec

-----------------------------------------------------------------------------
(* The numbers of the requests. *)

(* The number num comes k places after n, for a k up to m. *)
Behind(num, n, m) == \E k \in 1..m : num = n + k \/ num = n + k - Wrap

(* The requests s and the answers b under way, when num is the next number  *)
(* and nm the table of names: the table has the name each numbered one is   *)
(* to be logged under, and the number is not further behind than what was   *)
(* sent since.                                                              *)
Recorded(s, b, num, nm) ==
  /\ \A i \in DOMAIN s : s[i].number # NoNumber =>
       /\ s[i].name = nm[s[i].number]
       /\ Behind(num, s[i].number, Len(s) - i + 1)
  /\ \A i \in DOMAIN b :
       IF b[i].number = NoNumber
         THEN b[i].cause = "none"
         ELSE /\ b[i].cause = nm[b[i].number]
              /\ Behind(num, b[i].number, Len(b) - i + 1 + Len(s))

LEMMA MovingOn ==
  ASSUME NEW num \in 0..(Wrap - 1), NEW n \in 0..(Wrap - 1), NEW next \in 0..(Wrap - 1),
         next = num + 1 \/ next = num + 1 - Wrap,
         NEW m \in Nat, m < Wrap, Behind(num, n, m)
  PROVE  n # num /\ Behind(next, n, m + 1)
<1>0. Wrap \in Nat \ {0}
  BY NumbersAssumption
<1>1. PICK k \in 1..m : num = n + k \/ num = n + k - Wrap
  BY DEF Behind
<1>2. k \in Nat /\ k + 1 \in 1..(m + 1) /\ 0 < k /\ k < Wrap
  BY <1>0, <1>1
<1>3. n # num
  BY <1>0, <1>1, <1>2
<1>4. next = n + (k + 1) \/ next = n + (k + 1) - Wrap
  BY <1>0, <1>1, <1>2
<1> QED
  BY <1>2, <1>3, <1>4 DEF Behind

LEMMA JustSent ==
  ASSUME NEW num \in 0..(Wrap - 1), NEW next, next = num + 1 \/ next = num + 1 - Wrap
  PROVE  Behind(next, num, 1)
<1>1. 1 \in 1..1
  OBVIOUS
<1> QED
  BY <1>1 DEF Behind

LEMMA FurtherBehind ==
  ASSUME NEW num, NEW n, NEW m \in Nat, Behind(num, n, m)
  PROVE  Behind(num, n, m + 1)
<1>1. 1..m \subseteq 1..(m + 1)
  OBVIOUS
<1> QED
  BY <1>1 DEF Behind

LEMMA FromTheEnd ==
  ASSUME NEW l \in Nat, NEW k \in Nat, NEW i \in Nat, 0 < i, i <= l
  PROVE  /\ l - i + 1 + k \in Nat /\ l - i + 1 + k <= k + l
         /\ l - i + 1 + (k + 1) = (l - i + 1 + k) + 1
OBVIOUS

LEMMA OneOver ==
  ASSUME NEW l \in Nat, NEW k \in Nat, NEW i \in Int
  PROVE  (l + 1) - i + 1 + (k - 1) = l - i + 1 + k
OBVIOUS

(* A request with the next number, when there is a number to spare. *)
LEMMA RecordingSent ==
  ASSUME NEW s \in Seq(Request), NEW b \in Seq(Reply),
         NEW num \in 0..(Wrap - 1), NEW nm \in [0..(Wrap - 1) -> Names \cup {"none"}],
         Recorded(s, b, num, nm), Len(s) + Len(b) < Wrap,
         NEW next \in 0..(Wrap - 1), next = num + 1 \/ next = num + 1 - Wrap,
         NEW r \in Request, r.number = num
  PROVE  Recorded(Append(s, r), b, next, [nm EXCEPT ![num] = r.name])
<1> DEFINE t  == Append(s, r)
           ms == [nm EXCEPT ![num] = r.name]
<1> PICK ls \in Nat, lb \in Nat : ls = Len(s) /\ lb = Len(b)
  OBVIOUS
<1>0. Wrap \in Nat \ {0}
  BY NumbersAssumption
<1>1. /\ Len(t) = ls + 1 /\ DOMAIN t = 1..(ls + 1)
      /\ \A i \in 1..ls : t[i] = s[i] /\ s[i] \in Request
      /\ t[ls + 1] = r /\ DOMAIN s = 1..ls
      /\ DOMAIN b = 1..lb /\ \A i \in 1..lb : b[i] \in Reply
  OBVIOUS
<1>2. /\ ms[num] = r.name
      /\ \A n \in 0..(Wrap - 1) : n # num => ms[n] = nm[n]
  OBVIOUS
<1> HIDE DEF t, ms
<1>3. ASSUME NEW i \in DOMAIN t, t[i].number # NoNumber
      PROVE  t[i].name = ms[t[i].number] /\ Behind(next, t[i].number, Len(t) - i + 1)
  <2>1. CASE i = ls + 1
    <3>1. Len(t) - i + 1 = 1 /\ t[i] = r
      BY <1>1, <2>1
    <3> QED
      BY <1>2, <3>1, JustSent
  <2>2. CASE i \in 1..ls
    <3> PICK n \in 0..(Wrap - 1) : n = s[i].number
      BY <1>1, <1>3, <2>2 DEF Request, Number
    <3>0. ls - i + 1 \in Nat /\ ls - i + 1 < Wrap /\ Len(t) - i + 1 = (ls - i + 1) + 1
      BY <1>0, <1>1, <2>2
    <3>1. PICK m \in Nat : m = ls - i + 1 /\ m < Wrap /\ Len(t) - i + 1 = m + 1
      BY <3>0
    <3>2. Behind(num, n, m) /\ s[i].name = nm[n]
      BY <1>1, <1>3, <2>2, <3>1 DEF Recorded
    <3>3. n # num /\ Behind(next, n, m + 1)
      <4>1. m < Wrap /\ Behind(num, n, m)
        BY <3>1, <3>2
      <4> QED
        BY <4>1, MovingOn
    <3> QED
      BY <1>1, <1>2, <2>2, <3>1, <3>2, <3>3
  <2> QED
    BY <1>1, <2>1, <2>2
<1>4. ASSUME NEW i \in DOMAIN b
      PROVE  IF b[i].number = NoNumber
               THEN b[i].cause = "none"
               ELSE /\ b[i].cause = ms[b[i].number]
                    /\ Behind(next, b[i].number, Len(b) - i + 1 + Len(t))
  <2>1. CASE b[i].number = NoNumber
    BY <2>1 DEF Recorded
  <2>2. CASE b[i].number # NoNumber
    <3> PICK n \in 0..(Wrap - 1) : n = b[i].number
      BY <1>1, <2>2 DEF Reply, Number
    <3>0. /\ lb - i + 1 + ls \in Nat /\ lb - i + 1 + ls < Wrap
          /\ Len(b) - i + 1 + Len(t) = (lb - i + 1 + ls) + 1
      <4>1. i \in Nat /\ 0 < i /\ i <= lb
        BY <1>1
      <4>2. ls + lb < Wrap /\ Len(t) = ls + 1
        BY <1>1
      <4>3. /\ lb - i + 1 + ls \in Nat /\ lb - i + 1 + ls <= ls + lb
            /\ lb - i + 1 + (ls + 1) = (lb - i + 1 + ls) + 1
        BY <4>1, FromTheEnd
      <4>4. lb - i + 1 + ls < Wrap
        BY <1>0, <4>2, <4>3
      <4> QED
        BY <4>2, <4>3, <4>4
    <3>1. PICK m \in Nat : /\ m = Len(b) - i + 1 + Len(s) /\ m < Wrap
                           /\ Len(b) - i + 1 + Len(t) = m + 1
      BY <3>0
    <3>2. Behind(num, n, m) /\ b[i].cause = nm[n]
      BY <2>2, <3>1 DEF Recorded
    <3>3. n # num /\ Behind(next, n, m + 1)
      BY <3>1, <3>2, MovingOn
    <3> QED
      BY <1>2, <2>2, <3>1, <3>2, <3>3
  <2> QED
    BY <2>1, <2>2
<1> QED
  BY <1>3, <1>4 DEF Recorded, t, ms

(* A request of the login, which has no number. *)
LEMMA RecordingPlain ==
  ASSUME NEW s \in Seq(Request), NEW b \in Seq(Reply), NEW num, NEW nm,
         Recorded(s, b, num, nm), NEW r \in Request, r.number = NoNumber
  PROVE  Recorded(Append(s, r), b, num, nm)
<1> DEFINE t == Append(s, r)
<1> PICK ls \in Nat, lb \in Nat : ls = Len(s) /\ lb = Len(b)
  OBVIOUS
<1>1. /\ Len(t) = ls + 1 /\ DOMAIN t = 1..(ls + 1)
      /\ \A i \in 1..ls : t[i] = s[i]
      /\ t[ls + 1] = r /\ DOMAIN s = 1..ls /\ DOMAIN b = 1..lb
  OBVIOUS
<1> HIDE DEF t
<1>2. ASSUME NEW i \in DOMAIN t, t[i].number # NoNumber
      PROVE  t[i].name = nm[t[i].number] /\ Behind(num, t[i].number, Len(t) - i + 1)
  <2>1. i \in 1..ls /\ t[i] = s[i]
    BY <1>1, <1>2
  <2>2. PICK m \in Nat : m = ls - i + 1 /\ Len(t) - i + 1 = m + 1
    BY <1>1, <2>1
  <2>3. Behind(num, s[i].number, m) /\ s[i].name = nm[s[i].number]
    BY <1>1, <1>2, <2>1, <2>2 DEF Recorded
  <2> QED
    BY <2>1, <2>2, <2>3, FurtherBehind
<1>3. ASSUME NEW i \in DOMAIN b
      PROVE  IF b[i].number = NoNumber
               THEN b[i].cause = "none"
               ELSE /\ b[i].cause = nm[b[i].number]
                    /\ Behind(num, b[i].number, Len(b) - i + 1 + Len(t))
  <2>1. CASE b[i].number = NoNumber
    BY <2>1 DEF Recorded
  <2>2. CASE b[i].number # NoNumber
    <3>0. /\ lb - i + 1 + ls \in Nat
          /\ Len(b) - i + 1 + Len(t) = (lb - i + 1 + ls) + 1
      BY <1>1
    <3>1. PICK m \in Nat : /\ m = Len(b) - i + 1 + Len(s)
                           /\ Len(b) - i + 1 + Len(t) = m + 1
      BY <3>0
    <3>2. Behind(num, b[i].number, m) /\ b[i].cause = nm[b[i].number]
      BY <2>2, <3>1 DEF Recorded
    <3> QED
      BY <2>2, <3>1, <3>2, FurtherBehind
  <2> QED
    BY <2>1, <2>2
<1> QED
  BY <1>2, <1>3 DEF Recorded, t

(* An answer is handled. *)
LEMMA RecordingHandled ==
  ASSUME NEW s, NEW b \in Seq(Reply), b # <<>>, NEW num, NEW nm, Recorded(s, b, num, nm)
  PROVE  Recorded(s, Tail(b), num, nm)
<1> DEFINE c == Tail(b)
<1> PICK lb \in Nat : lb = Len(b)
  OBVIOUS
<1>1. /\ Len(c) = lb - 1 /\ DOMAIN c = 1..(lb - 1) /\ lb > 0
      /\ \A i \in 1..(lb - 1) : c[i] = b[i + 1]
      /\ DOMAIN b = 1..lb
  OBVIOUS
<1> HIDE DEF c
<1>2. ASSUME NEW i \in DOMAIN c
      PROVE  IF c[i].number = NoNumber
               THEN c[i].cause = "none"
               ELSE /\ c[i].cause = nm[c[i].number]
                    /\ Behind(num, c[i].number, Len(c) - i + 1 + Len(s))
  <2>1. PICK j \in DOMAIN b : j = i + 1 /\ c[i] = b[j] /\ Len(b) - j + 1 = Len(c) - i + 1
    BY <1>1
  <2> QED
    BY <2>1 DEF Recorded
<1> QED
  BY <1>2 DEF Recorded, c

(* The server answers a request. *)
LEMMA RecordingServed ==
  ASSUME NEW s \in Seq(Request), s # <<>>, NEW b \in Seq(Reply),
         NEW num, NEW nm, Recorded(s, b, num, nm),
         NEW a \in Reply, a.number = Head(s).number,
         a.cause = IF a.number = NoNumber THEN "none" ELSE Head(s).name
  PROVE  Recorded(Tail(s), Append(b, a), num, nm)
<1> DEFINE t == Tail(s)
           c == Append(b, a)
<1> PICK ls \in Nat, lb \in Nat : ls = Len(s) /\ lb = Len(b)
  OBVIOUS
<1>1. /\ Len(t) = ls - 1 /\ DOMAIN t = 1..(ls - 1) /\ ls > 0
      /\ \A i \in 1..(ls - 1) : t[i] = s[i + 1]
      /\ DOMAIN s = 1..ls /\ Head(s) = s[1]
  OBVIOUS
<1>2. /\ Len(c) = lb + 1 /\ DOMAIN c = 1..(lb + 1) /\ DOMAIN b = 1..lb
      /\ \A i \in 1..lb : c[i] = b[i]
      /\ c[lb + 1] = a
  OBVIOUS
<1> HIDE DEF t, c
<1>3. ASSUME NEW i \in DOMAIN t, t[i].number # NoNumber
      PROVE  t[i].name = nm[t[i].number] /\ Behind(num, t[i].number, Len(t) - i + 1)
  <2>1. PICK j \in DOMAIN s : j = i + 1 /\ t[i] = s[j] /\ Len(s) - j + 1 = Len(t) - i + 1
    BY <1>1
  <2> QED
    BY <1>3, <2>1 DEF Recorded
<1>4. ASSUME NEW i \in DOMAIN c
      PROVE  IF c[i].number = NoNumber
               THEN c[i].cause = "none"
               ELSE /\ c[i].cause = nm[c[i].number]
                    /\ Behind(num, c[i].number, Len(c) - i + 1 + Len(t))
  <2>1. CASE i \in 1..lb
    <3>1. i \in DOMAIN b /\ c[i] = b[i] /\ i \in Int
      BY <1>2, <2>1
    <3>2. Len(c) - i + 1 + Len(t) = Len(b) - i + 1 + Len(s)
      <4>1. (lb + 1) - i + 1 + (ls - 1) = lb - i + 1 + ls
        BY <3>1, OneOver
      <4> QED
        BY <1>1, <1>2, <4>1
    <3> QED
      BY <3>1, <3>2 DEF Recorded
  <2>2. CASE i = lb + 1
    <3>1. /\ c[i] = a /\ 1 \in DOMAIN s
          /\ Len(c) - i + 1 + Len(t) = Len(s) - 1 + 1
      BY <1>1, <1>2, <2>2
    <3>2. CASE a.number # NoNumber
      <4>1. s[1].name = nm[s[1].number] /\ Behind(num, s[1].number, Len(s) - 1 + 1)
        BY <1>1, <3>1, <3>2 DEF Recorded
      <4> QED
        BY <1>1, <3>1, <3>2, <4>1
    <3> QED
      BY <3>1, <3>2
  <2> QED
    BY <1>2, <2>1, <2>2
<1> QED
  BY <1>3, <1>4 DEF Recorded, t, c

(* A thread stores its command's name under the next number. *)
LEMMA RecordingNamed ==
  ASSUME NEW s \in Seq(Request), NEW b \in Seq(Reply),
         NEW num \in 0..(Wrap - 1), NEW nm \in [0..(Wrap - 1) -> Names \cup {"none"}],
         Recorded(s, b, num, nm), Len(s) + Len(b) < Wrap, NEW name
  PROVE  Recorded(s, b, num, [nm EXCEPT ![num] = name])
<1> DEFINE ms == [nm EXCEPT ![num] = name]
<1> PICK ls \in Nat, lb \in Nat : ls = Len(s) /\ lb = Len(b)
  OBVIOUS
<1> PICK next \in 0..(Wrap - 1) : next = num + 1 \/ next = num + 1 - Wrap
  BY NumberAfter
<1>0. Wrap \in Nat \ {0}
  BY NumbersAssumption
<1>1. /\ \A i \in 1..ls : s[i] \in Request
      /\ \A i \in 1..lb : b[i] \in Reply
      /\ DOMAIN s = 1..ls /\ DOMAIN b = 1..lb
  OBVIOUS
<1>2. \A n \in 0..(Wrap - 1) : n # num => ms[n] = nm[n]
  OBVIOUS
<1> HIDE DEF ms
<1>3. ASSUME NEW i \in DOMAIN s, s[i].number # NoNumber
      PROVE  s[i].name = ms[s[i].number] /\ Behind(num, s[i].number, Len(s) - i + 1)
  <2> PICK n \in 0..(Wrap - 1) : n = s[i].number
    BY <1>1, <1>3 DEF Request, Number
  <2>1. PICK m \in Nat : m = Len(s) - i + 1 /\ m < Wrap
    <3>1. ls - i + 1 \in Nat /\ ls - i + 1 < Wrap
      BY <1>0, <1>1
    <3> QED
      BY <3>1
  <2>2. Behind(num, n, m) /\ s[i].name = nm[n]
    BY <1>3, <2>1 DEF Recorded
  <2>3. n # num
    BY <2>1, <2>2, MovingOn
  <2> QED
    BY <1>2, <2>1, <2>2, <2>3
<1>4. ASSUME NEW i \in DOMAIN b, b[i].number # NoNumber
      PROVE  b[i].cause = ms[b[i].number] /\ Behind(num, b[i].number, Len(b) - i + 1 + Len(s))
  <2> PICK n \in 0..(Wrap - 1) : n = b[i].number
    BY <1>1, <1>4 DEF Reply, Number
  <2>1. PICK m \in Nat : m = Len(b) - i + 1 + Len(s) /\ m < Wrap
    <3>1. i \in Nat /\ 0 < i /\ i <= lb
      BY <1>1
    <3>2. lb - i + 1 + ls \in Nat /\ lb - i + 1 + ls <= ls + lb
      BY <3>1, FromTheEnd
    <3>3. lb - i + 1 + ls < Wrap
      BY <1>0, <3>2
    <3> QED
      BY <3>2, <3>3
  <2>2. Behind(num, n, m) /\ b[i].cause = nm[n]
    BY <1>4, <2>1 DEF Recorded
  <2>3. n # num
    BY <2>1, <2>2, MovingOn
  <2> QED
    BY <1>2, <2>1, <2>2, <2>3
<1> QED
  BY <1>3, <1>4 DEF Recorded, ms

(* Nothing that is under way has a number. *)
Unnumbered(s, b) ==
  /\ \A i \in DOMAIN s : s[i].number = NoNumber
  /\ \A i \in DOMAIN b : b[i].number = NoNumber

LEMMA RecordingNothing ==
  ASSUME NEW s, NEW b, NEW num, NEW nm, Recorded(s, b, num, nm), Unnumbered(s, b),
         NEW next
  PROVE  Recorded(s, b, next, nm)
BY DEF Recorded, Unnumbered

LEMMA EmptyRecorded == \A num, nm : Recorded(<<>>, <<>>, num, nm) /\ Unnumbered(<<>>, <<>>)
<1>1. DOMAIN <<>> = {}
  OBVIOUS
<1> QED
  BY <1>1 DEF Recorded, Unnumbered

(* The number the next request to be numbered will have. *)
Written(t) == sending[t].stage = "written"
Coming == IF \E t \in Threads : Written(t) THEN After(number) ELSE number

(* One thread at a time has a number, it is the next one, and the name is    *)
(* stored under it.                                                         *)
OneAtATime ==
  \A t \in Threads : Numbered(t) =>
    /\ sending[t].number = number
    /\ named[number] = sending[t].name
    /\ \A u \in Threads \ {t} : ~Numbered(u)

(* A line that loads a file, lines one of which does, and what lines may   *)
(* come to.                                                                 *)
Loads(line)    == line.job = "parse" /\ ~Plain(line.chat, line.text) /\ LoadsFile(line.text)
Loading(lines) == \E i \in DOMAIN lines : Loads(lines[i])
Need(lines)    == IF Loading(lines) THEN Burst ELSE Len(lines)

(* There are numbers for all that is and will be under way; a file is       *)
(* loaded by the last line; no answer is under way during a login.          *)
Room ==
  /\ Len(toServer) + Len(toBot) + Need(todo) + Unwritten("main") + Unwritten("signal") <= Wrap
  /\ Loading(todo) => Len(todo) = 1
  /\ link = "lost" => toServer = <<>> /\ toBot = <<>>
  /\ Alone

Counted ==
  Up /\ ~crossed =>
    /\ Room
    /\ OneAtATime
    /\ Recorded(toServer, toBot, Coming, named)
    /\ link # "on" => Unnumbered(toServer, toBot)

LEMMA NeedTyped ==
  ASSUME NEW lines \in Seq(Task)
  PROVE  Need(lines) \in Nat
BY NumbersAssumption DEF Need

LEMMA NeedOfNothing == ~Loading(<<>>) /\ Need(<<>>) = 0
<1>1. DOMAIN <<>> = {} /\ Len(<<>>) = 0
  OBVIOUS
<1> QED
  BY <1>1 DEF Loading, Need

LEMMA NeedOfRest ==
  ASSUME NEW lines \in Seq(Task), lines # <<>>, Loading(lines) => Len(lines) = 1
  PROVE  Need(Tail(lines)) + 1 <= Need(lines) /\ ~Loading(Tail(lines))
<1> DEFINE rest == Tail(lines)
<1> PICK n \in Nat : n = Len(lines) /\ n > 0
  OBVIOUS
<1>1. /\ Len(rest) = n - 1 /\ DOMAIN lines = 1..n /\ DOMAIN rest = 1..(n - 1)
      /\ \A i \in 1..(n - 1) : rest[i] = lines[i + 1] /\ i + 1 \in 1..n
  OBVIOUS
<1> HIDE DEF rest
<1>2. ~Loading(rest)
  BY <1>1 DEF Loading
<1>3. CASE Loading(lines)
  <2>1. n = 1 /\ Burst \in Nat /\ Burst > 1
    BY <1>3, NumbersAssumption
  <2> QED
    BY <1>1, <1>2, <1>3, <2>1 DEF Need, rest
<1>4. CASE ~Loading(lines)
  BY <1>1, <1>2, <1>4 DEF Need, rest
<1> QED
  BY <1>2, <1>3, <1>4 DEF rest


LEMMA Lengths ==
  ASSUME Typed
  PROVE  \E s \in Nat, b \in Nat, n \in Nat, m \in {0, 1}, g \in {0, 1} :
           /\ s = Len(toServer) /\ b = Len(toBot) /\ n = Need(todo)
           /\ m = Unwritten("main") /\ g = Unwritten("signal")
<1>1. todo \in Seq(Task) /\ toServer \in Seq(Request) /\ toBot \in Seq(Reply)
  BY DEF Typed, TypeOK
<1>2. Need(todo) \in Nat
  BY <1>1, NeedTyped
<1>3. Len(toServer) \in Nat /\ Len(toBot) \in Nat
  BY <1>1
<1>4. Unwritten("main") \in {0, 1} /\ Unwritten("signal") \in {0, 1}
  BY DEF Unwritten
<1> QED
  BY <1>2, <1>3, <1>4

(* A thread with nothing to send makes a message, or none is made. *)
LEMMA MakingCounted ==
  ASSUME Typed, Counted, UNCHANGED <<process, crossed, number, named, toServer, toBot, link>>,
         \/ SendNothing
         \/ \E t \in Threads : sending[t].stage = "none" /\ \E name, value : Make(t, name, value),
         Up /\ ~crossed => Room'
  PROVE  Counted'
<1> SUFFICES ASSUME Up, ~crossed
             PROVE  /\ OneAtATime' /\ Recorded(toServer', toBot', Coming', named')
                    /\ link' # "on" => Unnumbered(toServer', toBot')
  BY DEF Counted, Up
<1>1. \A t \in Threads : /\ Numbered(t)' = Numbered(t) /\ Written(t)' = Written(t)
                         /\ Numbered(t) => sending'[t] = sending[t]
  <2>1. CASE SendNothing
    BY <2>1 DEF SendNothing, Numbered, Written
  <2>2. ASSUME NEW t \in Threads, NEW name, NEW value,
               sending[t].stage = "none", Make(t, name, value)
        PROVE  \A u \in Threads : /\ Numbered(u)' = Numbered(u) /\ Written(u)' = Written(u)
                                  /\ Numbered(u) => sending'[u] = sending[u]
    <3>1. sending'[t].stage = "made" /\ \A u \in Threads \ {t} : sending'[u] = sending[u]
      BY <2>2, TypedParts DEF Make
    <3> QED
      BY <2>2, <3>1 DEF Numbered, Written
  <2> QED
    BY <2>1, <2>2
<1>2. Coming' = Coming
  BY <1>1 DEF Coming, After
<1>3. OneAtATime'
  BY <1>1 DEF Counted, OneAtATime
<1> QED
  BY <1>2, <1>3 DEF Counted

(* A line of the answer under way is done. *)
LEMMA LineCounted ==
  ASSUME Typed, Counted, Turn, NextLine,
         UNCHANGED <<process, crossed, number, named, toServer, toBot, link>>,
         SendNothing \/ \E name, value : Make("main", name, value)
  PROVE  Counted'
<1>0. "main" \in Threads /\ sending["main"].stage = "none"
  BY DEF Turn, Threads
<1> SUFFICES ASSUME Up, ~crossed PROVE Room'
  BY <1>0, MakingCounted
<1> PICK s \in Nat, b \in Nat, n \in Nat, m \in {0, 1}, g \in {0, 1} :
           /\ s = Len(toServer) /\ b = Len(toBot) /\ n = Need(todo)
           /\ m = Unwritten("main") /\ g = Unwritten("signal")
  BY Lengths
<1>1. Room /\ todo \in Seq(Task) /\ todo # <<>> /\ m = 0
  BY <1>0 DEF Counted, Typed, TypeOK, Turn, Unwritten
<1>2. Need(todo') + 1 <= n /\ ~Loading(todo')
  BY <1>1, NeedOfRest DEF NextLine, Room
<1>3. Need(todo') \in Nat
  <2>1. Tail(todo) \in Seq(Task)
    BY <1>1
  <2> QED
    BY <2>1, NeedTyped DEF NextLine
<1>4. Unwritten("main")' \in {0, 1} /\ Unwritten("signal")' = g
  <2>1. sending'["signal"] = sending["signal"]
    BY TypedParts DEF SendNothing, Make, Threads
  <2> QED
    BY <2>1 DEF Unwritten
<1>5. s + b + n + m + g <= Wrap /\ Wrap \in Nat
  BY <1>1, NumbersAssumption DEF Room
<1>6. Len(toServer') + Len(toBot') + Need(todo') + Unwritten("main")' + Unwritten("signal")' <= Wrap
  <2>1. PICK k \in Nat, m2 \in {0, 1} : k = Need(todo') /\ m2 = Unwritten("main")'
    BY <1>3, <1>4
  <2>2. Len(toServer') = s /\ Len(toBot') = b /\ Unwritten("signal")' = g
    BY <1>4
  <2>3. k + 1 <= n
    BY <1>2, <2>1
  <2>4. s + b + k + m2 + g <= Wrap
    BY <1>1, <1>5, <2>3
  <2> QED
    BY <2>1, <2>2, <2>4
<1>7. Alone' /\ link # "lost"
  BY <1>1 DEF Room, Alone
<1> QED
  BY <1>2, <1>6, <1>7 DEF Room

(* What needs no number leaves the others their room. *)
LEMMA SameRoom ==
  ASSUME Typed, Room, UNCHANGED <<todo, toServer, toBot, link, sending>>
  PROVE  Room'
BY DEF Room, Alone, Unwritten

LEMMA SameCounted ==
  ASSUME Typed, Counted,
         UNCHANGED <<process, crossed, number, named, todo, toServer, toBot, link, sending>>
  PROVE  Counted'
BY MakingCounted, SameRoom DEF Counted, SendNothing

(* The icon is sent or is not. *)
LEMMA IconMade ==
  ASSUME NEW t, ReloadIcon(t)
  PROVE  SendNothing \/ \E name, value : Make(t, name, value)
BY DEF ReloadIcon, TakeIcon

(* A thread takes its number. *)
LEMMA TakeCounted ==
  ASSUME Typed, Counted, NEW t \in Threads, Take(t)
  PROVE  Counted'
<1> SUFFICES ASSUME Up', ~crossed'
             PROVE  /\ Room' /\ OneAtATime' /\ Recorded(toServer', toBot', Coming', named')
                    /\ link' # "on" => Unnumbered(toServer', toBot')
  BY DEF Counted
<1> PICK s \in Nat, b \in Nat, n \in Nat, m \in {0, 1}, g \in {0, 1} :
           /\ s = Len(toServer) /\ b = Len(toBot) /\ n = Need(todo)
           /\ m = Unwritten("main") /\ g = Unwritten("signal")
  BY Lengths
<1>1. /\ Up /\ ~crossed /\ sending[t].stage = "made" /\ \A u \in Threads \ {t} : ~Numbered(u)
      /\ UNCHANGED <<todo, number, toServer, toBot, link>>
      /\ named' = [named EXCEPT ![number] = sending[t].name]
      /\ sending' = [sending EXCEPT ![t].stage = "numbered", ![t].number = number]
  BY DEF Take, botVars, netVars
<1>2. /\ \A u \in Threads \ {t} : sending'[u] = sending[u]
      /\ sending'[t].stage = "numbered" /\ sending'[t].number = number
      /\ sending'[t].name = sending[t].name
  BY <1>1 DEF Typed, TypeOK, Sending
<1>3. \A u \in Threads : ~Written(u) /\ ~Written(u)'
  <2>1. ~Written(t) /\ ~Written(t)'
    BY <1>1, <1>2 DEF Written
  <2>2. \A u \in Threads \ {t} : ~Written(u) /\ ~Written(u)'
    BY <1>1, <1>2 DEF Written, Numbered
  <2> QED
    BY <2>1, <2>2
<1>4. Coming = number /\ Coming' = number
  BY <1>1, <1>3 DEF Coming
<1>5. OneAtATime'
  <2>1. named'[number] = sending[t].name
    BY <1>1 DEF Typed, TypeOK
  <2>2. \A u \in Threads \ {t} : ~Numbered(u)'
    BY <1>1, <1>2 DEF Numbered
  <2> QED
    BY <1>1, <1>2, <2>1, <2>2 DEF OneAtATime
<1>6. \A u \in Threads : Unwritten(u)' = Unwritten(u)
  BY <1>1, <1>2 DEF Unwritten
<1>7. Room /\ Recorded(toServer, toBot, number, named)
  BY <1>1, <1>4 DEF Counted
<1>8. Room'
  <2>1. sending'["main"].stage = "none" <=> sending["main"].stage = "none"
    BY <1>1, <1>2 DEF Threads
  <2> QED
    BY <1>1, <1>6, <1>7, <2>1 DEF Room, Alone, Threads
<1>9. Len(toServer) + Len(toBot) < Wrap
  <2>1. m = 1 \/ g = 1
    BY <1>1 DEF Unwritten, Threads
  <2>2. s + b + n + m + g <= Wrap /\ Wrap \in Nat
    BY <1>7, NumbersAssumption DEF Room
  <2> QED
    BY <2>1, <2>2
<1>10. Recorded(toServer', toBot', Coming', named')
  BY <1>1, <1>4, <1>7, <1>9, RecordingNamed DEF Typed, TypeOK
<1> QED
  BY <1>1, <1>5, <1>8, <1>10 DEF Counted

(* It writes its message, or would, had the session not been closed. *)
LEMMA PutCounted ==
  ASSUME Typed, Counted, NEW t \in Threads, Put(t)
  PROVE  Counted'
<1> SUFFICES ASSUME Up', ~crossed'
             PROVE  /\ Room' /\ OneAtATime' /\ Recorded(toServer', toBot', Coming', named')
                    /\ link' # "on" => Unnumbered(toServer', toBot')
  BY DEF Counted
<1> DEFINE r == [value |-> sending[t].value, name |-> sending[t].name,
                 number |-> sending[t].number]
<1> PICK s \in Nat, b \in Nat, n \in Nat, m \in {0, 1}, g \in {0, 1} :
           /\ s = Len(toServer) /\ b = Len(toBot) /\ n = Need(todo)
           /\ m = Unwritten("main") /\ g = Unwritten("signal")
  BY Lengths
<1>1. /\ Up /\ ~crossed /\ sending[t].stage = "numbered"
      /\ UNCHANGED <<todo, number, named, toBot, link>>
      /\ sending' = [sending EXCEPT ![t].stage = "written"]
  BY DEF Put, history
<1>2. /\ \A u \in Threads \ {t} : sending'[u] = sending[u]
      /\ sending'[t].stage = "written" /\ sending'[t].number = sending[t].number
      /\ sending'[t].name = sending[t].name
  BY <1>1 DEF Typed, TypeOK, Sending
<1>3. /\ Room /\ OneAtATime /\ Recorded(toServer, toBot, Coming, named)
      /\ link # "on" => Unnumbered(toServer, toBot)
  BY <1>1 DEF Counted
<1>4. /\ sending[t].number = number /\ named[number] = sending[t].name
      /\ \A u \in Threads \ {t} : ~Numbered(u)
  BY <1>1, <1>3 DEF OneAtATime, Numbered
<1>5. Coming = number /\ Coming' = After(number)
  <2>1. \A u \in Threads : ~Written(u)
    BY <1>1, <1>4 DEF Written, Numbered
  <2>2. Written(t)'
    BY <1>2 DEF Written
  <2> QED
    BY <1>1, <2>1, <2>2 DEF Coming, After
<1>6. OneAtATime'
  <2>1. \A u \in Threads \ {t} : ~Numbered(u)'
    BY <1>2, <1>4 DEF Numbered
  <2> QED
    BY <1>1, <1>2, <1>4, <2>1 DEF OneAtATime
<1>7. \/ m = 1 /\ Unwritten("main")' = 0 /\ Unwritten("signal")' = g
      \/ g = 1 /\ Unwritten("signal")' = 0 /\ Unwritten("main")' = m
  <2>1. t = "main" \/ t = "signal"
    BY DEF Threads
  <2> QED
    BY <1>1, <1>2, <2>1 DEF Unwritten, Threads
<1>8. s + b + n + m + g <= Wrap /\ Wrap \in Nat /\ Need(todo') = n
  BY <1>1, <1>3, NumbersAssumption DEF Room
<1>9. Alone' /\ (Loading(todo') => Len(todo') = 1)
  <2>1. sending'["main"].stage = "none" <=> sending["main"].stage = "none"
    BY <1>1, <1>2 DEF Threads
  <2> QED
    BY <1>1, <1>3, <2>1 DEF Room, Alone
<1>10. CASE link = "on" /\ Write(r)
  <2>1. r \in Request /\ r.number = number /\ r.name = named[number]
    BY <1>1, <1>4 DEF Typed, TypeOK, Pending, Numbered, Sending, Request
  <2> HIDE DEF r
  <2>2. toServer' = Append(toServer, r)
    BY <1>10 DEF Write, Crash, Up
  <2>3. s + b < Wrap
    BY <1>7, <1>8
  <2>4. [named EXCEPT ![number] = r.name] = named
    BY <2>1 DEF Typed, TypeOK
  <2>5. number \in 0..(Wrap - 1) /\ named \in [0..(Wrap - 1) -> Names \cup {"none"}]
        /\ toServer \in Seq(Request) /\ toBot \in Seq(Reply)
    BY DEF Typed, TypeOK
  <2>6. Recorded(Append(toServer, r), toBot, After(number), [named EXCEPT ![number] = r.name])
    BY <1>3, <1>5, <2>1, <2>3, <2>5, NumberAfter, RecordingSent
  <2>7. Len(toServer') = s + 1
    BY <2>1, <2>2, <2>5
  <2>8. Room'
    BY <1>1, <1>7, <1>8, <1>9, <1>10, <2>7 DEF Room
  <2> QED
    BY <1>1, <1>5, <1>6, <1>10, <2>2, <2>4, <2>6, <2>8
<1>11. CASE link # "on" /\ UNCHANGED toServer
  <2>1. Recorded(toServer, toBot, After(number), named)
    BY <1>3, <1>11, RecordingNothing
  <2>2. Room'
    BY <1>1, <1>3, <1>7, <1>8, <1>9, <1>11 DEF Room
  <2> QED
    BY <1>1, <1>3, <1>5, <1>6, <1>11, <2>1, <2>2
<1> QED
  BY <1>10, <1>11 DEF Put, WriteStale

(* It moves the counter on. *)
LEMMA CountCounted ==
  ASSUME Typed, Counted, NEW t \in Threads, Count(t)
  PROVE  Counted'
<1> SUFFICES ASSUME Up', ~crossed'
             PROVE  /\ Room' /\ OneAtATime' /\ Recorded(toServer', toBot', Coming', named')
                    /\ link' # "on" => Unnumbered(toServer', toBot')
  BY DEF Counted
<1>1. /\ Up /\ ~crossed /\ sending[t].stage = "written"
      /\ UNCHANGED <<todo, named, toServer, toBot, link>>
      /\ number' \in {After(n) : n \in Since(sending[t].number)}
      /\ sending' = [sending EXCEPT ![t] = Nothing]
  BY DEF Count, botVars, history, netVars
<1>2. /\ \A u \in Threads \ {t} : sending'[u] = sending[u]
      /\ sending'[t] = Nothing
  BY <1>1 DEF Typed, TypeOK
<1>3. /\ Room /\ OneAtATime /\ Recorded(toServer, toBot, Coming, named)
      /\ link # "on" => Unnumbered(toServer, toBot)
  BY <1>1 DEF Counted
<1>4. /\ sending[t].number = number
      /\ \A u \in Threads \ {t} : ~Numbered(u)
  BY <1>1, <1>3 DEF OneAtATime, Numbered
<1>5. Since(number) = {number}
  <2>1. number \in Nat /\ number < Wrap /\ Wrap \in Nat \ {0, 1}
    BY NumbersAssumption DEF Typed, TypeOK
  <2>2. (number - number) % Wrap = 0 /\ (number + 0) % Wrap = number
    BY <2>1
  <2>3. 0..((number - number) % Wrap) = {0}
    BY <2>2
  <2> QED
    BY <2>2, <2>3 DEF Since
<1>6. number' = After(number)
  BY <1>1, <1>4, <1>5
<1>7. \A u \in Threads : ~Numbered(u)' /\ ~Written(u)'
  BY <1>2, <1>4 DEF Numbered, Written, Nothing
<1>8. Coming = After(number) /\ Coming' = After(number)
  <2>1. Written(t)
    BY <1>1 DEF Written
  <2> QED
    BY <1>6, <1>7, <2>1 DEF Coming
<1>9. OneAtATime'
  BY <1>7 DEF OneAtATime
<1>10. Unwritten("main")' = Unwritten("main") /\ Unwritten("signal")' = Unwritten("signal")
  BY <1>1, <1>2 DEF Unwritten, Nothing, Threads
<1>11. Room'
  <2>1. sending["main"].stage = "none" => sending'["main"].stage = "none"
    BY <1>1, <1>2 DEF Threads
  <2> QED
    BY <1>1, <1>3, <1>10, <2>1 DEF Room, Alone
<1> QED
  BY <1>1, <1>3, <1>8, <1>9, <1>11

LEMMA SendCounted ==
  ASSUME Typed, Counted, NEW t \in Threads, Take(t) \/ Put(t) \/ Count(t)
  PROVE  Counted' /\ UNCHANGED misnamed
BY TakeCounted, PutCounted, CountCounted DEF Take, Put, Count, history

(* Nothing is under way in a session that was closed. *)
LEMMA ClosedCounted ==
  ASSUME Typed, Counted, Close, UNCHANGED <<process, crossed, number, named, sending>>,
         todo' = todo \/ (Turn /\ NextLine)
  PROVE  Counted'
<1> SUFFICES ASSUME Up, ~crossed
             PROVE  /\ Room' /\ OneAtATime' /\ Recorded(toServer', toBot', Coming', named')
                    /\ Unnumbered(toServer', toBot')
  BY DEF Counted, Up
<1> PICK s \in Nat, b \in Nat, n \in Nat, m \in {0, 1}, g \in {0, 1} :
           /\ s = Len(toServer) /\ b = Len(toBot) /\ n = Need(todo)
           /\ m = Unwritten("main") /\ g = Unwritten("signal")
  BY Lengths
<1>1. /\ Room /\ OneAtATime /\ todo \in Seq(Task)
      /\ toServer' = <<>> /\ toBot' = <<>> /\ link' = "off"
  BY DEF Counted, Typed, TypeOK, Close
<1>2. Need(todo') \in Nat /\ Need(todo') <= n /\ (Loading(todo') => Len(todo') = 1)
  <2>1. CASE todo' = todo
    BY <1>1, <2>1 DEF Room
  <2>2. CASE Turn /\ NextLine
    <3>1. Need(todo') + 1 <= n /\ ~Loading(todo')
      BY <1>1, <2>2, NeedOfRest DEF NextLine, Room, Turn
    <3>2. Need(todo') \in Nat
      BY <2>2, NextLineTyped, NeedTyped
    <3> QED
      BY <3>1, <3>2
  <2> QED
    BY <2>1, <2>2
<1>3. Unwritten("main")' = m /\ Unwritten("signal")' = g
  BY DEF Unwritten
<1>4. Len(toServer') + Len(toBot') + Need(todo') + Unwritten("main")' + Unwritten("signal")' <= Wrap
  <2>1. Len(toServer') = 0 /\ Len(toBot') = 0
    BY <1>1
  <2>2. s + b + n + m + g <= Wrap /\ Wrap \in Nat
    BY <1>1, NumbersAssumption DEF Room
  <2> QED
    BY <1>2, <1>3, <2>1, <2>2
<1>5. Room'
  BY <1>1, <1>2, <1>4 DEF Room, Alone, Logins
<1>6. OneAtATime'
  BY <1>1 DEF OneAtATime, Numbered
<1> QED
  BY <1>1, <1>5, <1>6, EmptyRecorded

LEMMA NothingLeft ==
  ASSUME NEW S, NEW s \in Seq(S), Len(s) = 0
  PROVE  s = <<>>
OBVIOUS

LEMMA NothingAdded ==
  ASSUME NEW S, NEW s \in Seq(S)
  PROVE  s \o <<>> = s
OBVIOUS

(* A line that is executed as /load loads a file. *)
LEMMA LoadLoads ==
  ASSUME Typed, Said, Executes({"load"})
  PROVE  Loading(todo)
<1>1. /\ todo # <<>> /\ Current \in Line /\ Current.job = "parse"
      /\ Hits[WordOf(Current)] # {} /\ Lookup(WordOf(Current)) = "load"
      /\ 1 \in DOMAIN todo /\ Current = todo[1]
  <2>1. /\ todo # <<>> /\ Current.job = "parse"
        /\ Hits[WordOf(Current)] # {} /\ Lookup(WordOf(Current)) = "load"
    BY DEF Executes, Parsing, Turn, Known, Name
  <2>2. Current \in Line
    BY ExecutesTyped
  <2>3. 1 \in DOMAIN todo /\ Current = todo[1]
    BY <2>1 DEF Typed, TypeOK, Current
  <2> QED
    BY <2>1, <2>2, <2>3
<1>2. ~Plain(Current.chat, Current.text)
  <2>1. Plain(Current.chat, Current.text) => GivenWell(Current)
    BY <1>1 DEF Said, Prefixed, Given
  <2> QED
    BY <1>1, <2>1, WordsOfTalk DEF GivenWell, WordOf
<1>3. Loads(Current)
  BY <1>1, <1>2 DEF Loads, LoadsFile, WordOf
<1> QED
  BY <1>1, <1>3 DEF Loading

(* A change of the answer under way that needs no more numbers. *)
LEMMA LinesCounted ==
  ASSUME Typed, Counted, link = "on" \/ link = "off",
         UNCHANGED <<process, crossed, number, named, toServer, toBot, link, sending>>,
         Up /\ ~crossed => /\ Need(todo') \in Nat /\ Need(todo') <= Need(todo)
                           /\ Loading(todo') => Len(todo') = 1
  PROVE  Counted'
<1> SUFFICES ASSUME Up, ~crossed PROVE Room'
  BY MakingCounted DEF SendNothing
<1> PICK s \in Nat, b \in Nat, n \in Nat, m \in {0, 1}, g \in {0, 1} :
           /\ s = Len(toServer) /\ b = Len(toBot) /\ n = Need(todo)
           /\ m = Unwritten("main") /\ g = Unwritten("signal")
  BY Lengths
<1>1. s + b + n + m + g <= Wrap /\ Wrap \in Nat
  BY NumbersAssumption DEF Counted, Room
<1>2. /\ Unwritten("main")' = m /\ Unwritten("signal")' = g
      /\ Len(toServer') = s /\ Len(toBot') = b
  BY DEF Unwritten
<1>3. Len(toServer') + Len(toBot') + Need(todo') + Unwritten("main")' + Unwritten("signal")' <= Wrap
  BY <1>1, <1>2
<1> QED
  BY <1>3 DEF Room, Alone, Logins

LEMMA WordCounted ==
  ASSUME Typed, Said, Counted, GiveWord
  PROVE  Counted'
<1>1. /\ Turn /\ Current.job = "prefix"
      /\ todo' = [todo EXCEPT ![1].job = "parse", ![1].text.word = Prefix]
      /\ UNCHANGED <<process, crossed, number, named, toServer, toBot, link, sending>>
  BY DEF GiveWord, botVars, numbers, history, netVars
<1> SUFFICES ASSUME Up, ~crossed
             PROVE  Counted'
  BY <1>1 DEF Counted, Up
<1>2. /\ todo \in Seq(Task) /\ todo # <<>> /\ DOMAIN todo' = DOMAIN todo
      /\ \A i \in DOMAIN todo : i # 1 => todo'[i] = todo[i]
      /\ 1 \in DOMAIN todo /\ todo[1] = Current /\ Len(todo') = Len(todo)
      /\ todo'[1] = [Current EXCEPT !.job = "parse", !.text.word = Prefix]
  <2>1. /\ todo \in Seq(Task) /\ todo # <<>> /\ DOMAIN todo' = DOMAIN todo
        /\ \A i \in DOMAIN todo : i # 1 => todo'[i] = todo[i]
        /\ 1 \in DOMAIN todo /\ todo[1] = Current
    BY <1>1 DEF Typed, TypeOK, Turn, Current
  <2>2. todo'[1] = [Current EXCEPT !.job = "parse", !.text.word = Prefix]
    BY <1>1, <2>1
  <2>3. Len(todo') = Len(todo)
    <3>1. Len(todo) \in Nat /\ DOMAIN todo = 1..Len(todo) /\ \A i \in 1..Len(todo) : TRUE
      BY <2>1
    <3> QED
      BY <1>1, <2>1, <3>1
  <2> QED
    BY <2>1, <2>2, <2>3
<1>3. link = "on" \/ link = "off"
  BY <1>2 DEF Counted, Room, Alone, Typed, TypeOK
<1>4. ~Loads(todo[1]) /\ ~Loads(todo'[1])
  <2>1. todo'[1].text.word = Prefix
    <3>1. Current \in Line
      BY <1>1, LineTyped
    <3>2. Current.text \in Text /\ DOMAIN Current = {"chat", "text", "job"}
      BY <3>1 DEF Line
    <3>3. "word" \in DOMAIN Current.text
      BY <3>2 DEF Text
    <3> QED
      BY <1>2, <3>2, <3>3
  <2>2. ~LoadsFile(todo'[1].text)
    BY <2>1, WordsOfTalk DEF Prefix, LoadsFile
  <2> QED
    BY <1>1, <1>2, <2>2 DEF Loads
<1>5. Loading(todo') = Loading(todo)
  BY <1>2, <1>4 DEF Loading
<1>6. Need(todo') = Need(todo) /\ Need(todo) \in Nat
  BY <1>2, <1>5, NeedTyped DEF Need
<1>7. Loading(todo') => Len(todo') = 1
  BY <1>2, <1>5 DEF Counted, Room
<1> QED
  BY <1>1, <1>3, <1>6, <1>7, LinesCounted

LEMMA LoadCounted ==
  ASSUME LoadsAlone, Typed, Said, Counted, Load
  PROVE  Counted'
<1> DEFINE file == Bookmarks[Arg]
           lines == [i \in DOMAIN file |-> Parse(FALSE, file[i])]
<1>1. /\ Loading(todo) /\ todo \in Seq(Task) /\ todo # <<>>
      /\ todo' = lines \o Tail(todo)
      /\ UNCHANGED <<process, crossed, number, named, toServer, toBot, link, sending>>
  BY LoadLoads DEF Load, Executes, Parsing, Turn, Typed, TypeOK, botVars, numbers, history, netVars
<1> SUFFICES ASSUME Up, ~crossed
             PROVE  Counted'
  BY <1>1 DEF Counted, Up
<1>2. Len(todo) = 1 /\ Need(todo) = Burst /\ (link = "on" \/ link = "off")
  BY <1>1 DEF Counted, Room, Need, Alone, Typed, TypeOK
<1>3. Tail(todo) = <<>>
  <2>1. Tail(todo) \in Seq(Task) /\ Len(Tail(todo)) = 0
    BY <1>1, <1>2
  <2> QED
    BY <2>1, NothingLeft
<1>4. /\ file \in Seq(Text) /\ Len(file) <= Burst
      /\ \A i \in DOMAIN file : ~LoadsFile(file[i])
  BY TextsAssumption DEF Load, LoadsAlone
<1> HIDE DEF file
<1>5. Len(file) \in Nat /\ DOMAIN file = 1..Len(file) /\ \A i \in DOMAIN file : file[i] \in Text
  BY <1>4
<1>6. \A t : Parse(FALSE, t).text = t
  BY DEF Parse
<1>7. ~Loading(lines)
  BY <1>4, <1>6 DEF Loading, Loads
<1>8. lines \in Seq(Task) /\ Len(lines) = Len(file)
  <2>1. ASSUME NEW text \in Text PROVE Parse(FALSE, text) \in Task
    BY DEF Parse, Task, Line
  <2>2. lines \in [1..Len(file) -> Task]
    BY <1>5, <2>1
  <2> HIDE DEF lines
  <2> QED
    BY <1>5, <2>2
<1> HIDE DEF lines
<1>9. todo' = lines
  BY <1>1, <1>3, <1>8, NothingAdded
<1>10. Need(todo') = Len(file) /\ ~Loading(todo')
  BY <1>7, <1>8, <1>9 DEF Need
<1> QED
  BY <1>1, <1>2, <1>4, <1>5, <1>10, LinesCounted

LEMMA HandleCounted ==
  ASSUME LoadsAlone, Typed, Said, Counted, Handle
  PROVE  Counted' /\ UNCHANGED misnamed
<1>1. CASE Drops \/ Quit \/ Ask \/ AskAbout \/ Set
  <2>1. /\ Turn /\ NextLine
        /\ UNCHANGED <<process, crossed, number, named, toServer, toBot, link, misnamed>>
    BY <1>1 DEF Drops, Quit, Ask, AskAbout, Set, Executes, Parsing, botVars, netVars, numbers,
       history
  <2>2. SendNothing \/ \E name, value : Make("main", name, value)
    BY <1>1 DEF Drops, Quit, Ask, AskAbout, Set, SendNothing, numbers
  <2> QED
    BY <2>1, <2>2, LineCounted
<1>2. CASE PrintUsage \/ AskAboutNobody \/ UsersForgotten \/ SetIconFails \/ Show \/ LoadFails
  <2>1. ~Up' /\ UNCHANGED misnamed
    BY <1>2 DEF PrintUsage, AskAboutNobody, UsersForgotten, SetIconFails, Show, LoadFails, Crash,
       Up, history
  <2> QED
    BY <2>1 DEF Counted
<1>3. CASE SetIcon \/ Reload
  <2>1. /\ Turn /\ NextLine /\ ReloadIcon("main")
        /\ UNCHANGED <<process, crossed, number, named, toServer, toBot, link, misnamed>>
    BY <1>3 DEF SetIcon, Reload, ReloadIcon, Executes, Parsing, netVars, history
  <2> QED
    BY <2>1, IconMade, LineCounted
<1>4. CASE GiveWord
  BY <1>4, WordCounted DEF GiveWord, history
<1>5. CASE Load
  BY <1>5, LoadCounted DEF Load, history
<1>6. CASE Disconnect
  <2>1. /\ Turn /\ NextLine /\ Close
        /\ UNCHANGED <<process, crossed, number, named, sending, misnamed>>
    BY <1>6 DEF Disconnect, Executes, Parsing, numbers, history
  <2> QED
    BY <2>1, ClosedCounted
<1>7. CASE Take("main") \/ Put("main") \/ Count("main")
  <2>1. "main" \in Threads
    BY DEF Threads
  <2> QED
    BY <1>7, <2>1, SendCounted
<1> QED
  BY <1>1, <1>2, <1>3, <1>4, <1>5, <1>6, <1>7 DEF Handle

(* What becomes of the messages while no thread sends one. *)
LEMMA LinkCounted ==
  ASSUME Counted, UNCHANGED <<process, crossed, number, named, sending>>,
         Up /\ ~crossed => /\ Room' /\ Recorded(toServer', toBot', Coming, named)
                           /\ link' # "on" => Unnumbered(toServer', toBot')
  PROVE  Counted'
<1>1. Coming' = Coming /\ (OneAtATime => OneAtATime')
  BY DEF Coming, Written, After, OneAtATime, Numbered
<1> QED
  BY <1>1 DEF Counted, Up

(* A step of the login: an answer is taken and a request without a number   *)
(* is written.                                                              *)
LEMMA LoginCounted ==
  ASSUME Typed, Counted, Up, link \in Logins, UNCHANGED <<crossed, number, named, sending, todo>>,
         toBot # <<>>, toBot' = Tail(toBot), link' \in Logins \cup {"opening"},
         NEW name \in Names \cup {"login", "join_chat"}, NEW value \in Values,
         Write(Bare(name, value))
  PROVE  Counted'
<1> DEFINE r == Bare(name, value)
<1> SUFFICES ASSUME Up', ~crossed PROVE Counted'
  BY DEF Counted
<1> PICK s \in Nat, b \in Nat, n \in Nat, m \in {0, 1}, g \in {0, 1} :
           /\ s = Len(toServer) /\ b = Len(toBot) /\ n = Need(todo)
           /\ m = Unwritten("main") /\ g = Unwritten("signal")
  BY Lengths
<1>1. /\ Room /\ Recorded(toServer, toBot, Coming, named) /\ Unnumbered(toServer, toBot)
      /\ todo = <<>> /\ sending["main"].stage = "none"
      /\ s + b + n + m + g <= Wrap /\ Wrap \in Nat
  BY NumbersAssumption DEF Counted, Room, Alone, Logins
<1>2. r \in Request /\ r.number = NoNumber
  BY BareTyped DEF Tagged, Bare
<1> HIDE DEF r
<1>3. UNCHANGED process /\ toServer' = Append(toServer, r)
  BY DEF Write, Crash, Up, r
<1>4. /\ Tail(toBot) \in Seq(Reply) /\ Len(Tail(toBot)) = b - 1 /\ b > 0
      /\ Len(Append(toServer, r)) = s + 1
      /\ toServer \in Seq(Request) /\ toBot \in Seq(Reply)
  BY <1>2 DEF Typed, TypeOK
<1>5. Recorded(toServer, Tail(toBot), Coming, named)
  BY <1>1, <1>4, RecordingHandled
<1>6. Recorded(toServer', toBot', Coming, named)
  BY <1>2, <1>3, <1>4, <1>5, RecordingPlain
<1>7. Unnumbered(toServer', toBot')
  <2>1. \A i \in DOMAIN toServer' :
          toServer'[i] = r \/ (i \in DOMAIN toServer /\ toServer'[i] = toServer[i])
    BY <1>2, <1>3, <1>4
  <2>2. \A i \in DOMAIN toBot' : i + 1 \in DOMAIN toBot /\ toBot'[i] = toBot[i + 1]
    BY <1>4
  <2> QED
    BY <1>1, <1>2, <2>1, <2>2 DEF Unnumbered
<1>8. Len(toServer') + Len(toBot') + Need(todo') + Unwritten("main")' + Unwritten("signal")' <= Wrap
  <2>1. Unwritten("main")' = m /\ Unwritten("signal")' = g /\ Need(todo') = n
    BY DEF Unwritten
  <2> QED
    BY <1>1, <1>3, <1>4, <2>1
<1>9. Room'
  BY <1>1, <1>8, NeedOfNothing DEF Room, Alone, Logins
<1> QED
  BY <1>3, <1>6, <1>7, <1>9, LinkCounted

(* An answer is read. *)
LEMMA HandledCounted ==
  ASSUME Typed, Counted, HandleReply
  PROVE  Counted'
<1>1. /\ Up /\ link = "on" /\ todo = <<>> /\ toBot # <<>> /\ toBot' = Tail(toBot)
      /\ UNCHANGED <<process, crossed, todo, number, named, sending, toServer, link>>
  BY DEF HandleReply, Idle, botVars, numbers
<1> SUFFICES ASSUME ~crossed PROVE Counted'
  BY <1>1 DEF Counted
<1> PICK s \in Nat, b \in Nat, n \in Nat, m \in {0, 1}, g \in {0, 1} :
           /\ s = Len(toServer) /\ b = Len(toBot) /\ n = Need(todo)
           /\ m = Unwritten("main") /\ g = Unwritten("signal")
  BY Lengths
<1>2. /\ Room /\ Recorded(toServer, toBot, Coming, named)
      /\ s + b + n + m + g <= Wrap /\ Wrap \in Nat
  BY <1>1, NumbersAssumption DEF Counted, Room
<1>3. toBot \in Seq(Reply) /\ Len(toBot') = b - 1 /\ b > 0
  BY <1>1 DEF Typed, TypeOK
<1>4. Recorded(toServer', toBot', Coming, named)
  BY <1>1, <1>2, <1>3, RecordingHandled
<1>5. Len(toServer') + Len(toBot') + Need(todo') + Unwritten("main")' + Unwritten("signal")' <= Wrap
  <2>1. Unwritten("main")' = m /\ Unwritten("signal")' = g /\ Need(todo') = n
    BY <1>1 DEF Unwritten
  <2>2. Len(toServer') = s /\ Len(toBot') = b - 1
    BY <1>1, <1>3
  <2>3. s + (b - 1) + n + m + g <= Wrap
    BY <1>2
  <2> QED
    BY <2>1, <2>2, <2>3
<1>6. Room'
  BY <1>1, <1>5, NeedOfNothing DEF Room, Alone, Logins
<1> QED
  BY <1>1, <1>4, <1>6, LinkCounted

(* The error is logged under its command's name. *)
LEMMA HandledNamed ==
  ASSUME Typed, Counted, ~misnamed, ~crossed, HandleReply
  PROVE  ~misnamed'
<1> DEFINE a == Head(toBot)
<1>1. /\ 1 \in DOMAIN toBot /\ a = toBot[1]
      /\ Recorded(toServer, toBot, Coming, named)
  BY DEF HandleReply, Idle, Counted, Typed, TypeOK
<1>2. NameFor(a) = a.cause
  BY <1>1 DEF Recorded, NameFor
<1>3. misnamed' = misnamed \/ misnamed' = (misnamed \/ NameFor(a) # a.cause)
  BY DEF HandleReply
<1> QED
  BY <1>2, <1>3

(* The session is lost, or nothing comes of a new one. *)
LEMMA LostCounted ==
  ASSUME Typed, Counted, LoseSession \/ LoginLost
  PROVE  Counted'
<1>1. /\ toBot' = <<>> /\ toServer' = <<>> /\ link' \in {"lost", "off"}
      /\ UNCHANGED <<process, crossed, number, named, sending, todo>>
  BY DEF LoseSession, LoginLost, Idle, botVars, numbers, history
<1> SUFFICES ASSUME Up, ~crossed PROVE Counted'
  BY <1>1 DEF Counted, Up
<1>2. /\ todo = <<>> /\ sending["main"].stage = "none"
  BY DEF LoseSession, LoginLost, Idle, Counted, Room, Alone
<1>3. Unwritten("main")' = 0 /\ Unwritten("signal")' \in {0, 1} /\ Need(todo') = 0
  BY <1>1, <1>2, NeedOfNothing DEF Unwritten
<1>4. Len(toServer') + Len(toBot') + Need(todo') + Unwritten("main")' + Unwritten("signal")' <= Wrap
  <2>1. Len(toServer') = 0 /\ Len(toBot') = 0 /\ Wrap \in Nat \ {0, 1}
    BY <1>1, NumbersAssumption
  <2> QED
    BY <1>3, <2>1
<1>5. Room'
  BY <1>1, <1>2, <1>4, NeedOfNothing DEF Room, Alone
<1> QED
  BY <1>1, <1>5, EmptyRecorded, LinkCounted

LEMMA RedialCounted ==
  ASSUME Typed, Counted, Redial
  PROVE  Counted'
<1> DEFINE r == Bare("nick", own["nick"])
<1>1. /\ Up /\ link = "lost" /\ link' \in {"off", "nick"}
      /\ toServer' = toServer \/ toServer' = <<r>>
      /\ UNCHANGED <<process, crossed, number, named, sending, todo, toBot>>
  BY DEF Redial, botVars, numbers, history
<1> SUFFICES ASSUME ~crossed PROVE Counted'
  BY <1>1 DEF Counted
<1>2. /\ todo = <<>> /\ sending["main"].stage = "none" /\ toServer = <<>> /\ toBot = <<>>
  BY <1>1 DEF Counted, Room, Alone
<1>3. Unwritten("main")' = 0 /\ Unwritten("signal")' \in {0, 1} /\ Need(todo') = 0
  BY <1>1, <1>2, NeedOfNothing DEF Unwritten
<1>4. r \in Request /\ r.number = NoNumber
  BY NamesOfCommands, BareTyped DEF Tagged, Bare, Typed, TypeOK, Identity
<1> HIDE DEF r
<1>5. Append(<<>>, r) = <<r>> /\ Len(<<r>>) = 1 /\ Len(<<>>) = 0
  OBVIOUS
<1>6. Recorded(toServer', toBot', Coming, named) /\ Unnumbered(toServer', toBot')
  <2>1. Recorded(Append(<<>>, r), <<>>, Coming, named)
    BY <1>4, EmptyTyped, EmptyRecorded, RecordingPlain
  <2>2. Unnumbered(<<r>>, <<>>)
    BY <1>4 DEF Unnumbered
  <2> QED
    BY <1>1, <1>2, <1>5, <2>1, <2>2, EmptyRecorded
<1>7. Len(toServer') + Len(toBot') + Need(todo') + Unwritten("main")' + Unwritten("signal")' <= Wrap
  <2>1. Len(toServer') \in {0, 1} /\ Len(toBot') = 0 /\ Wrap \in Nat \ {0, 1}
    BY <1>1, <1>2, <1>5, NumbersAssumption
  <2>2. \A a, g \in {0, 1} : a + 0 + 0 + 0 + g <= Wrap
    BY <2>1
  <2> QED
    BY <1>3, <2>1, <2>2
<1>8. Room'
  BY <1>1, <1>2, <1>7, NeedOfNothing DEF Room, Alone
<1> QED
  BY <1>1, <1>6, <1>8, LinkCounted

LEMMA SessionCounted ==
  ASSUME Typed, Counted, Session
  PROVE  Counted'
<1>0. /\ own["nick"] \in Values /\ own["status"] \in Values /\ own["icon"] \in Values
      /\ NoValue \in Values
  BY ValuesAssumption DEF Typed, TypeOK, Identity
<1>1. CASE HandleReply
  BY <1>1, HandledCounted
<1>2. CASE HandleInfo \/ Exit \/ LoginRefused
  BY <1>2 DEF HandleInfo, Exit, LoginRefused, Crash, Up, Counted
<1>3. CASE LoseSession \/ LoginLost
  BY <1>3, LostCounted
<1>4. CASE Redial
  BY <1>4, RedialCounted
<1>5. CASE LoginStatus \/ LoginIcon \/ LoginSend \/ LoginDone
  <2>1. /\ Up /\ link \in Logins /\ UNCHANGED <<crossed, number, named, sending, todo>>
        /\ toBot # <<>> /\ toBot' = Tail(toBot) /\ link' \in Logins \cup {"opening"}
    BY <1>5 DEF LoginStatus, LoginIcon, LoginSend, LoginDone, Answered, Logins, numbers, history
  <2>2. \E name \in Names \cup {"login", "join_chat"}, value \in Values : Write(Bare(name, value))
    BY <1>0, <1>5, NamesOfCommands DEF LoginStatus, LoginIcon, LoginSend, LoginDone
  <2> QED
    BY <2>1, <2>2, LoginCounted
<1>6. CASE Opened
  <2>1. /\ link = "opening" /\ link' = "on"
        /\ UNCHANGED <<process, crossed, todo, number, named, sending, toServer, toBot>>
    BY <1>6 DEF Opened, botVars, numbers, history
  <2>2. Up /\ ~crossed => Room'
    BY <2>1 DEF Counted, Room, Alone, Unwritten, Logins
  <2> QED
    BY <2>1, <2>2, LinkCounted DEF Counted
<1> QED
  BY <1>1, <1>2, <1>3, <1>4, <1>5, <1>6 DEF Session

LEMMA ServeCounted ==
  ASSUME Typed, Counted, Serve
  PROVE  Counted' /\ UNCHANGED <<misnamed, crossed>>
<1> DEFINE r == Head(toServer)
<1>1. /\ Up /\ toServer # <<>> /\ toServer' = Tail(toServer) /\ r \in Tagged
      /\ toServer \in Seq(Request) /\ toBot \in Seq(Reply)
      /\ UNCHANGED <<process, crossed, todo, number, named, sending, link, misnamed>>
  BY DEF Serve, botVars, numbers, history, Typed, TypeOK
<1> SUFFICES ASSUME ~crossed PROVE Counted'
  BY <1>1 DEF Counted
<1> PICK s \in Nat, b \in Nat, n \in Nat, m \in {0, 1}, g \in {0, 1} :
           /\ s = Len(toServer) /\ b = Len(toBot) /\ n = Need(todo)
           /\ m = Unwritten("main") /\ g = Unwritten("signal")
  BY Lengths
<1>2. /\ Room /\ Recorded(toServer, toBot, Coming, named)
      /\ link # "on" => Unnumbered(toServer, toBot)
      /\ s + b + n + m + g <= Wrap /\ Wrap \in Nat
  BY <1>1, NumbersAssumption DEF Counted, Room
<1>3. PICK a : /\ toBot' = Append(toBot, a)
               /\ a.number = r.number
               /\ a.cause = IF r.number = NoNumber THEN "none" ELSE r.name
               /\ \E verdict \in Verdicts(r) :
                    a = [kind |-> verdict, number |-> r.number,
                         cause |-> IF r.number = NoNumber THEN "none" ELSE r.name]
  BY DEF Serve
<1>4. a \in Reply
  <2> HIDE DEF r
  <2>1. PICK verdict \in Verdicts(r) :
          a = [kind |-> verdict, number |-> r.number,
               cause |-> IF r.number = NoNumber THEN "none" ELSE r.name]
    BY <1>3
  <2>2. verdict \in {"okay", "error", "info"}
    BY <2>1 DEF Verdicts
  <2>3. r.number \in Number /\ (r.number = NoNumber \/ r.name \in Names)
    BY <1>1 DEF Tagged, Request
  <2> QED
    BY <2>1, <2>2, <2>3 DEF Reply
<1>5. Recorded(toServer', toBot', Coming, named)
  BY <1>1, <1>2, <1>3, <1>4, RecordingServed
<1>6. link' # "on" => Unnumbered(toServer', toBot')
  <2>1. \A i \in DOMAIN toServer' : i + 1 \in DOMAIN toServer /\ toServer'[i] = toServer[i + 1]
    BY <1>1
  <2>2. \A i \in DOMAIN toBot' : toBot'[i] = a \/ (i \in DOMAIN toBot /\ toBot'[i] = toBot[i])
    BY <1>1, <1>3, <1>4
  <2>3. 1 \in DOMAIN toServer /\ r = toServer[1]
    BY <1>1
  <2> QED
    BY <1>1, <1>2, <1>3, <2>1, <2>2, <2>3 DEF Unnumbered
<1>7. Len(toServer') + Len(toBot') + Need(todo') + Unwritten("main")' + Unwritten("signal")' <= Wrap
  <2>1. Len(toServer') = s - 1 /\ s > 0 /\ Len(toBot') = b + 1
    BY <1>1, <1>3, <1>4
  <2>2. Unwritten("main")' = m /\ Unwritten("signal")' = g /\ Need(todo') = n
    BY <1>1 DEF Unwritten
  <2> QED
    BY <1>2, <2>1, <2>2
<1>8. Room'
  BY <1>1, <1>2, <1>7 DEF Room, Alone
<1> QED
  BY <1>1, <1>5, <1>6, <1>8, LinkCounted

LEMMA HupCounted ==
  ASSUME Typed, Counted, Hup
  PROVE  Counted' /\ UNCHANGED <<misnamed, crossed>>
<1>1. /\ Up /\ sending["signal"].stage = "none" /\ ReloadIcon("signal") /\ Due + Burst <= Wrap
      /\ UNCHANGED <<process, crossed, todo, number, named, toServer, toBot, link, misnamed>>
      /\ "signal" \in Threads
  BY DEF Hup, netVars, history, Threads
<1>2. SendNothing \/ \E name, value : Make("signal", name, value)
  BY <1>1, IconMade
<1> SUFFICES ASSUME ~crossed PROVE Room'
  BY <1>1, <1>2, MakingCounted
<1> PICK s \in Nat, b \in Nat, n \in Nat, m \in {0, 1}, g \in {0, 1} :
           /\ s = Len(toServer) /\ b = Len(toBot) /\ n = Need(todo)
           /\ m = Unwritten("main") /\ g = Unwritten("signal")
  BY Lengths
<1> PICK l \in Nat : l = Len(todo)
  BY DEF Typed, TypeOK
<1>3. /\ Room /\ s + b + l + m + g + Burst <= Wrap /\ g = 0
  BY <1>1 DEF Counted, Due, Unwritten
<1>4. Burst \in Nat /\ Burst > 1 /\ Wrap \in Nat
  BY NumbersAssumption
<1>5. Unwritten("main")' = m /\ Unwritten("signal")' \in {0, 1}
      /\ sending'["main"] = sending["main"]
  <2>1. sending'["main"] = sending["main"]
    BY <1>2, TypedParts DEF SendNothing, Make, Threads
  <2> QED
    BY <2>1 DEF Unwritten
<1>6. s + b + n + m + 1 <= Wrap
  <2>1. CASE Loading(todo)
    <3>1. n = Burst /\ l = 1
      BY <1>3, <2>1 DEF Need, Room
    <3> QED
      BY <1>3, <1>4, <3>1
  <2>2. CASE ~Loading(todo)
    <3>1. n = l
      BY <2>2 DEF Need
    <3> QED
      BY <1>3, <1>4, <3>1
  <2> QED
    BY <2>1, <2>2
<1>7. Len(toServer') + Len(toBot') + Need(todo') + Unwritten("main")' + Unwritten("signal")' <= Wrap
  <2>1. Len(toServer') = s /\ Len(toBot') = b /\ Need(todo') = n
    BY <1>1
  <2> QED
    BY <1>4, <1>5, <1>6, <2>1
<1> QED
  BY <1>1, <1>3, <1>5, <1>7 DEF Room, Alone

(* A user is heard: what is answered has a number for each of its lines.    *)
LEMMA HearsCounted ==
  ASSUME Typed, Counted, NEW tasks \in Seq(Task), Hears(tasks), Need(tasks) <= Burst,
         Loading(tasks) => Len(tasks) = 1
  PROVE  Counted' /\ UNCHANGED <<misnamed, crossed>>
<1>1. /\ Up /\ todo = <<>> /\ todo' = tasks /\ link = "on" /\ Due + Burst <= Wrap
      /\ UNCHANGED <<process, crossed, number, named, sending, misnamed, toServer, toBot, link>>
  BY DEF Hears, Idle, botVars, netVars, numbers, history
<1> PICK s \in Nat, b \in Nat, n \in Nat, m \in {0, 1}, g \in {0, 1} :
           /\ s = Len(toServer) /\ b = Len(toBot) /\ n = Need(todo)
           /\ m = Unwritten("main") /\ g = Unwritten("signal")
  BY Lengths
<1>2. s + b + m + g + Burst <= Wrap /\ Burst \in Nat /\ Wrap \in Nat
  <2>1. Due = s + b + 0 + m + g
    BY <1>1 DEF Due
  <2> QED
    BY <1>1, <2>1, NumbersAssumption
<1>3. Len(toServer') + Len(toBot') + Need(todo') + Unwritten("main")' + Unwritten("signal")' <= Wrap
  <2>1. Need(tasks) \in Nat
    BY NeedTyped
  <2>2. Unwritten("main")' = m /\ Unwritten("signal")' = g
    BY <1>1 DEF Unwritten
  <2> QED
    BY <1>1, <1>2, <2>1, <2>2
<1>4. Room'
  BY <1>1, <1>3 DEF Room, Alone, Logins
<1> QED
  BY <1>1, <1>4, LinkCounted DEF Counted

(* The lines of an answer load a file only if its texts do. *)
LEMMA LoadingText ==
  ASSUME NEW kind \in Kinds, NEW text \in Text, NEW nick, Loads(LineFor(kind, text, nick))
  PROVE  LoadsFile(text)
<1>1. Lookup("me") = "me" /\ Lookup("msg") = "msg" /\ Lookup("broadcast") = "broadcast"
  BY NamesFound, NamesOfCommands
<1>2. \A n \in {"me", "msg", "broadcast"} : \A k, v : ~LoadsFile(Slash(n, k, v))
  BY <1>1 DEF LoadsFile, Slash
<1>3. \A c, t : Parse(c, t).text = t
  BY DEF Parse
<1>4. CASE kind \in {"say", "other"}
  <2>1. LineFor(kind, text, nick).text = text
    BY <1>3, <1>4 DEF LineFor
  <2> QED
    BY <2>1 DEF Loads
<1>5. CASE kind = "me"
  <2>1. LineFor(kind, text, nick).text = Slash("me", 1, NoValue)
    BY <1>3, <1>5 DEF LineFor
  <2> QED
    BY <1>2, <2>1 DEF Loads
<1>6. CASE kind = "message"
  <2>1. LineFor(kind, text, nick).text = Slash("msg", 2, nick)
    BY <1>3, <1>6 DEF LineFor
  <2> QED
    BY <1>2, <2>1 DEF Loads
<1>7. CASE kind = "broadcast"
  <2>1. LineFor(kind, text, nick).text = Slash("broadcast", 1, NoValue)
    BY <1>3, <1>7 DEF LineFor
  <2> QED
    BY <1>2, <2>1 DEF Loads
<1> QED
  BY <1>4, <1>5, <1>6, <1>7 DEF Kinds

LEMMA TalkCounted ==
  ASSUME LoadsAlone, Typed, Counted, HearTalk
  PROVE  Counted' /\ UNCHANGED <<misnamed, crossed>>
<1>1. PICK a \in Answers, nick \in Present :
        Hears([i \in DOMAIN a.texts |-> LineFor(a.kind, a.texts[i], nick)])
  BY DEF HearTalk
<1> DEFINE texts == a.texts
           lines == [i \in DOMAIN texts |-> LineFor(a.kind, texts[i], nick)]
<1>2. /\ texts \in Seq(Text) /\ Len(texts) <= Burst /\ a.kind \in Kinds /\ nick \in Values
      /\ \A i \in DOMAIN texts : LoadsFile(texts[i]) => Len(texts) = 1
  BY TextsAssumption, ValuesAssumption DEF LoadsAlone
<1>3. Hears(lines)
  BY <1>1
<1> HIDE DEF texts
<1>4. /\ Len(texts) \in Nat /\ DOMAIN texts = 1..Len(texts)
      /\ \A i \in 1..Len(texts) : texts[i] \in Text
  BY <1>2
<1>5. lines \in [1..Len(texts) -> Task]
  BY <1>2, <1>4, LineIsTyped DEF Task
<1>6. Loading(lines) => Len(texts) = 1
  BY <1>2, <1>4, LoadingText DEF Loading
<1> HIDE DEF lines
<1>7. lines \in Seq(Task) /\ Len(lines) = Len(texts)
  BY <1>4, <1>5
<1>8. Need(lines) <= Burst
  BY <1>2, <1>7, <1>4, NumbersAssumption DEF Need
<1> QED
  BY <1>3, <1>6, <1>7, <1>8, HearsCounted

(* The answers of the bot's own commands. *)
LEMMA OwnLines ==
  ASSUME NEW chat \in BOOLEAN, NEW word \in Words, Lookup(word) # "load",
         NEW n \in 0..2, NEW value \in Values
  PROVE  LET line == Parse(chat, Slash(word, n, value))
         IN  line \in Task /\ ~Loads(line)
<1>1. ~LoadsFile(Slash(word, n, value))
  BY DEF LoadsFile, Slash
<1>2. Parse(chat, Slash(word, n, value)).text = Slash(word, n, value)
  BY DEF Parse
<1> QED
  BY <1>1, <1>2, SlashTyped DEF Loads

LEMMA OneLine ==
  ASSUME Typed, Counted, NEW line \in Task, ~Loads(line), Hears(<<line>>)
  PROVE  Counted' /\ UNCHANGED <<misnamed, crossed>>
<1> DEFINE lines == <<line>>
<1>1. lines \in Seq(Task) /\ Len(lines) = 1 /\ \A i \in DOMAIN lines : lines[i] = line
  OBVIOUS
<1>2. Hears(lines)
  OBVIOUS
<1> HIDE DEF lines
<1>3. ~Loading(lines) /\ Need(lines) <= Burst
  BY <1>1, NumbersAssumption DEF Loading, Need
<1> QED
  BY <1>1, <1>2, <1>3, HearsCounted

LEMMA TwoLines ==
  ASSUME Typed, Counted, NEW a \in Task, ~Loads(a), NEW b \in Task, ~Loads(b), Hears(<<a, b>>)
  PROVE  Counted' /\ UNCHANGED <<misnamed, crossed>>
<1> DEFINE lines == <<a, b>>
<1>1. lines \in Seq(Task) /\ Len(lines) = 2 /\ \A i \in DOMAIN lines : lines[i] \in {a, b}
  OBVIOUS
<1>2. Hears(lines)
  OBVIOUS
<1> HIDE DEF lines
<1>3. ~Loading(lines) /\ Need(lines) <= Burst
  BY <1>1, NumbersAssumption DEF Loading, Need
<1> QED
  BY <1>1, <1>2, <1>3, HearsCounted

LEMMA WorldCounted ==
  ASSUME LoadsAlone, Typed, Counted, World
  PROVE  Counted' /\ UNCHANGED <<misnamed, crossed>>
<1>0. /\ "nick" \in Words /\ "status" \in Words /\ "me" \in Words
      /\ Lookup("nick") # "load" /\ Lookup("status") # "load" /\ Lookup("me") # "load"
      /\ Nicks \subseteq Values /\ Statuses \subseteq Values /\ NoValue \in Values
      /\ 0 \in 0..2 /\ 1 \in 0..2 /\ TRUE \in BOOLEAN /\ FALSE \in BOOLEAN
  BY NamesOfCommands, NamesFound, ValuesAssumption
<1>1. CASE HearNick
  <2>1. PICK nick \in Nicks : Hears(<<Parse(FALSE, Slash("nick", 1, nick))>>)
    BY <1>1 DEF HearNick
  <2> DEFINE line == Parse(FALSE, Slash("nick", 1, nick))
  <2>2. line \in Task /\ ~Loads(line)
    BY <1>0, OwnLines, Zenon
  <2> HIDE DEF line
  <2>3. Hears(<<line>>)
    BY <2>1 DEF line
  <2> QED
    BY <2>2, <2>3, OneLine
<1>2. CASE HearStatus
  <2>1. PICK value \in Values, n \in {0, 1} : Hears(<<Parse(FALSE, Slash("status", n, value))>>)
    BY <1>0, <1>2 DEF HearStatus
  <2> DEFINE line == Parse(FALSE, Slash("status", n, value))
  <2>2. n \in 0..2
    OBVIOUS
  <2>3. line \in Task /\ ~Loads(line)
    BY <1>0, <2>2, OwnLines, Zenon
  <2> HIDE DEF line
  <2>4. Hears(<<line>>)
    BY <2>1 DEF line
  <2> QED
    BY <2>3, <2>4, OneLine
<1>3. CASE HearReload
  <2> DEFINE again == [job |-> "reload"]
             said  == Parse(TRUE, Slash("me", 1, NoValue))
  <2>1. again \in Task /\ ~Loads(again)
    BY DEF Task, Loads
  <2>2. said \in Task /\ ~Loads(said)
    BY <1>0, OwnLines, Zenon
  <2>3. Hears(<<again>>) \/ Hears(<<again, said>>)
    BY <1>3 DEF HearReload
  <2> HIDE DEF again, said
  <2> QED
    BY <2>1, <2>2, <2>3, OneLine, TwoLines
<1>4. CASE DiskChange \/ Drop
  <2>1. /\ UNCHANGED <<process, crossed, number, named, misnamed, sending>>
        /\ UNCHANGED <<todo, toServer, toBot, link>>
    BY <1>4 DEF DiskChange, Drop, botVars, numbers, history, netVars
  <2> QED
    BY <2>1, SameCounted
<1> QED
  BY <1>1, <1>2, <1>3, <1>4, TalkCounted DEF World

LEMMA SignalCounted ==
  ASSUME Typed, Counted, Signal
  PROVE  Counted' /\ UNCHANGED misnamed
<1>1. "signal" \in Threads
  BY DEF Threads
<1>2. CASE Terminate
  <2>1. Close /\ UNCHANGED <<process, crossed, number, named, sending, todo, misnamed>>
    BY <1>2 DEF Terminate, numbers, history
  <2> QED
    BY <2>1, ClosedCounted
<1> QED
  BY <1>1, <1>2, HupCounted, SendCounted DEF Signal

(* A cross of the two threads is remembered. *)
LEMMA CrossedStays ==
  ASSUME Typed, crossed, [Next]_vars
  PROVE  crossed'
<1>1. \A t : Take(t) => crossed'
  BY DEF Take
<1>2. UNCHANGED crossed \/ Take("main") \/ Take("signal")
  <2>1. CASE Handle
    BY <2>1 DEF Handle, GiveWord, Drops, PrintUsage, Ask, AskAbout, AskAboutNobody,
       UsersForgotten, Set, SetIcon, SetIconFails, Show, Load, LoadFails, Quit, Disconnect, Reload,
       Put, Count, history
  <2>2. CASE Session
    BY <2>2 DEF Session, HandleReply, HandleInfo, Exit, LoseSession, Redial, LoginStatus,
       LoginIcon, LoginSend, LoginDone, Opened, LoginRefused, LoginLost, history
  <2>3. CASE Signal \/ Serve \/ World
    BY <2>3 DEF Signal, Hup, Terminate, Put, Count, Serve, World, HearTalk, HearNick, HearStatus,
       HearReload, Hears, DiskChange, Drop, history
  <2> QED
    BY <2>1, <2>2, <2>3 DEF Next, Bot, vars, history
<1> QED
  BY <1>1, <1>2

LEMMA CountedKept == LoadsAlone /\ Typed /\ Said /\ Counted /\ [Next]_vars => Counted'
<1>1. UNCHANGED vars =>
        UNCHANGED <<process, crossed, number, named, todo, toServer, toBot, link, sending>>
  BY DEF vars, botVars, numbers, history, netVars
<1> QED
  BY <1>1, SameCounted, HandleCounted, SessionCounted, SignalCounted, ServeCounted, WorldCounted
     DEF Next, Bot

LEMMA NamedKept ==
  ASSUME LoadsAlone, Typed, Said, Counted, ErrorsAreNamed, [Next]_vars
  PROVE  ErrorsAreNamed'
<1> SUFFICES ASSUME ~crossed, ~misnamed PROVE ~misnamed'
  BY CrossedStays DEF ErrorsAreNamed
<1>1. UNCHANGED vars => UNCHANGED misnamed
  BY DEF vars, history
<1>2. Session => UNCHANGED misnamed \/ HandleReply
  BY DEF Session, HandleInfo, Exit, LoseSession, Redial, LoginStatus, LoginIcon, LoginSend,
     LoginDone, Opened, LoginRefused, LoginLost, history
<1> QED
  BY <1>1, <1>2, HandleCounted, HandledNamed, SignalCounted, ServeCounted, WorldCounted
     DEF Next, Bot

LEMMA InitCounted == Init => Counted /\ ErrorsAreNamed
<1> SUFFICES ASSUME Init PROVE Counted /\ ErrorsAreNamed
  OBVIOUS
<1> DEFINE r == [value |-> NoValue, name |-> "join_chat", number |-> NoNumber]
<1>1. /\ toServer = Append(<<>>, r) /\ toBot = <<>> /\ todo = <<>>
      /\ link = "on" /\ ~misnamed
      /\ \A t \in Threads : sending[t].stage = "none"
  BY DEF Init, Nothing
<1>2. r \in Request /\ r.number = NoNumber
  BY ValuesAssumption DEF Request, Number
<1> HIDE DEF r
<1>3. Recorded(toServer, toBot, Coming, named)
  BY <1>1, <1>2, EmptyTyped, EmptyRecorded, RecordingPlain
<1>4. Len(toServer) = 1 /\ Len(toBot) = 0
  BY <1>1
<1>5. Unwritten("main") = 0 /\ Unwritten("signal") = 0
  BY <1>1 DEF Unwritten, Threads
<1>6. Len(toServer) + Len(toBot) + Need(todo) + Unwritten("main") + Unwritten("signal") <= Wrap
  BY <1>1, <1>4, <1>5, NeedOfNothing, NumbersAssumption
<1>7. OneAtATime
  BY <1>1 DEF OneAtATime, Numbered
<1> QED
  BY <1>1, <1>3, <1>6, <1>7, NeedOfNothing DEF Counted, Room, Alone, Logins, ErrorsAreNamed

(* wr_commands_transaction and wr_commands_transactions: an error is logged  *)
(* under the name of the command that caused it, over losses of the session, *)
(* logins, and reloads by the signal thread, as long as no more requests are *)
(* unanswered than there are numbers and the two threads were never in       *)
(* wr_commands_send_message at once, both with a number.                     *)
THEOREM ErrorsKeepTheirName == LoadsAlone /\ Spec => []ErrorsAreNamed
<1>1. SUFFICES ASSUME LoadsAlone PROVE Spec => []ErrorsAreNamed
  OBVIOUS
<1>2. Init => Said
  <2>1. DOMAIN <<>> = {}
    OBVIOUS
  <2> QED
    BY <2>1 DEF Init, Said, Parted, Prefixed
<1>3. Typed /\ Said /\ Counted /\ [Next]_vars => Counted'
  BY <1>1, CountedKept
<1>4. Typed /\ Said /\ Counted /\ ErrorsAreNamed /\ [Next]_vars => ErrorsAreNamed'
  BY <1>1, NamedKept
<1> QED
  BY <1>2, <1>3, <1>4, InitCounted, InitTyped, TypedKept, SaidKept, PTL DEF Spec
=============================================================================
