---------------------------- MODULE EngineProofs ----------------------------
(* Proofs about Engine, for every dictionary and any number of users. *)
EXTENDS Engine, TLAPS

(* The copies of an output are outputs, at least one and at most MaxRepeat. *)
LEMMA OweTyped ==
  ASSUME NEW o \in Output
  PROVE  Owe(o) \in Seq(Output) /\ Len(Owe(o)) <= MaxRepeat
<1>1. Times(o) \in 1..MaxRepeat
  BY RepeatAssumption DEF Output, Times
<1>2. Owe(o) \in [1..Times(o) -> Output]
  BY DEF Owe
<1> QED
  BY <1>1, <1>2, RepeatAssumption

(* So is what a command owes, in whatever way it is asked for. *)
LEMMA ReplyTyped ==
  ASSUME NEW outputs \in SUBSET Output, NEW kind \in {"say", "message"},
         Reply(outputs, kind)
  PROVE  owed' \in Seq(Output) /\ Len(owed') <= MaxRepeat
<1>1. ASSUME NEW o \in outputs, owed' = Owe([o EXCEPT !.kind = kind])
      PROVE  owed' \in Seq(Output) /\ Len(owed') <= MaxRepeat
  <2>1. [o EXCEPT !.kind = kind] \in Output
    BY DEF Output
  <2> QED
    BY <1>1, <2>1, OweTyped
<1>2. CASE owed' = <<>>
  BY <1>2, RepeatAssumption
<1> QED
  BY <1>1, <1>2 DEF Reply

(* What is loaded is made of rules and commands of a file. *)
LEMMA LoadedTyped ==
  ASSUME loaded \in {Contents[f] : f \in Files}
  PROVE  loaded.rules \in Seq(Rule) /\ loaded.commands \in Seq(Command)
BY FilesAssumption

LEMMA FileTyped ==
  ASSUME file \in Files
  PROVE  Contents[file] \in {Contents[f] : f \in Files} /\ Good[file] \in BOOLEAN
BY DEF Good, Loads

(* A message that is taken is one, and what stays is a queue of them. *)
LEMMA TakeTyped ==
  ASSUME TypeOK, Take
  PROVE  /\ Head(inbox) \in Message
         /\ inbox' \in Seq(Message)
         /\ handled' \in Nat
BY DEF TypeOK, Take

(* A command that is called was called in a chat or in a private message. *)
LEMMA CalledBySpeech ==
  ASSUME TypeOK, NEW i \in DOMAIN loaded.commands, TakeCommand(i)
  PROVE  /\ Head(inbox).kind \in {"say", "message"}
         /\ loaded.commands[i].outputs \in SUBSET Output
<1>1. loaded.commands[i].name = Name(Head(inbox))
  BY DEF TakeCommand, First, Commanded
<1>2. loaded.commands[i].name # NoName
  BY NoNameAssumption DEF TypeOK
<1>3. Head(inbox).kind \in {"say", "message"}
  BY <1>1, <1>2 DEF Name
<1>4. loaded.commands[i] \in Command
  BY LoadedTyped DEF TypeOK
<1> QED
  BY <1>3, <1>4 DEF Command

-----------------------------------------------------------------------------
(* The two halves of the invariant travel together: that an output is typed *)
(* bounds its repeat, and with it what is owed for one message.             *)
IInv == TypeOK /\ AnswersAreBounded

(* A message of a user that is taken pays for MaxRepeat outputs. *)
LEMMA TakePays ==
  ASSUME IInv, Take, ~Own(Head(inbox)), owed' \in Seq(Output), Len(owed') <= MaxRepeat
  PROVE  AnswersAreBounded'
<1>1. said \in Nat /\ handled \in Nat /\ MaxRepeat \in Nat /\ Len(owed') \in Nat
  BY RepeatAssumption DEF IInv, TypeOK
<1>2. said <= MaxRepeat * handled
  <2>1. said + Len(owed) <= MaxRepeat * handled /\ Len(owed) = 0
    BY DEF IInv, AnswersAreBounded, Take
  <2> QED
    BY <1>1, <2>1
<1>3. said' = said /\ handled' = handled + 1
  BY DEF Take, Own
<1>4. MaxRepeat * (handled + 1) = MaxRepeat * handled + MaxRepeat
  BY <1>1
<1>5. MaxRepeat * handled \in Nat
  BY <1>1
<1> QED
  BY <1>1, <1>2, <1>3, <1>4, <1>5 DEF AnswersAreBounded

LEMMA RunKeeps ==
  ASSUME IInv, NEW i \in DOMAIN loaded.commands, Run(i)
  PROVE  IInv'
<1> USE DEF IInv
<1>1. TakeCommand(i)
  BY DEF Run, RunReload, RunStart, RunStop, RunHelp, RunOther
<1>2. Take /\ ~Own(Head(inbox))
  BY <1>1 DEF TakeCommand
<1>3. /\ Head(inbox) \in Message
      /\ inbox' \in Seq(Message)
      /\ handled' \in Nat
  BY <1>2, TakeTyped
<1>4. /\ Head(inbox).kind \in {"say", "message"}
      /\ loaded.commands[i].outputs \in SUBSET Output
  BY <1>1, CalledBySpeech
<1>5. ASSUME Reply(loaded.commands[i].outputs, Head(inbox).kind)
      PROVE  owed' \in Seq(Output) /\ Len(owed') <= MaxRepeat
  BY <1>4, <1>5, ReplyTyped
<1>6. ASSUME NEW kind \in {"say", "me", "message"}, NEW text \in Texts,
             owed' = <<[kind |-> kind, text |-> text, repeat |-> 0]>>
      PROVE  owed' \in Seq(Output) /\ Len(owed') <= MaxRepeat
  <2>1. [kind |-> kind, text |-> text, repeat |-> 0] \in Output
    BY RepeatAssumption DEF Output
  <2> QED
    BY <1>6, <2>1, RepeatAssumption
<1>7. owed' \in Seq(Output) /\ Len(owed') <= MaxRepeat
  BY <1>4, <1>5, <1>6, TextsAssumption
     DEF Run, RunReload, RunStart, RunStop, RunHelp, RunOther
<1>8. AnswersAreBounded'
  BY <1>2, <1>7, TakePays
<1>9. /\ loaded' \in {Contents[f] : f \in Files}
      /\ xmlHeld' \in BOOLEAN
      /\ started' \in BOOLEAN
      /\ stopping' \in BOOLEAN
      /\ undefined' \in BOOLEAN
  BY FileTyped DEF TypeOK, Run, RunReload, RunStart, RunStop, RunHelp, RunOther, Reload
<1>10. UNCHANGED <<file, status, messages, edits, hangups, said>>
  BY <1>2 DEF Take, budget
<1> QED
  BY <1>3, <1>7, <1>8, <1>9, <1>10 DEF TypeOK

LEMMA RuleKeeps ==
  ASSUME IInv, NEW i \in DOMAIN loaded.rules, AnswerByRule(i)
  PROVE  IInv'
<1> USE DEF IInv
<1>1. Take /\ ~Own(Head(inbox))
  BY DEF AnswerByRule
<1>2. \A j \in DOMAIN loaded.rules : loaded.rules[j].outputs \in SUBSET Output
  <2>1. loaded.rules \in Seq(Rule)
    BY LoadedTyped DEF TypeOK
  <2>2. \A j \in DOMAIN loaded.rules : loaded.rules[j] \in Rule
    BY <2>1
  <2> QED
    BY <2>2 DEF Rule
<1>3. ASSUME NEW j \in DOMAIN loaded.rules, NEW o \in loaded.rules[j].outputs,
             owed' = Owe(o)
      PROVE  owed' \in Seq(Output) /\ Len(owed') <= MaxRepeat
  BY <1>2, <1>3, OweTyped
<1>4. ASSUME owed' = <<>>
      PROVE  owed' \in Seq(Output) /\ Len(owed') <= MaxRepeat
  BY <1>4, RepeatAssumption
<1>5. owed' \in Seq(Output) /\ Len(owed') <= MaxRepeat
  BY <1>3, <1>4, RepeatAssumption DEF AnswerByRule
<1>6. AnswersAreBounded'
  BY <1>1, <1>5, TakePays
<1>7. inbox' \in Seq(Message) /\ handled' \in Nat
  BY <1>1, TakeTyped
<1>8. UNCHANGED <<file, status, messages, edits, hangups, said>>
  BY <1>1 DEF Take, budget
<1> QED
  BY <1>5, <1>6, <1>7, <1>8 DEF TypeOK, AnswerByRule

(* A message that is not answered pays for outputs all the same. *)
LEMMA SilenceKeeps ==
  ASSUME IInv, IgnoreOwn \/ StaySilent
  PROVE  IInv'
<1> USE DEF IInv
<1>1. Take /\ owed' = <<>>
  BY DEF IgnoreOwn, StaySilent, Take
<1>2. inbox' \in Seq(Message) /\ handled' \in Nat
  BY <1>1, TakeTyped
<1>3. UNCHANGED <<file, status, messages, edits, hangups, said>>
  BY <1>1 DEF Take, budget
<1>4. CASE IgnoreOwn
  BY <1>1, <1>2, <1>3, <1>4 DEF IgnoreOwn, Own, Take, TypeOK, AnswersAreBounded
<1>5. CASE StaySilent
  <2>1. owed' \in Seq(Output) /\ Len(owed') <= MaxRepeat
    BY <1>1, RepeatAssumption
  <2>2. AnswersAreBounded'
    BY <1>1, <1>5, <2>1, TakePays DEF StaySilent
  <2> QED
    BY <1>2, <1>3, <1>5, <2>1, <2>2 DEF StaySilent, TypeOK
<1> QED
  BY <1>4, <1>5

LEMMA EmitKeeps ==
  ASSUME IInv, Emit
  PROVE  IInv'
<1> USE DEF IInv
<1>1. Head(owed) \in Output /\ owed' \in Seq(Output) /\ Len(owed') = Len(owed) - 1
  BY DEF TypeOK, Emit
<1>2. said' \in Nat /\ said' <= said + 1
  BY DEF TypeOK, Emit
<1>3. inbox' \in Seq(Message)
  <2>1. [user |-> Self, kind |-> Head(owed).kind, text |-> Head(owed).text] \in Message
        \/ Head(owed).kind \notin {"say", "me", "broadcast"}
    BY <1>1 DEF Output, Message, Uids, Kinds
  <2> QED
    BY <2>1 DEF TypeOK, Emit
<1>4. AnswersAreBounded'
  <2>1. said \in Nat /\ handled \in Nat /\ MaxRepeat * handled \in Nat /\ Len(owed) \in Nat
    BY RepeatAssumption DEF TypeOK
  <2>2. said + Len(owed) <= MaxRepeat * handled
    BY DEF AnswersAreBounded
  <2>3. handled' = handled
    BY DEF Emit
  <2> QED
    BY <1>1, <1>2, <2>1, <2>2, <2>3 DEF AnswersAreBounded
<1> QED
  BY <1>1, <1>2, <1>3, <1>4 DEF TypeOK, Emit, budget

LEMMA OthersKeep ==
  ASSUME IInv, Finish \/ Crash \/ Hangup \/ World \/ UNCHANGED vars
  PROVE  IInv'
<1> USE DEF IInv
<1>1. CASE Finish
  BY <1>1 DEF Finish, TypeOK, AnswersAreBounded, budget
<1>2. CASE Crash
  BY <1>2 DEF Crash, TypeOK, AnswersAreBounded, budget
<1>3. CASE Hangup
  <2>1. undefined' \in BOOLEAN
    BY <1>3 DEF Hangup, TypeOK
  <2> QED
    BY <1>3, <2>1, FileTyped DEF Hangup, Reload, TypeOK, AnswersAreBounded
<1>4. CASE World
  <2>1. ASSUME NEW u \in Users, NEW w \in Utterances, Speak(u, w[1], w[2])
        PROVE  IInv'
    <3>1. [user |-> u, kind |-> w[1], text |-> w[2]] \in Message
      BY UttersAssumption DEF Message, Uids
    <3> QED
      BY <2>1, <3>1 DEF Speak, TypeOK, AnswersAreBounded
  <2>2. ASSUME NEW f \in Files, Edit(f)
        PROVE  IInv'
    BY <2>2 DEF Edit, TypeOK, AnswersAreBounded
  <2> QED
    BY <1>4, <2>1, <2>2 DEF World
<1>5. CASE UNCHANGED vars
  BY <1>5 DEF vars, budget, TypeOK, AnswersAreBounded
<1> QED
  BY <1>1, <1>2, <1>3, <1>4, <1>5

LEMMA Initially == Init => IInv
<1> SUFFICES ASSUME Init PROVE IInv
  OBVIOUS
<1>1. TypeOK
  <2>1. file \in Files /\ loaded \in {Contents[f] : f \in Files}
    BY DEF Init
  <2>2. inbox \in Seq(Message) /\ owed \in Seq(Output)
    BY DEF Init
  <2>3. /\ {xmlHeld, started, stopping, undefined} \subseteq BOOLEAN
        /\ status \in {"running", "crashed"}
    BY DEF Init
  <2>4. /\ messages \in Nat /\ edits \in Nat /\ hangups \in Nat
        /\ said \in Nat /\ handled \in Nat
    BY DEF Init
  <2> QED
    BY <2>1, <2>2, <2>3, <2>4 DEF TypeOK
<1>2. AnswersAreBounded
  BY RepeatAssumption DEF Init, AnswersAreBounded
<1> QED
  BY <1>1, <1>2 DEF IInv

LEMMA Inductive == IInv /\ [Next]_vars => IInv'
BY RunKeeps, RuleKeeps, SilenceKeeps, EmitKeeps, OthersKeep DEF Next, Bot

-----------------------------------------------------------------------------
(* Every reachable state is well typed: in particular what is loaded is     *)
(* always the contents of one file, never a mixture of two.                 *)
THEOREM TypeCorrect == Spec => []TypeOK
<1>1. IInv => TypeOK
  BY DEF IInv
<1> QED
  BY Initially, Inductive, <1>1, PTL DEF Spec

(* The bot never talks more than the users make it: every output, echoes    *)
(* notwithstanding, is paid for by a message of a user that was handled     *)
(* (wb_bot_dispatch_message, wb_bot_execute_output).                        *)
THEOREM TalkIsBounded == Spec => []AnswersAreBounded
<1>1. IInv => AnswersAreBounded
  BY DEF IInv
<1> QED
  BY Initially, Inductive, <1>1, PTL DEF Spec

(* Nothing but a permitted !start ends a !stop (wb_bot_start_command); no   *)
(* reload of whatever file does.                                            *)
THEOREM StopHolds == Spec => OnlyStartStarts
<1>1. ASSUME [Next]_vars, ~started, started'
      PROVE  inbox # <<>> /\ Asks(Head(inbox), "start", loaded)
  <2>1. PICK i \in DOMAIN loaded.commands : RunStart(i)
    BY <1>1 DEF Next, Bot, Run, World, IgnoreOwn, RunReload, RunStop, RunHelp, RunOther,
                AnswerByRule, StaySilent, Emit, Finish, Crash, Hangup, Speak, Edit,
                Reload, vars
  <2> QED
    BY <2>1 DEF RunStart, TakeCommand, Take, First, Commanded, Asks, Own
<1> QED
  BY <1>1, PTL DEF Spec, OnlyStartStarts

-----------------------------------------------------------------------------
(* A message that is taken is an answer of the abstract bot. *)
LEMMA TakeAnswers ==
  ASSUME IInv, Take, ~Own(Head(inbox)), owed' \in Seq(Output), Len(owed') <= MaxRepeat,
         started' \in {started, TRUE}
  PROVE  Abstract!Next
<1>1. PICK n \in 0..MaxRepeat : n = Len(owed')
  BY RepeatAssumption
<1>2. Abstract!Answer(n)
  BY <1>1 DEF Abstract!Answer, Take, Own
<1> QED
  BY <1>2 DEF Abstract!Next

LEMMA RunAnswers ==
  ASSUME IInv, NEW i \in DOMAIN loaded.commands, Run(i)
  PROVE  Abstract!Next
<1>1. TakeCommand(i)
  BY DEF Run, RunReload, RunStart, RunStop, RunHelp, RunOther
<1>2. /\ Head(inbox).kind \in {"say", "message"}
      /\ loaded.commands[i].outputs \in SUBSET Output
  BY <1>1, CalledBySpeech DEF IInv
<1>3. ASSUME Reply(loaded.commands[i].outputs, Head(inbox).kind)
      PROVE  owed' \in Seq(Output) /\ Len(owed') <= MaxRepeat
  BY <1>2, <1>3, ReplyTyped
<1>4. ASSUME NEW kind \in {"say", "me", "message"}, NEW text \in Texts,
             owed' = <<[kind |-> kind, text |-> text, repeat |-> 0]>>
      PROVE  owed' \in Seq(Output) /\ Len(owed') <= MaxRepeat
  <2>1. [kind |-> kind, text |-> text, repeat |-> 0] \in Output
    BY RepeatAssumption DEF Output
  <2> QED
    BY <1>4, <2>1, RepeatAssumption
<1>5. owed' \in Seq(Output) /\ Len(owed') <= MaxRepeat
  BY <1>2, <1>3, <1>4, TextsAssumption
     DEF Run, RunReload, RunStart, RunStop, RunHelp, RunOther
<1>6. started' \in {started, TRUE}
  BY DEF Run, RunReload, RunStart, RunStop, RunHelp, RunOther, Reload
<1> QED
  BY <1>1, <1>5, <1>6, TakeAnswers DEF TakeCommand

LEMMA RuleAnswers ==
  ASSUME IInv, NEW i \in DOMAIN loaded.rules, AnswerByRule(i)
  PROVE  Abstract!Next
<1>1. Take /\ ~Own(Head(inbox)) /\ started' = started
  BY DEF AnswerByRule
<1>2. IInv'
  BY RuleKeeps
<1>3. owed' \in Seq(Output)
  BY <1>2 DEF IInv, TypeOK
<1>4. Len(owed') <= MaxRepeat
  <2>1. \A j \in DOMAIN loaded.rules : loaded.rules[j].outputs \in SUBSET Output
    <3>1. loaded.rules \in Seq(Rule)
      BY LoadedTyped DEF IInv, TypeOK
    <3>2. \A j \in DOMAIN loaded.rules : loaded.rules[j] \in Rule
      BY <3>1
    <3> QED
      BY <3>2 DEF Rule
  <2>2. ASSUME NEW j \in DOMAIN loaded.rules, NEW o \in loaded.rules[j].outputs,
               owed' = Owe(o)
        PROVE  Len(owed') <= MaxRepeat
    BY <2>1, <2>2, OweTyped
  <2>3. ASSUME owed' = <<>>
        PROVE  Len(owed') <= MaxRepeat
    BY <2>3, RepeatAssumption
  <2> QED
    BY <2>2, <2>3 DEF AnswerByRule
<1> QED
  BY <1>1, <1>3, <1>4, TakeAnswers

(* The other steps, one by one: the echo of an own message, an end, a reload *)
(* by HUP and the world are stutters unless they stop or end the bot.        *)
LEMMA OthersAnswer ==
  ASSUME IInv,
         IgnoreOwn \/ StaySilent \/ Emit \/ Finish \/ Crash \/ Hangup \/ World
           \/ UNCHANGED vars
  PROVE  Abstract!Next \/ UNCHANGED Abstract!vars
<1>1. CASE IgnoreOwn
  BY <1>1 DEF IgnoreOwn, Own, Take, Abstract!vars
<1>2. CASE StaySilent
  <2>1. Take /\ ~Own(Head(inbox)) /\ owed' = <<>> /\ started' = started
    BY <1>2 DEF StaySilent, Take
  <2>2. owed' \in Seq(Output) /\ Len(owed') <= MaxRepeat
    BY <2>1, RepeatAssumption
  <2> QED
    BY <2>1, <2>2, TakeAnswers
<1>3. CASE Emit
  <2>1. owed \in Seq(Output) /\ owed # <<>> /\ owed' = Tail(owed)
    BY <1>3 DEF Emit, IInv, TypeOK
  <2>2. Len(owed) > 0 /\ Len(owed') = Len(owed) - 1
    BY <2>1
  <2>3. Abstract!Say
    BY <1>3, <2>2 DEF Emit, Abstract!Say
  <2> QED
    BY <2>3 DEF Abstract!Next
<1>4. CASE Finish
  <2>1. CASE stopping
    <3>1. Abstract!Stop
      BY <1>4, <2>1 DEF Finish, Abstract!Stop
    <3> QED
      BY <3>1 DEF Abstract!Next
  <2>2. CASE ~stopping
    BY <1>4, <2>2 DEF Finish, IInv, TypeOK, Abstract!vars
  <2> QED
    BY <2>1, <2>2
<1>5. CASE Crash
  <2>1. Abstract!Die
    BY <1>5 DEF Crash, Abstract!Die
  <2> QED
    BY <2>1 DEF Abstract!Next
<1>6. CASE Hangup
  BY <1>6 DEF Hangup, Reload, Abstract!vars
<1>7. CASE World
  BY <1>7 DEF World, Speak, Edit, Abstract!vars
<1>8. CASE UNCHANGED vars
  BY <1>8 DEF vars, Abstract!vars
<1> QED
  BY <1>1, <1>2, <1>3, <1>4, <1>5, <1>6, <1>7, <1>8

(* The engine implements Responder: whatever the dictionary, and however it  *)
(* is reloaded, all it does is answer, with no more than MaxRepeat outputs   *)
(* to a message and none of its own accord.                                  *)
THEOREM ImplementsResponder == Spec => OnlyAnswers
<1>1. Init => Abstract!Init
  BY DEF Init, Abstract!Init
<1>2. IInv /\ [Next]_vars => [Abstract!Next]_(Abstract!vars)
  BY RunAnswers, RuleAnswers, OthersAnswer DEF Next, Bot
<1> QED
  BY <1>1, <1>2, Initially, Inductive, PTL DEF Spec, OnlyAnswers, Abstract!Spec
-----------------------------------------------------------------------------
(* What is in memory was read from a file, to its end if bot->xml is held,  *)
(* and the messages that wait are the bot's own or what users utter.        *)
ReadWhole == xmlHeld => \E f \in Files : Good[f] /\ loaded = Contents[f]
Uttered   == \A i \in DOMAIN inbox :
               inbox[i].user = Self \/ <<inbox[i].kind, inbox[i].text>> \in Utterances

SInv == ReadWhole /\ Uttered

LEMMA TakeKeepsUttered ==
  ASSUME TypeOK, Uttered, Take
  PROVE  /\ Uttered'
         /\ Head(inbox).user = Self
              \/ <<Head(inbox).kind, Head(inbox).text>> \in Utterances
<1>1. inbox \in Seq(Message) /\ inbox # <<>> /\ inbox' = Tail(inbox)
  BY DEF TypeOK, Take
<1>2. /\ Head(inbox) = inbox[1] /\ 1 \in DOMAIN inbox
      /\ \A i \in DOMAIN inbox' : i + 1 \in DOMAIN inbox /\ inbox'[i] = inbox[i + 1]
  BY <1>1
<1> QED
  BY <1>2 DEF Uttered

LEMMA AppendKeepsUttered ==
  ASSUME TypeOK, Uttered, NEW m \in Message, inbox' = Append(inbox, m),
         m.user = Self \/ <<m.kind, m.text>> \in Utterances
  PROVE  Uttered'
<1>1. inbox \in Seq(Message)
  BY DEF TypeOK
<1>2. \A i \in DOMAIN inbox' : inbox'[i] = m \/ (i \in DOMAIN inbox /\ inbox'[i] = inbox[i])
  BY <1>1
<1> QED
  BY <1>2 DEF Uttered

(* A step reads the whole file on disk or leaves what is in memory.  *)
LEMMA MemoryKeeps ==
  ASSUME TypeOK, ReadWhole, Reload \/ UNCHANGED <<loaded, xmlHeld>>
  PROVE  ReadWhole'
<1>1. CASE Reload
  BY <1>1 DEF Reload, ReadWhole, TypeOK
<1>2. CASE UNCHANGED <<loaded, xmlHeld>>
  BY <1>2 DEF ReadWhole
<1> QED
  BY <1>1, <1>2

LEMMA StepKeepsSource ==
  ASSUME TypeOK, SInv, [Next]_vars
  PROVE  SInv'
<1>1. Reload \/ UNCHANGED <<loaded, xmlHeld>>
  BY DEF Next, Bot, Run, World, IgnoreOwn, RunReload, RunStart, RunStop, RunHelp, RunOther,
         AnswerByRule, StaySilent, Emit, Finish, Crash, Hangup, Speak, Edit, vars
<1>2. ReadWhole'
  BY <1>1, MemoryKeeps DEF SInv
<1>3. ASSUME Take
      PROVE  Uttered'
  BY <1>3, TakeKeepsUttered DEF SInv
<1>4. ASSUME Emit
      PROVE  Uttered'
  <2> DEFINE m == [user |-> Self, kind |-> Head(owed).kind, text |-> Head(owed).text]
  <2>1. Head(owed) \in Output
    BY <1>4 DEF Emit, TypeOK
  <2>2. CASE Head(owed).kind \in {"say", "me", "broadcast"}
    <3>1. m \in Message /\ m.user = Self
      BY <2>1, <2>2 DEF Output, Message, Uids, Kinds
    <3>2. inbox' = Append(inbox, m)
      BY <1>4, <2>2 DEF Emit
    <3> HIDE DEF m
    <3> QED
      BY <3>1, <3>2, AppendKeepsUttered DEF SInv
  <2>3. CASE Head(owed).kind \notin {"say", "me", "broadcast"}
    BY <1>4, <2>3 DEF Emit, SInv, Uttered
  <2> QED
    BY <2>2, <2>3
<1>5. ASSUME NEW u \in Users, NEW w \in Utterances, Speak(u, w[1], w[2])
      PROVE  Uttered'
  <2> DEFINE m == [user |-> u, kind |-> w[1], text |-> w[2]]
  <2>1. m \in Message /\ <<m.kind, m.text>> \in Utterances
    BY UttersAssumption DEF Message, Uids
  <2>2. inbox' = Append(inbox, m)
    BY <1>5 DEF Speak
  <2> HIDE DEF m
  <2> QED
    BY <2>1, <2>2, AppendKeepsUttered DEF SInv
<1>6. ASSUME UNCHANGED inbox
      PROVE  Uttered'
  BY <1>6 DEF SInv, Uttered
<1>7. \/ Take \/ Emit \/ UNCHANGED inbox
      \/ \E u \in Users, w \in Utterances : Speak(u, w[1], w[2])
  BY DEF Next, Bot, Run, World, IgnoreOwn, RunReload, RunStart, RunStop, RunHelp, RunOther,
         TakeCommand, AnswerByRule, StaySilent, Finish, Crash, Hangup, Edit, vars
<1> QED
  BY <1>2, <1>3, <1>4, <1>5, <1>6, <1>7 DEF SInv

LEMMA SourceInvariant == Spec => [](TypeOK /\ SInv)
<1>1. Init => SInv
  BY DEF Init, SInv, ReadWhole, Uttered
<1>2. TypeOK /\ SInv /\ [Next]_vars => SInv'
  BY StepKeepsSource
<1> QED
  BY <1>1, <1>2, TypeCorrect, PTL DEF Spec

(* What counts a message of a user as handled. *)
LEMMA HandledBy ==
  ASSUME TypeOK, [Next]_vars, handled' # handled
  PROVE  /\ Take /\ ~Own(Head(inbox))
         /\ \/ \E i \in DOMAIN loaded.commands : Run(i)
            \/ \E i \in DOMAIN loaded.rules : AnswerByRule(i)
            \/ StaySilent
<1>1. ~IgnoreOwn
  BY DEF IgnoreOwn, Take, Own
<1>2. \/ \E i \in DOMAIN loaded.commands : Run(i)
      \/ \E i \in DOMAIN loaded.rules : AnswerByRule(i)
      \/ StaySilent
  BY <1>1 DEF Next, Bot, World, Emit, Finish, Crash, Hangup, Speak, Edit, vars
<1> QED
  BY <1>2 DEF Run, RunReload, RunStart, RunStop, RunHelp, RunOther, TakeCommand,
              AnswerByRule, StaySilent

(* A permitted !reload takes effect, whatever was edited in between, as long *)
(* as the dictionaries that can be read agree on who may reload              *)
(* (wb_bot_check_command_permissions, wb_bot_reload_configuration).          *)
THEOREM ReloadsAreHeard ==
  ASSUME ReloadStays
  PROVE  Spec => ReloadTakesEffect
<1>1. ASSUME TypeOK, SInv, [Next]_vars, handled' # handled,
             Asks(Head(inbox), "reload", Contents[file]), Good[file], xmlHeld
      PROVE  loaded' = Contents[file]
  <2> DEFINE m == Head(inbox)
  <2>1. PICK f \in Files : Good[f] /\ loaded = Contents[f]
    BY <1>1 DEF SInv, ReadWhole
  <2>2. m \in Message /\ file \in Files
    BY <1>1, HandledBy, TakeTyped DEF TypeOK
  <2>3. Asks(m, "reload", loaded)
    BY <1>1, <2>1, <2>2, ReloadStays DEF ReloadStays
  <2>4. Name(m) = "reload" /\ Commanded(m) # {}
    BY <2>3 DEF Asks, Commanded
  <2>5. PICK i \in DOMAIN loaded.commands : Run(i)
    BY <1>1, <2>4, HandledBy DEF AnswerByRule, StaySilent
  <2>6. loaded.commands[i].name = "reload"
    BY <2>4, <2>5 DEF Run, RunReload, RunStart, RunStop, RunHelp, RunOther, TakeCommand,
                      First, Commanded
  <2>7. RunReload(i)
    BY <2>5, <2>6 DEF Run, RunStart, RunStop, RunHelp, RunOther
  <2> QED
    BY <2>7 DEF RunReload, Reload
<1> QED
  BY <1>1, SourceInvariant, PTL DEF Spec, ReloadTakesEffect

(* What a plain input matches it was written for. *)
LEMMA PlainMatch ==
  ASSUME PlainInputs, NEW f \in Files, NEW i \in DOMAIN Contents[f].rules,
         NEW input \in Contents[f].rules[i].inputs,
         NEW m, <<m.kind, m.text>> \in Utterances, Matched(input, m)
  PROVE  /\ input.kind = m.kind
         /\ input.kind \in {"join", "leave"} \/ Meant(input, m.text)
<1>1. Contents[f].rules[i] \in Rule
  BY FilesAssumption
<1>2. input.comparison \in Comparisons /\ input.sensitive \in BOOLEAN
  BY <1>1 DEF Rule, Input
<1>3. input.kind = m.kind /\ m.kind # "broadcast"
  BY DEF PlainInputs, Matched
<1>4. CASE m.text = EmptyText
  BY <1>3, <1>4 DEF PlainInputs
<1>5. CASE m.text # EmptyText
  <2>1. Fits(input, m.text)
    BY <1>3, <1>5 DEF Matched
  <2>2. input.comparison \in {"equals", "contains", "not equals"}
    BY <1>2 DEF PlainInputs, Comparisons
  <2>3. input.comparison = "not equals"
          \/ <<input.pattern, m.text>> \in Within[input.sensitive]
    BY <2>1, <2>2 DEF Fits
  <2> QED
    BY <1>2, <1>3, <2>3 DEF PlainInputs, Meant
<1> QED
  BY <1>4, <1>5

(* With plain inputs every answer of a rule is to a message it was written  *)
(* for (wb_bot_check_input_match, wb_bot_input_for_message).                *)
THEOREM PlainRulesMatch ==
  ASSUME PlainInputs
  PROVE  Spec => AnswersMatch
<1>1. ASSUME TypeOK, SInv, [Next]_vars, handled' # handled, owed' # <<>>,
             Name(Head(inbox)) = NoName
      PROVE  \E i \in DOMAIN loaded.rules :
               /\ \/ \E o \in loaded.rules[i].outputs : owed' = Owe(o)
                  \/ loaded.rules[i].outputs = {}
               /\ \E input \in loaded.rules[i].inputs :
                    /\ input.kind = Head(inbox).kind
                    /\ input.kind \in {"join", "leave"} \/ Meant(input, Head(inbox).text)
  <2> DEFINE m == Head(inbox)
  <2>1. PICK f \in Files : loaded = Contents[f]
    BY <1>1 DEF TypeOK
  <2>2. Take /\ ~Own(m)
    BY <1>1, HandledBy
  <2>3. <<m.kind, m.text>> \in Utterances
    BY <1>1, <2>2, TakeKeepsUttered DEF SInv, Own
  <2>4. Commanded(m) = {}
    BY <1>1, <2>1, NoNameAssumption DEF Commanded
  <2>5. ~StaySilent
    BY <1>1 DEF StaySilent, Take
  <2>6. \A i \in DOMAIN loaded.commands : ~Run(i)
    BY <2>4 DEF Run, RunReload, RunStart, RunStop, RunHelp, RunOther, TakeCommand, First
  <2>7. PICK i \in DOMAIN loaded.rules : AnswerByRule(i)
    BY <1>1, <2>5, <2>6, HandledBy
  <2>8. \/ \E o \in loaded.rules[i].outputs : owed' = Owe(o)
        \/ loaded.rules[i].outputs = {}
    BY <2>7 DEF AnswerByRule
  <2>9. PICK input \in loaded.rules[i].inputs : Matched(input, m)
    BY <2>7 DEF AnswerByRule, First, Ruled
  <2>10. /\ input.kind = m.kind
         /\ input.kind \in {"join", "leave"} \/ Meant(input, m.text)
    <3> HIDE DEF m
    <3> QED
      BY <2>1, <2>3, <2>9, PlainMatch
  <2> QED
    BY <2>8, <2>9, <2>10
<1> QED
  BY <1>1, SourceInvariant, PTL DEF Spec, AnswersMatch
=============================================================================
