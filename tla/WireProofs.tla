----------------------------- MODULE WireProofs -----------------------------
(* Proofs about Wire, for every server that keeps to the specification, any *)
(* number of sessions, and every dictionary.                                *)
EXTENDS Wire, TLAPS

(* What is announced is of the file at hand. *)
Announces ==
  /\ phase \in {"asked", "told"} => todo # <<>>
  /\ text # NoText => todo # <<>> /\ text = Head(todo).file

PostInv == Announces /\ PostsAreOwn

(* A new listing is looked at when the last one is done with. *)
LEMMA PostingStarts ==
  ASSUME PostInv, todo = <<>>, UNCHANGED <<phase, text, posted>>
  PROVE  PostInv'
BY DEF PostInv, Announces, PostsAreOwn

LEMMA PostingIdles ==
  ASSUME PostInv, UNCHANGED postingVars
  PROVE  PostInv'
BY DEF PostInv, Announces, PostsAreOwn, postingVars

(* An output of the watcher is dealt with. *)
LEMMA PostingAnnounces ==
  ASSUME PostInv, OpenThread \/ SayIt \/ Pass
  PROVE  PostInv'
<1>1. Announces'
  BY DEF OpenThread, SayIt, Pass, NextJob, Announces
<1>2. CASE OpenThread
  <2>1. About(Head(todo).file) = Head(todo).file
    BY DEF PostInv, Announces, About
  <2>2. posted' = posted \cup {[file |-> Head(todo).file, about |-> Head(todo).file]}
    BY <1>2, <2>1 DEF OpenThread
  <2> QED
    BY <1>1, <2>2 DEF PostInv, PostsAreOwn
<1>3. CASE SayIt \/ Pass
  BY <1>1, <1>3 DEF SayIt, Pass, PostInv, PostsAreOwn
<1> QED
  BY <1>2, <1>3

LEMMA PostingLooksUp ==
  ASSUME PostInv, Ask \/ Told
  PROVE  PostInv'
BY DEF Ask, Told, PostInv, Announces, PostsAreOwn

LEMMA PostingLost ==
  ASSUME PostInv, UseReleased
  PROVE  PostInv'
BY DEF UseReleased, PostInv, Announces, PostsAreOwn

LEMMA PostingKept ==
  ASSUME PostInv, [Next]_vars
  PROVE  PostInv'
<1>1. CASE LogIn
  <2>1. UNCHANGED postingVars
    BY <1>1 DEF LogIn, Refuse, Dial, LoginTimeout, LoginUnverified, LoginStep, LoginAccepted,
                LoginDone, LoginUnexpected, LoginReads, GiveUp
  <2> QED
    BY <2>1, PostingIdles
<1>2. CASE HandleListed
  <2>1. todo = <<>> /\ UNCHANGED <<phase, text, posted>>
    BY <1>2 DEF HandleListed, Handles, InLoop
  <2> QED
    BY <2>1, PostingStarts
<1>3. CASE Handle /\ ~HandleListed
  <2>1. UNCHANGED postingVars
    BY <1>3 DEF Handle, HandlePing, HandleCreated, HandleInvitation, HandleChanged, HandleTalk,
                HandleInfo, HandleOther, Quietly
  <2> QED
    BY <2>1, PostingIdles
<1>4. CASE ReadFails \/ Redial \/ Call \/ Hup \/ Server
  <2>1. UNCHANGED postingVars
    BY <1>4 DEF ReadFails, Redial, Call, Hup, Server, Serve, TakePing, Tell, SendPing, Break, Drop
  <2> QED
    BY <2>1, PostingIdles
<1>5. CASE LookUp \/ Web
  BY <1>5, PostingLooksUp DEF LookUp, Web
<1>6. CASE Announce
  BY <1>6, PostingAnnounces DEF Announce
<1>7. CASE UseReleased
  BY <1>7, PostingLost
<1>8. CASE UNCHANGED vars
  BY <1>8, PostingIdles DEF vars, postingVars
<1> QED
  BY <1>1, <1>2, <1>3, <1>4, <1>5, <1>6, <1>7, <1>8 DEF Next, Bot

(* A thread is about the file it was opened for, whichever lookups fail, and *)
(* also when a reload releases the watcher (service->text, which every       *)
(* output and every file of a watcher share).                               *)
THEOREM PostsAreRight == Spec => []PostsAreOwn
<1>1. Init => PostInv
  BY DEF Init, PostingInit, PostInv, Announces, PostsAreOwn
<1>2. PostInv /\ [Next]_vars => PostInv'
  BY PostingKept
<1>3. PostInv => PostsAreOwn
  BY DEF PostInv
<1> QED
  BY <1>1, <1>2, <1>3, PTL DEF Spec

-----------------------------------------------------------------------------
(* What is missing from a message that verifies is an ornament, whatever the *)
(* server sends (wr_client_read_message).                                   *)
LEMMA VerifiedIsUsable ==
  ASSUME NEW m, Verified(m)
  PROVE  Lacks(m) \subseteq Ornaments
BY UsesAssumption DEF Verified, Complete, Lacks

LEMMA FieldsKept ==
  ASSUME FieldsAreThere, [Next]_vars
  PROVE  FieldsAreThere'
<1> USE DEF FieldsAreThere
<1>1. ASSUME NEW at, LoginReads(at)
      PROVE  missing' \subseteq Ornaments
  BY <1>1, VerifiedIsUsable DEF LoginReads
<1>2. ASSUME NEW names, Handles(names)
      PROVE  missing' \subseteq Ornaments
  BY <1>2, VerifiedIsUsable DEF Handles
<1>3. CASE LogIn
  BY <1>1, <1>3 DEF LogIn, Refuse, Dial, LoginTimeout, LoginUnverified, LoginStep, LoginAccepted,
                    LoginDone, LoginUnexpected, GiveUp, botVars
<1>4. CASE Handle
  BY <1>2, <1>4 DEF Handle, HandlePing, HandleCreated, HandleInvitation, HandleChanged,
                    HandleListed, HandleTalk, HandleInfo, HandleOther
<1>5. CASE ReadFails \/ Redial \/ LookUp \/ Announce \/ UseReleased \/ Call \/ Web \/ Hup
  BY <1>5 DEF ReadFails, Redial, LookUp, Announce, UseReleased, Call, Web, Hup, botVars
<1>6. CASE Server
  BY <1>6 DEF Server, Serve, TakePing, Tell, SendPing, Break, Drop, botVars
<1>7. CASE UNCHANGED vars
  BY <1>7 DEF vars, botVars
<1> QED
  BY <1>3, <1>4, <1>5, <1>6, <1>7 DEF Next, Bot

(* No handler reads a field that is not there, except for what only a       *)
(* window or the log would show.                                            *)
THEOREM FieldsAreFound == Spec => []FieldsAreThere
<1>1. Init => FieldsAreThere
  BY DEF Init, FieldsAreThere
<1>2. FieldsAreThere /\ [Next]_vars => FieldsAreThere'
  BY FieldsKept
<1> QED
  BY <1>1, <1>2, PTL DEF Spec

-----------------------------------------------------------------------------
(* The messages a server may send, complete ones and those without fields.   *)
Tellable == STRING \cup Broadcasts \cup {"send_ping", "error"}
AllSent  == [name : Tellable, fields : {Required[n] : n \in Tellable} \cup {{}},
             number : Nat \cup {NoNumber}]

(* What is under way to the bot, and how far the login is: a login that was  *)
(* accepted carries the number of this session, and the bot has looked at   *)
(* nothing else when it takes itself to be logged in.                       *)
LoginTold == \A i \in DOMAIN toBot :
               toBot[i].name = "login" => stage = "in" /\ toBot[i].number = sessions

InSession == alive => stage = "in" /\ ownId = sessions

IdInv ==
  /\ toBot \in Seq(AllSent)
  /\ sessions \in Nat /\ pings \in Nat
  /\ alive => LoginTold
  /\ main = "privileges" => InSession
  /\ connected => main \in {"loop", "crashed"} /\ InSession

LEMMA SentNames ==
  ASSUME NEW n \in Tellable, NEW x \in Nat \cup {NoNumber}
  PROVE  Sent(n, x) \in AllSent /\ Sent(n, x).name = n /\ Sent(n, x).number = x
BY DEF Sent, AllSent

LEMMA BrokenNames ==
  ASSUME NEW n \in Tellable
  PROVE  /\ [Sent(n, NoNumber) EXCEPT !.fields = {}] \in AllSent
         /\ [Sent(n, NoNumber) EXCEPT !.fields = {}].name = n
<1>1. [Sent(n, NoNumber) EXCEPT !.fields = {}] = [name |-> n, fields |-> {}, number |-> NoNumber]
  BY DEF Sent
<1> QED
  BY <1>1 DEF AllSent

(* Messages that are not logins, at the end of what is under way. *)
LEMMA MoreTold ==
  ASSUME IdInv, NEW m \in AllSent, m.name # "login",
         toBot' = Append(toBot, m), UNCHANGED <<stage, sessions>>
  PROVE  toBot' \in Seq(AllSent) /\ (alive => LoginTold')
<1>1. toBot' \in Seq(AllSent)
  BY DEF IdInv
<1>2. \A i \in DOMAIN toBot' : toBot'[i] = m \/ (i \in DOMAIN toBot /\ toBot'[i] = toBot[i])
  BY DEF IdInv
<1> QED
  BY <1>1, <1>2 DEF IdInv, LoginTold

LEMMA LessTold ==
  ASSUME IdInv, toBot # <<>>, toBot' = Tail(toBot), UNCHANGED <<stage, sessions>>
  PROVE  toBot' \in Seq(AllSent) /\ (alive => LoginTold')
<1>1. toBot' \in Seq(AllSent)
  BY DEF IdInv
<1>2. \A i \in DOMAIN toBot' : i + 1 \in DOMAIN toBot /\ toBot'[i] = toBot[i + 1]
  BY DEF IdInv
<1> QED
  BY <1>1, <1>2 DEF IdInv, LoginTold

LEMMA ServeKeeps ==
  ASSUME IdInv, Serve
  PROVE  IdInv'
<1> DEFINE sent(n) == Sent(n, IF n = "login" THEN sessions ELSE NoNumber)
<1>1. PICK answer : /\ answer \in Seq(Tellable)
                    /\ toBot' = toBot \o [i \in DOMAIN answer |-> sent(answer[i])]
                    /\ stage' = NextStage(answer)
  <2>1. \A n \in DOMAIN Replies : Replies[n] \subseteq Seq(Tellable)
    BY RepliesAssumption DEF Tellable
  <2>2. <<"error">> \in Seq(Tellable)
    BY DEF Tellable
  <2> QED
    BY <2>1, <2>2 DEF Serve
<1> DEFINE more == [i \in DOMAIN answer |-> sent(answer[i])]
<1>2. UNCHANGED <<alive, main, connected, ownId, sessions, pings>> /\ alive
  BY DEF Serve, botVars, budget
<1>3. \A i \in DOMAIN answer : /\ sent(answer[i]) \in AllSent
                               /\ sent(answer[i]).name = answer[i]
                               /\ answer[i] = "login" => sent(answer[i]).number = sessions
  <2>1. SUFFICES ASSUME NEW i \in DOMAIN answer
                 PROVE  /\ sent(answer[i]) \in AllSent
                        /\ sent(answer[i]).name = answer[i]
                        /\ answer[i] = "login" => sent(answer[i]).number = sessions
    OBVIOUS
  <2>2. answer[i] \in Tellable
    BY <1>1
  <2>3. (IF answer[i] = "login" THEN sessions ELSE NoNumber) \in Nat \cup {NoNumber}
    BY DEF IdInv
  <2> QED
    BY <2>2, <2>3, SentNames
<1>4. more \in Seq(AllSent) /\ DOMAIN more = DOMAIN answer
  <2>1. \A i \in DOMAIN answer : sent(answer[i]) \in AllSent
    BY <1>3
  <2>2. DOMAIN answer = 1..Len(answer) /\ Len(answer) \in Nat
    BY <1>1
  <2> HIDE DEF sent
  <2> QED
    BY <2>1, <2>2
<1>5. toBot' \in Seq(AllSent)
  BY <1>1, <1>4 DEF IdInv
<1>6. stage = "in" => stage' = "in"
  BY <1>1 DEF NextStage
<1>7. (\E i \in DOMAIN answer : answer[i] = "login") => stage' = "in"
  <2>1. SUFFICES ASSUME NEW i \in DOMAIN answer, answer[i] = "login"
                 PROVE  answer # <<"server_info">>
    BY <1>1 DEF NextStage
  <2> QED
    BY <2>1
<1>8. LoginTold'
  <2>1. SUFFICES ASSUME NEW i \in DOMAIN toBot', toBot'[i].name = "login"
                 PROVE  stage' = "in" /\ toBot'[i].number = sessions'
    BY DEF LoginTold
  <2>2. CASE i \in DOMAIN toBot
    <3>1. toBot'[i] = toBot[i]
      BY <1>1, <1>4, <2>2 DEF IdInv
    <3> QED
      BY <1>2, <1>6, <2>1, <2>2, <3>1 DEF IdInv, LoginTold
  <2>3. CASE i \notin DOMAIN toBot
    <3>1. i - Len(toBot) \in DOMAIN answer /\ toBot'[i] = sent(answer[i - Len(toBot)])
      BY <1>1, <1>4, <2>3 DEF IdInv
    <3> QED
      BY <1>2, <1>3, <1>7, <2>1, <3>1
  <2> QED
    BY <2>2, <2>3
<1> QED
  BY <1>2, <1>5, <1>6, <1>8 DEF IdInv, InSession

LEMMA ServerKeeps ==
  ASSUME IdInv, Server
  PROVE  IdInv'
<1>1. CASE Serve
  BY <1>1, ServeKeeps
<1>2. CASE TakePing
  BY <1>2 DEF TakePing, IdInv, LoginTold, InSession, botVars, budget
<1>3. ASSUME NEW name \in News, Tell(name)
      PROVE  IdInv'
  <2>1. name \in Tellable /\ name # "login"
    BY NewsAssumption DEF Tellable, Broadcasts
  <2>2. toBot' \in Seq(AllSent) /\ (alive => LoginTold')
    BY <1>3, <2>1, SentNames, MoreTold DEF Tell, serverVars
  <2> QED
    BY <1>3, <2>2 DEF Tell, IdInv, InSession, serverVars, botVars
<1>4. CASE SendPing
  <2>1. Sent("send_ping", pings) \in AllSent /\ Sent("send_ping", pings).name # "login"
    BY SentNames DEF IdInv, Tellable
  <2>2. toBot' \in Seq(AllSent) /\ (alive => LoginTold')
    BY <1>4, <2>1, MoreTold DEF SendPing
  <2> QED
    BY <1>4, <2>2 DEF SendPing, IdInv, InSession, botVars
<1>5. ASSUME NEW name \in News, Break(name)
      PROVE  IdInv'
  <2>1. name \in Tellable /\ name # "login"
    BY NewsAssumption DEF Tellable, Broadcasts
  <2>2. toBot' \in Seq(AllSent) /\ (alive => LoginTold')
    BY <1>5, <2>1, BrokenNames, MoreTold DEF Break, serverVars
  <2> QED
    BY <1>5, <2>2 DEF Break, IdInv, InSession, serverVars, botVars
<1>6. CASE Drop
  BY <1>6 DEF Drop, IdInv, InSession, serverVars, botVars, budget
<1> QED
  BY <1>1, <1>2, <1>3, <1>4, <1>5, <1>6 DEF Server

LEMMA LogInKeeps ==
  ASSUME IdInv, LogIn
  PROVE  IdInv'
<1>1. CASE Refuse
  BY <1>1 DEF Refuse, IdInv, LoginTold, InSession, serverVars, botVars, budget
<1>2. CASE Dial
  BY <1>2 DEF Dial, IdInv, LoginTold, InSession, botVars, budget
<1>3. CASE GiveUp /\ main \in Login
  BY <1>3 DEF GiveUp, Login, IdInv, InSession, serverVars, botVars, budget
<1>4. ASSUME NEW at \in SUBSET Login, LoginReads(at)
      PROVE  /\ toBot' \in Seq(AllSent) /\ (alive => LoginTold')
             /\ ~connected /\ UNCHANGED <<alive, stage, sessions, pings, connected>>
  BY <1>4, LessTold DEF LoginReads, Login, IdInv, serverVars, budget
<1>5. CASE LoginStep
  <2>1. NextLogin(main) # "privileges"
    BY <1>5 DEF LoginStep, LoginReads, NextLogin
  <2>2. main' # "privileges"
    BY <1>5, <2>1 DEF LoginStep, Write
  <2> QED
    BY <1>4, <1>5, <2>2 DEF LoginStep, Login, IdInv, InSession
<1>6. CASE LoginAccepted
  <2>1. alive => stage = "in" /\ Head(toBot).number = sessions
    BY <1>6 DEF LoginAccepted, LoginReads, Received, IdInv, LoginTold
  <2> QED
    BY <1>4, <1>6, <2>1 DEF LoginAccepted, Received, Login, IdInv, InSession
<1>7. CASE LoginDone
  <2>1. toBot' \in Seq(AllSent) /\ (alive => LoginTold')
    BY <1>7, LessTold DEF LoginDone, serverVars
  <2>2. main' \in {"loop", "crashed"}
    BY <1>7 DEF LoginDone, Write
  <2> QED
    BY <1>7, <2>1, <2>2 DEF LoginDone, IdInv, InSession, serverVars, budget
<1>8. CASE LoginUnexpected
  BY <1>4, <1>8 DEF LoginUnexpected, Login, IdInv, InSession
<1> QED
  BY <1>1, <1>2, <1>3, <1>5, <1>6, <1>7, <1>8 DEF LogIn, LoginTimeout, LoginUnverified

LEMMA LoopKeeps ==
  ASSUME IdInv, main' \in {main, "crashed"},
         UNCHANGED <<toBot, stage, alive, connected, ownId, sessions, pings>>
  PROVE  IdInv'
BY DEF IdInv, LoginTold, InSession

LEMMA HandleKeeps ==
  ASSUME IdInv, Handle
  PROVE  IdInv'
<1>1. PICK names : Handles(names)
  BY DEF Handle, HandlePing, HandleCreated, HandleInvitation, HandleChanged,
         HandleListed, HandleTalk, HandleInfo, HandleOther
<1>2. main' \in {main, "crashed"}
  BY DEF Handle, HandlePing, HandleCreated, HandleInvitation, HandleChanged,
         HandleListed, HandleTalk, HandleInfo, HandleOther, Reloads, Write, Silent
<1>3. toBot' \in Seq(AllSent) /\ (alive => LoginTold')
  BY <1>1, LessTold DEF Handles, serverVars
<1> QED
  BY <1>1, <1>2, <1>3 DEF Handles, InLoop, IdInv, InSession, serverVars

LEMMA IdKept ==
  ASSUME IdInv, [Next]_vars
  PROVE  IdInv'
<1>1. CASE LookUp \/ Announce \/ UseReleased \/ Call \/ Web \/ Hup
  BY <1>1, LoopKeeps DEF LookUp, Announce, UseReleased, Call, Web, Hup, Reloads, Write, Silent,
                         serverVars, botVars, budget
<1>2. CASE ReadFails
  BY <1>2 DEF ReadFails, IdInv, serverVars, budget
<1>3. CASE Redial
  BY <1>3 DEF Redial, IdInv, LoginTold, InSession, serverVars, botVars, budget
<1>4. CASE UNCHANGED vars
  BY <1>4, LoopKeeps DEF vars, serverVars, botVars, budget
<1> QED
  BY <1>1, <1>2, <1>3, <1>4, LogInKeeps, HandleKeeps, ServerKeeps DEF Next, Bot

LEMMA IdInvariant == Spec => []IdInv
<1>1. Init => IdInv
  BY DEF Init, IdInv, LoginTold, InSession
<1>2. IdInv /\ [Next]_vars => IdInv'
  BY IdKept
<1> QED
  BY <1>1, <1>2, PTL DEF Spec

(* A bot that takes itself to be logged in is, and knows its words by the    *)
(* id of this session, whatever the server tells during the login           *)
(* (wr_client_login, wb_user_id).                                           *)
THEOREM KnowsItself == Spec => []OwnIdIsCurrent
<1>1. IdInv => OwnIdIsCurrent
  BY DEF IdInv, InSession, OwnIdIsCurrent
<1> QED
  BY <1>1, IdInvariant, PTL

-----------------------------------------------------------------------------
(* The requests under way. *)

(* The requests the bot writes, of these names. *)
Written(names) ==
  {m \in [name : DOMAIN Filled, fields : {Filled[n] : n \in DOMAIN Filled},
          number : Nat \cup {NoNumber}] : Complete(m) /\ m.name \in names}

AllWritten == Written(DOMAIN Filled)

(* What is told before the server has looked at client_info: nothing that    *)
(* the login would take for its answer.                                     *)
Ungreeted == {m \in AllSent : m.name = "server_info" => ~Complete(m)}

(* The requests a server that has only greeted, or not even that, finds.    *)
Opening ==
  /\ main \in {"info", "crashed"}
  /\ toServer \in Seq(Written(BeforeGreeting))
  /\ toBot \in Seq(Ungreeted)

OrderInv ==
  /\ stage \in {"new", "greeted", "in"}
  /\ toServer \in Seq(AllWritten)
  /\ alive /\ stage = "new" => Opening
  /\ alive /\ stage = "greeted" => toServer \in Seq(Written(BeforeLogin))
  /\ NeverRejected

LEMMA WrittenRequests ==
  ASSUME NEW n \in DOMAIN Filled, NEW x \in Nat \cup {NoNumber}
  PROVE  RequestWith(n, x) \in Written({n}) /\ RequestWith(n, x) \in AllWritten
BY TablesAssumption DEF RequestWith, Written, AllWritten, Complete

LEMMA OneWritten ==
  ASSUME NEW n \in DOMAIN Filled
  PROVE  Request(n) \in AllWritten /\ <<Request(n)>> \in Seq(AllWritten)
<1>1. Request(n) \in AllWritten
  BY WrittenRequests DEF Request
<1> QED
  BY <1>1

LEMMA FewerWritten ==
  ASSUME NEW A, NEW B, A \subseteq B
  PROVE  Written(A) \subseteq Written(B)
BY DEF Written

LEMMA SubscriptionsWritten ==
  Subscriptions \in Seq(AllWritten)
<1>1. ASSUME NEW n \in DOMAIN Filled PROVE Request(n) \in AllWritten
  BY WrittenRequests DEF Request
<1>2. {"file.list_directory", "file.subscribe_directory"} \subseteq DOMAIN Filled
  BY TablesAssumption
<1>3. \A i \in 1..(2 * Watched) :
        Request(IF i % 2 = 1 THEN "file.list_directory" ELSE "file.subscribe_directory")
          \in AllWritten
  BY <1>1, <1>2
<1> QED
  BY <1>3, WatchedAssumption DEF Subscriptions

(* Once the server has accepted the login the bot may ask for anything.      *)
LEMMA WritingFreely ==
  ASSUME OrderInv, alive => stage = "in", UNCHANGED <<alive, stage, rejected>>,
         NEW requests \in Seq(AllWritten), NEW next, Write(requests, next)
  PROVE  OrderInv'
<1>1. /\ toServer \in Seq(AllWritten)
      /\ toServer' = toServer \/ toServer' = toServer \o requests
  BY DEF OrderInv, Write
<1>2. toServer \o requests \in Seq(AllWritten)
  BY <1>1
<1>3. toServer' \in Seq(AllWritten)
  BY <1>1, <1>2, Zenon
<1> QED
  BY <1>3 DEF OrderInv, NeverRejected

LEMMA ReloadingWrites ==
  ASSUME OrderInv, alive => stage = "in", UNCHANGED <<alive, stage, rejected>>, Reloads
  PROVE  OrderInv'
<1> DEFINE gone(n) == [w \in 1..n |-> Request("file.unsubscribe_directory")]
<1>1. PICK n \in 0..Watched, icon \in {<<>>, <<Request("user.set_icon")>>},
           again \in {<<>>, Subscriptions} : Write(gone(n) \o icon \o again, main)
  BY DEF Reloads
<1>2. /\ Request("file.unsubscribe_directory") \in AllWritten
      /\ Request("user.set_icon") \in AllWritten
  BY WrittenRequests, TablesAssumption DEF Request, Spoken
<1>3. gone(n) \in Seq(AllWritten)
  BY <1>2, WatchedAssumption
<1>4. <<Request("user.set_icon")>> \in Seq(AllWritten) /\ <<>> \in Seq(AllWritten)
  BY <1>2
<1>5. icon \in Seq(AllWritten)
  BY <1>4, Zenon
<1>6. again \in Seq(AllWritten)
  BY <1>4, SubscriptionsWritten, Zenon
<1> DEFINE requests == gone(n) \o icon \o again
<1> HIDE DEF gone
<1>7. requests \in Seq(AllWritten)
  BY <1>3, <1>5, <1>6
<1> HIDE DEF requests
<1>8. Write(requests, main)
  BY <1>1 DEF requests
<1> QED
  BY <1>7, <1>8, WritingFreely

LEMMA WritingNothing ==
  ASSUME OrderInv, UNCHANGED <<alive, stage, rejected, toServer>>,
         alive => /\ main' \in {main, "crashed"}
                  /\ toBot \in Seq(Ungreeted) => toBot' \in Seq(Ungreeted)
  PROVE  OrderInv'
BY DEF OrderInv, Opening, NeverRejected

LEMMA ClosingSession ==
  ASSUME OrderInv, ~alive', toServer' = <<>>, UNCHANGED <<stage, rejected>>
  PROVE  OrderInv'
BY DEF OrderInv, NeverRejected

LEMMA LogInOrdered ==
  ASSUME IdInv, OrderInv, LogIn
  PROVE  OrderInv'
<1>1. CASE Refuse
  BY <1>1 DEF Refuse, OrderInv, Opening, NeverRejected, serverVars
<1>2. CASE Dial
  <2>1. Request(FirstRequest) \in Written(BeforeGreeting)
    BY WrittenRequests, TablesAssumption DEF FirstRequest, Request, BeforeGreeting
  <2>2. toServer' \in Seq(Written(BeforeGreeting)) /\ toServer' \in Seq(AllWritten)
    BY <1>2, <2>1 DEF Dial, Written, AllWritten
  <2> QED
    BY <1>2, <2>2 DEF Dial, OrderInv, Opening, NeverRejected
<1>3. CASE GiveUp
  BY <1>3, ClosingSession DEF GiveUp, serverVars
<1>4. ASSUME NEW at \in SUBSET Login, LoginReads(at)
      PROVE  /\ UNCHANGED <<alive, stage, rejected>>
             /\ alive /\ stage = "new" => main = "info" /\ Received.name # "server_info"
             /\ toBot \in Seq(Ungreeted) => toBot' \in Seq(Ungreeted)
  <2>1. ASSUME alive, stage = "new"
        PROVE  main = "info" /\ Received.name # "server_info"
    <3>1. toBot # <<>> /\ toBot \in Seq(Ungreeted) /\ main \in {"info", "crashed"}
      BY <1>4, <2>1 DEF LoginReads, OrderInv, Opening
    <3>2. Received \in Ungreeted
      BY <3>1 DEF Received
    <3> QED
      BY <1>4, <3>1, <3>2 DEF LoginReads, Verified, Ungreeted, Login
  <2> QED
    BY <1>4, <2>1 DEF LoginReads, serverVars
<1>5. CASE LoginStep
  <2> DEFINE r == Request(LoginRequest[NextLogin(main)])
  <2>1. LoginRequest[NextLogin(main)] \in BeforeLogin \cap DOMAIN Filled
    <3>1. NextLogin(main) \in {"nick", "status", "icon", "login"}
      BY <1>5 DEF LoginStep, LoginReads, NextLogin
    <3>2. LoginRequest[NextLogin(main)] \in {"user.set_nick", "user.set_status", "user.set_icon",
                                            "send_login"}
      BY <3>1 DEF LoginRequest
    <3> QED
      BY <3>2, TablesAssumption DEF BeforeLogin, Spoken
  <2>2. r \in Written(BeforeLogin) /\ r \in AllWritten
    BY <2>1, WrittenRequests DEF Request, Written
  <2>3. UNCHANGED <<alive, stage, rejected>> /\ ~(alive /\ stage = "new")
    BY <1>4, <1>5 DEF LoginStep, Login
  <2>4. toServer' \in {toServer, toServer \o <<r>>}
    BY <1>5 DEF LoginStep, Write
  <2> HIDE DEF r
  <2>5. toServer' \in Seq(AllWritten)
    BY <2>2, <2>4 DEF OrderInv
  <2>6. alive /\ stage = "greeted" => toServer' \in Seq(Written(BeforeLogin))
    BY <2>2, <2>4 DEF OrderInv
  <2> QED
    BY <2>3, <2>5, <2>6 DEF OrderInv, NeverRejected
<1>6. CASE LoginAccepted \/ LoginUnexpected
  <2>1. PICK at \in SUBSET Login : LoginReads(at)
    BY <1>6 DEF LoginAccepted, LoginUnexpected, Login
  <2>2. toServer' = toServer /\ main' \in {"privileges", "crashed"}
    BY <1>6 DEF LoginAccepted, LoginUnexpected
  <2>3. alive /\ stage = "new" => main' = "crashed"
    BY <1>4, <1>6, <2>1 DEF LoginAccepted, LoginUnexpected, LoginReads
  <2> QED
    BY <1>4, <2>1, <2>2, <2>3 DEF OrderInv, Opening, NeverRejected
<1>7. CASE LoginDone
  <2>1. Request("chat.join_chat") \in AllWritten
    BY WrittenRequests, TablesAssumption DEF Request
  <2>2. <<Request("chat.join_chat")>> \o Subscriptions \in Seq(AllWritten)
    BY <2>1, SubscriptionsWritten
  <2>3. alive => stage = "in"
    BY <1>7 DEF LoginDone, IdInv, InSession
  <2> QED
    BY <1>7, <2>2, <2>3, WritingFreely DEF LoginDone, serverVars
<1> QED
  BY <1>1, <1>2, <1>3, <1>5, <1>6, <1>7 DEF LogIn, LoginTimeout, LoginUnverified

(* A request the server finds is one it knows, is complete and comes in its  *)
(* turn.                                                                    *)
LEMMA ServeOrdered ==
  ASSUME IdInv, OrderInv, Serve
  PROVE  OrderInv'
<1> DEFINE m == Head(toServer)
<1>1. alive /\ alive' /\ UNCHANGED main /\ toServer # <<>> /\ toServer' = Tail(toServer)
  BY DEF Serve
<1>2. m \in AllWritten /\ toServer' \in Seq(AllWritten)
  BY <1>1 DEF OrderInv
<1>3. /\ stage = "new" => m \in Written(BeforeGreeting)
      /\ stage = "greeted" => /\ m \in Written(BeforeLogin)
                              /\ toServer' \in Seq(Written(BeforeLogin))
  BY <1>1 DEF OrderInv, Opening
<1>4. m.name \in DOMAIN Filled /\ Complete(m) /\ m.name # "ping"
  BY <1>2 DEF AllWritten, Written, Serve
<1>5. m.name \in DOMAIN Replies
  BY <1>4, TablesAssumption, RepliesAssumption
<1>6. Allowed(m.name)
  BY <1>3 DEF Allowed, OrderInv, Written
<1>7. ~rejected' /\ \E answer \in Replies[m.name] : stage' = NextStage(answer)
  BY <1>4, <1>5, <1>6 DEF Serve, OrderInv, NeverRejected
<1>8. CASE stage = "new"
  <2>1. m.name = "client_info"
    BY <1>3, <1>8 DEF Written, BeforeGreeting
  <2>2. stage' = NextStage(<<"server_info">>)
    BY <1>5, <1>7, <2>1, TablesAssumption, RepliesAssumption
  <2>3. stage' = "greeted"
    BY <1>8, <2>2 DEF NextStage
  <2>4. toServer \in Seq(Written(BeforeGreeting))
    BY <1>1, <1>8 DEF OrderInv, Opening
  <2>5. Written(BeforeGreeting) \subseteq Written(BeforeLogin)
    BY FewerWritten DEF BeforeGreeting, BeforeLogin
  <2>6. toServer' \in Seq(Written(BeforeLogin))
    BY <1>1, <2>4, <2>5
  <2> QED
    BY <1>2, <1>7, <2>3, <2>6 DEF OrderInv, NeverRejected
<1>9. CASE stage # "new"
  <2>1. stage' \in {stage, "in"} /\ stage \in {"greeted", "in"}
    BY <1>7, <1>9 DEF NextStage, OrderInv
  <2> QED
    BY <1>2, <1>3, <1>7, <2>1 DEF OrderInv, NeverRejected
<1> QED
  BY <1>8, <1>9

LEMMA ServerOrdered ==
  ASSUME IdInv, OrderInv, Server
  PROVE  OrderInv'
<1>1. CASE Serve
  BY <1>1, ServeOrdered
<1>2. CASE TakePing
  <2>1. /\ toServer' = Tail(toServer) /\ toServer # <<>>
        /\ UNCHANGED <<stage, rejected, alive, toBot, main>>
    BY <1>2 DEF TakePing
  <2>2. toServer' \in Seq(AllWritten)
    BY <2>1 DEF OrderInv
  <2>3. alive /\ stage = "new" => toServer' \in Seq(Written(BeforeGreeting))
    BY <2>1 DEF OrderInv, Opening
  <2>4. alive /\ stage = "greeted" => toServer' \in Seq(Written(BeforeLogin))
    BY <2>1 DEF OrderInv
  <2> QED
    BY <2>1, <2>2, <2>3, <2>4 DEF OrderInv, Opening, NeverRejected
<1>3. ASSUME NEW m \in Ungreeted, toBot' = Append(toBot, m),
             UNCHANGED <<alive, stage, rejected, toServer, main>>
      PROVE  OrderInv'
  <2>1. toBot \in Seq(Ungreeted) => toBot' \in Seq(Ungreeted)
    BY <1>3
  <2> QED
    BY <1>3, <2>1, WritingNothing
<1>4. ASSUME NEW name \in News, Tell(name)
      PROVE  OrderInv'
  BY <1>4 DEF Tell, OrderInv, NeverRejected, serverVars
<1>5. CASE SendPing
  <2>1. Sent("send_ping", pings) \in Ungreeted
    BY SentNames DEF IdInv, Tellable, Ungreeted
  <2> QED
    BY <1>3, <1>5, <2>1 DEF SendPing
<1>6. ASSUME NEW name \in News, Break(name)
      PROVE  OrderInv'
  <2> DEFINE m == [Sent(name, NoNumber) EXCEPT !.fields = {}]
  <2>1. m = [name |-> name, fields |-> {}, number |-> NoNumber]
    BY DEF Sent
  <2>2. m \in AllSent
    BY BrokenNames, NewsAssumption DEF Tellable
  <2>3. name = "server_info" => ~Complete(m)
    BY <2>1, TablesAssumption DEF Complete
  <2>4. m \in Ungreeted
    BY <2>1, <2>2, <2>3 DEF Ungreeted
  <2> HIDE DEF m
  <2> QED
    BY <1>3, <1>6, <2>4 DEF Break, serverVars, m
<1>7. CASE Drop
  BY <1>7, ClosingSession DEF Drop, serverVars
<1> QED
  BY <1>1, <1>2, <1>4, <1>5, <1>6, <1>7 DEF Server

(* What the handlers write. *)
LEMMA HandleOrdered ==
  ASSUME IdInv, OrderInv, Handle
  PROVE  OrderInv'
<1>1. PICK names : Handles(names)
  BY DEF Handle, HandlePing, HandleCreated, HandleInvitation, HandleChanged,
         HandleListed, HandleTalk, HandleInfo, HandleOther
<1>2. UNCHANGED <<alive, stage, rejected>> /\ (alive => stage = "in")
  BY <1>1 DEF Handles, InLoop, IdInv, InSession, serverVars
<1>3. ASSUME NEW n \in DOMAIN Filled, Write(<<Request(n)>>, main)
      PROVE  OrderInv'
  BY <1>2, <1>3, OneWritten, WritingFreely
<1>4. CASE UNCHANGED toServer
  BY <1>2, <1>4 DEF OrderInv, NeverRejected
<1>5. CASE HandlePing
  <2>1. Received \in AllSent
    BY <1>1 DEF Handles, Received, IdInv
  <2>2. Received.number \in Nat \cup {NoNumber}
    BY <2>1 DEF AllSent
  <2>3. RequestWith("ping", Received.number) \in AllWritten
    BY <2>2, WrittenRequests, TablesAssumption
  <2> DEFINE r == RequestWith("ping", Received.number)
  <2> HIDE DEF r
  <2>4. <<r>> \in Seq(AllWritten)
    BY <2>3 DEF r
  <2>5. Write(<<r>>, main)
    BY <1>5 DEF HandlePing, r
  <2> QED
    BY <1>2, <2>4, <2>5, WritingFreely
<1>6. CASE HandleCreated
  <2>1. CASE Write(<<Request("chat.join_chat"), Request("chat.invite_user")>>, main)
    <3> DEFINE rs == <<Request("chat.join_chat"), Request("chat.invite_user")>>
    <3>1. rs \in Seq(AllWritten)
      BY OneWritten, TablesAssumption
    <3> HIDE DEF rs
    <3>2. Write(rs, main)
      BY <2>1 DEF rs
    <3> QED
      BY <1>2, <3>1, <3>2, WritingFreely
  <2> QED
    BY <1>3, <1>6, <2>1, TablesAssumption DEF HandleCreated
<1>7. CASE HandleInvitation \/ HandleChanged
  BY <1>3, <1>4, <1>7, TablesAssumption DEF HandleInvitation, HandleChanged, Silent
<1>8. CASE HandleTalk
  <2>1. Said \subseteq DOMAIN Filled
    BY SaidAssumption, TablesAssumption
  <2>2. CASE Reloads
    BY <1>2, <2>2, ReloadingWrites
  <2> QED
    BY <1>3, <1>4, <1>8, <2>1, <2>2 DEF HandleTalk, Silent
<1>9. CASE HandleListed \/ HandleInfo \/ HandleOther
  BY <1>4, <1>9 DEF HandleListed, HandleInfo, HandleOther
<1> QED
  BY <1>5, <1>6, <1>7, <1>8, <1>9 DEF Handle

LEMMA OrderKept ==
  ASSUME IdInv, OrderInv, [Next]_vars
  PROVE  OrderInv'
<1>1. ASSUME connected, UNCHANGED <<alive, stage, rejected>>, NEW n \in DOMAIN Filled,
             Write(<<Request(n)>>, main)
      PROVE  OrderInv'
  BY <1>1, OneWritten, WritingFreely DEF IdInv, InSession
<1>2. CASE Call \/ Announce
  BY <1>1, <1>2, TablesAssumption, WritingNothing
     DEF Call, InLoop, Announce, Announcing, Silent, serverVars, botVars
<1>3. CASE LookUp \/ UseReleased \/ Web \/ UNCHANGED vars
  BY <1>3, WritingNothing DEF LookUp, UseReleased, Web, vars, serverVars
<1>4. CASE Hup
  <2>1. UNCHANGED <<alive, stage, rejected, toBot>>
    BY <1>4 DEF Hup, serverVars
  <2>2. CASE connected /\ Reloads
    BY <2>1, <2>2, ReloadingWrites DEF IdInv, InSession
  <2> QED
    BY <1>4, <2>1, <2>2, WritingNothing DEF Hup, Silent
<1>5. CASE ReadFails
  BY <1>5, ClosingSession DEF ReadFails, serverVars
<1>6. CASE Redial
  BY <1>6 DEF Redial, OrderInv, Opening, NeverRejected, serverVars
<1> QED
  BY <1>2, <1>3, <1>4, <1>5, <1>6, LogInOrdered, HandleOrdered, ServerOrdered DEF Next, Bot

(* The server never rejects a request: every one has its fields and comes   *)
(* when the session allows it, whatever a server tells, breaks off or leaves *)
(* unanswered during the login, and wherever a reload falls (the order of    *)
(* wr_client_login, wr_connected).                                          *)
THEOREM KeepsToProtocol == Spec => []NeverRejected
<1>1. Init => OrderInv
  BY DEF Init, OrderInv, NeverRejected
<1>2. IdInv /\ OrderInv /\ [Next]_vars => OrderInv'
  BY OrderKept
<1>3. OrderInv => NeverRejected
  BY DEF OrderInv
<1> QED
  BY <1>1, <1>2, <1>3, IdInvariant, PTL DEF Spec
=============================================================================
