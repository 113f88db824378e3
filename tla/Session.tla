------------------------------ MODULE Session -------------------------------
(***************************************************************************)
(* The process and its session: client.c (connect, login, disconnect,      *)
(* reconnect, the callback of the server's socket) and main.c (the run     *)
(* loop and the thread that waits for signals).                            *)
(*                                                                         *)
(* The main thread connects once before the run loop starts and once,      *)
(* after ten seconds, whenever the session is lost; nothing else connects. *)
(* The signal thread clears wr_running and closes the session while the    *)
(* main thread is wherever it is; no lock protects what the two share, so  *)
(* the statements of wr_client_disconnect, which both execute, and those   *)
(* at the end of wr_client_connect are steps of their own.                 *)
(*                                                                         *)
(* wr_socket stands for itself and for wr_p7_socket, wr_server and         *)
(* wr_password, which are assigned, and released, in neighbouring          *)
(* statements: a release in the midst of the assignments finds old         *)
(* pointers or new ones, as it does before or after them.                  *)
(*                                                                         *)
(* A write to a session the server has closed may go unnoticed or fail,    *)
(* and a write that fails is reported to wr_current_window, which a bot    *)
(* without a terminal does not have: the process crashes.                  *)
(***************************************************************************)
EXTENDS Naturals

CONSTANTS
  Refuses,      \* the server may refuse a login
  MaxDrops,     \* bound: sessions the server closes
  MaxOutages,   \* bound: times the server goes down
  MaxQuits,     \* bound: signals INT, QUIT or TERM
  MaxMessages   \* bound: messages of the server

ASSUME BoundsAssumption ==
  /\ Refuses \in BOOLEAN
  /\ {MaxDrops, MaxOutages, MaxQuits, MaxMessages} \subseteq Nat

VARIABLES
  (* The server. *)
  up,           \* it accepts connections
  alive,        \* its end of the newest session is open
  answers,      \* it answers the login in time and by the protocol
  inbox,        \* messages it sent that were not read
  (* The main thread. *)
  main,         \* what it is doing
  connected,    \* wr_connected
  reconnecting, \* wr_reconnecting
  resume,       \* where it goes after wr_client_disconnect
  sock,         \* wr_socket: "none", "open", "closed" or "freed"
  inLoop,       \* wr_socket is in wr_runloop_sockets
  (* The signal thread. *)
  sig,          \* what it is doing
  pending,      \* a signal waits for it
  running,      \* wr_running
  (* Bounds and history. *)
  drops, outages, quits, messages,
  typed,        \* the standard input has unread input, or is at its end
  doubled,      \* a socket was released twice
  late,         \* sessions opened after wr_running was cleared
  left          \* an answer closed the session for good

serverVars == <<up, alive, answers, inbox>>
mainVars   == <<main, resume, connected, reconnecting, sock, inLoop>>
sigVars    == <<sig, pending, running>>
budget     == <<drops, outages, quits, messages, typed>>
history    == <<doubled, late, left>>
vars       == <<serverVars, mainVars, sigVars, budget, history>>

Ended == main \in {"exited", "crashed"}

(* The steps of wr_client_disconnect that are left to do, and those at the  *)
(* end of wr_client_connect.                                               *)
Parting == {"removing", "closing", "releasing"}
Opening == {"holding", "listening"}

TypeOK ==
  /\ up \in BOOLEAN /\ alive \in BOOLEAN /\ answers \in BOOLEAN
  /\ inbox \in Nat
  /\ main \in {"connecting", "login", "checking", "waiting", "reading", "handling", "fetching",
               "pinging", "sleeping", "exited", "crashed"} \cup Opening \cup Parting
  /\ resume \in {"checking", "pinging", "sleeping"}
  /\ connected \in BOOLEAN /\ reconnecting \in BOOLEAN /\ inLoop \in BOOLEAN
  /\ sock \in {"none", "open", "closed", "freed"}
  /\ sig \in {"off", "waiting", "quitting", "gone"} \cup Parting
  /\ pending \in BOOLEAN /\ running \in BOOLEAN
  /\ drops \in Nat /\ outages \in Nat /\ quits \in Nat /\ messages \in Nat
  /\ doubled \in BOOLEAN /\ typed \in BOOLEAN
  /\ late \in Nat
  /\ left \in BOOLEAN

(* main has read the configuration and the dictionary and is about to      *)
(* connect; the signals are blocked and their thread does not exist yet.   *)
Init ==
  /\ up \in BOOLEAN
  /\ alive = FALSE /\ answers = TRUE
  /\ inbox = 0
  /\ main = "connecting" /\ resume = "checking"
  /\ connected = FALSE /\ reconnecting = FALSE
  /\ sock = "none" /\ inLoop = FALSE
  /\ sig = "off" /\ pending = FALSE /\ running = TRUE
  /\ drops = 0 /\ outages = 0 /\ quits = 0 /\ messages = 0
  /\ typed \in BOOLEAN
  /\ doubled = FALSE
  /\ late = 0 /\ left = FALSE

-----------------------------------------------------------------------------
(* The server and the operator (external).                                 *)

GoDown ==
  /\ up /\ outages < MaxOutages
  /\ up' = FALSE
  /\ alive' = FALSE
  /\ outages' = outages + 1
  /\ UNCHANGED <<answers, inbox, mainVars, sigVars, drops, quits, messages, typed, history>>

ComeUp ==
  /\ ~up
  /\ up' = TRUE
  /\ UNCHANGED <<alive, answers, inbox, mainVars, sigVars, budget, history>>

Drop ==
  /\ alive /\ drops < MaxDrops
  /\ alive' = FALSE
  /\ drops' = drops + 1
  /\ UNCHANGED <<up, answers, inbox, mainVars, sigVars, outages, quits, messages, typed, history>>

(* During a login it falls silent, for longer than the 30 seconds of a read, *)
(* or sends what does not verify or is not expected.                       *)
Falter ==
  /\ main = "login" /\ alive /\ answers
  /\ answers' = FALSE
  /\ UNCHANGED <<up, alive, inbox, mainVars, sigVars, budget, history>>

Tell ==
  /\ alive /\ connected /\ messages < MaxMessages
  /\ inbox' = inbox + 1
  /\ messages' = messages + 1
  /\ UNCHANGED <<up, alive, answers, mainVars, sigVars, drops, outages, quits, typed, history>>

Kill ==
  /\ ~Ended /\ quits < MaxQuits
  /\ pending' = TRUE
  /\ quits' = quits + 1
  /\ UNCHANGED <<serverVars, mainVars, sig, running, drops, outages, messages, typed, history>>

(* Somebody types; what is typed is never read. *)
Type ==
  /\ ~typed
  /\ typed' = TRUE
  /\ UNCHANGED <<serverVars, mainVars, sigVars, drops, outages, quits, messages, history>>

-----------------------------------------------------------------------------
(* What both threads do.                                                   *)

(* The end of the process closes what it has open. *)
End(how) ==
  /\ main' = how
  /\ alive' = FALSE
  /\ inbox' = 0
  /\ UNCHANGED <<resume, connected, reconnecting, sock, inLoop>>

(* The statements of wr_client_disconnect.  wr_connected is cleared if it   *)
(* was set; the socket leaves the run loop.                                *)
Clear == /\ connected' = FALSE
         /\ UNCHANGED <<alive, inbox, sock, inLoop, doubled>>

\* A slip: the socket stays in the list of the run loop.
RemoveNothing == UNCHANGED <<alive, inbox, connected, sock, inLoop, doubled>>

Remove == /\ inLoop' = FALSE
          /\ UNCHANGED <<alive, inbox, connected, sock, doubled>>

(* It is closed: the server's end of this session with it. *)
Shut ==
  /\ IF sock = "open" THEN sock' = "closed" /\ alive' = FALSE /\ inbox' = 0
                      ELSE UNCHANGED <<sock, alive, inbox>>
  /\ UNCHANGED <<connected, inLoop, doubled>>

(* It is released, and the pointer not cleared.  A socket that another      *)
(* thread assigned since the last statement is closed with the last of its  *)
(* owners.                                                                 *)
Release ==
  /\ sock' = IF sock = "none" THEN "none" ELSE "freed"
  /\ doubled' = (doubled \/ sock = "freed")
  /\ IF sock = "open" THEN alive' \in {alive, FALSE} ELSE UNCHANGED alive
  /\ UNCHANGED <<inbox, connected, inLoop>>

(* The statement a thread at a place executes, and what is then left. *)
Part(place, next) ==
  \/ place = "removing"  /\ Remove  /\ next = "closing"
  \/ place = "closing"   /\ Shut    /\ next = "releasing"
  \/ place = "releasing" /\ Release /\ next = "done"

(* A call with a pointer that was released uses freed memory, and one       *)
(* before the first session a null pointer; the process may survive either. *)
Stale == sock \in {"none", "freed"}

-----------------------------------------------------------------------------
(* The main thread.                                                        *)

\* A slip: the flag wr_reconnecting is never cleared.
ReturnReconnecting ==
  /\ main' = IF sig = "off" THEN "checking" ELSE "pinging"
  /\ UNCHANGED <<resume, reconnecting>>
  /\ sig' = IF sig = "off" THEN "waiting" ELSE sig

(* The return from wr_client_connect.  After the first call the signal     *)
(* thread is created and the run loop starts; later calls are made by the  *)
(* callback of the server's socket, which then returns false.              *)
Return ==
  /\ main' = IF sig = "off" THEN "checking" ELSE "pinging"
  /\ reconnecting' = FALSE
  /\ UNCHANGED resume
  /\ sig' = IF sig = "off" THEN "waiting" ELSE sig

(* wr_client_connect: no address can be connected to. *)
DialFails ==
  /\ main = "connecting" /\ ~up
  /\ Return
  /\ UNCHANGED <<serverVars, connected, sock, inLoop, pending, running, budget, history>>

Dial ==
  /\ main = "connecting" /\ up
  /\ main' = "login"
  /\ alive' = TRUE /\ answers' = TRUE
  /\ inbox' = 0
  /\ late' = IF running THEN late ELSE late + 1
  /\ UNCHANGED <<up, resume, connected, reconnecting, sock, inLoop, sigVars, budget,
                 doubled, left>>

(* wr_client_login succeeds, and the public chat is joined on the new       *)
(* session: wr_connected is set before the session can be used.            *)
LoginDone ==
  /\ main = "login" /\ answers
  /\ connected' = TRUE
  /\ main' = "holding"
  /\ UNCHANGED <<serverVars, resume, reconnecting, sock, inLoop, sigVars, budget, history>>

(* The new session takes the place of the old one, *)
Hold ==
  /\ main = "holding"
  /\ sock' = "open"
  /\ main' = "listening"
  /\ UNCHANGED <<serverVars, resume, connected, reconnecting, inLoop, sigVars, budget, history>>

(* enters the run loop, whatever became of it since, and the watchers are   *)
(* subscribed on it.                                                       *)
Listen ==
  /\ main = "listening"
  /\ \/ /\ inLoop' = TRUE
        /\ Return
        /\ UNCHANGED <<alive, inbox, connected, sock>>
     \/ ~alive /\ End("crashed") /\ UNCHANGED sig
  /\ UNCHANGED <<up, answers, pending, running, budget, history>>

(* An answer does not come within 30 seconds, or does not verify: the       *)
(* attempt is given up.                                                    *)
LoginLost ==
  /\ main = "login" /\ (~alive \/ ~answers)
  /\ Return
  /\ UNCHANGED <<serverVars, connected, sock, inLoop, pending, running, budget, history>>

(* An answer is an error or not the one expected, or a request cannot be    *)
(* written.                                                                *)
LoginCrash ==
  /\ main = "login" /\ (Refuses \/ ~alive \/ ~answers)
  /\ End("crashed")
  /\ UNCHANGED <<up, answers, sigVars, budget, history>>

\* A slip: the run loop does not look at wr_running.
CheckNothing ==
  /\ main = "checking"
  /\ main' = "waiting"
  /\ UNCHANGED <<serverVars, resume, connected, reconnecting, sock, inLoop, sigVars, budget,
                 history>>

Check ==
  /\ main = "checking" /\ running
  /\ main' = "waiting"
  /\ UNCHANGED <<serverVars, resume, connected, reconnecting, sock, inLoop, sigVars, budget,
                 history>>

Exit ==
  /\ main = "checking" /\ ~running
  /\ End("exited")
  /\ UNCHANGED <<up, answers, sigVars, budget, history>>

Readable == inLoop /\ (inbox > 0 \/ ~alive)

(* The wait ends with the socket of the server: there is a message, or the *)
(* end of the stream.                                                      *)
WakeForServer ==
  /\ main = "waiting" /\ Readable
  /\ main' = "reading"
  /\ UNCHANGED <<serverVars, resume, connected, reconnecting, sock, inLoop, sigVars, budget,
                 history>>

(* The wait ends with the standard input, whose callback reads nothing, or *)
(* after 30 seconds without either.                                        *)
WakeForStdin ==
  /\ main = "waiting" /\ typed
  /\ main' = "checking"
  /\ UNCHANGED <<serverVars, resume, connected, reconnecting, sock, inLoop, sigVars, budget,
                 history>>

Timeout ==
  /\ main = "waiting" /\ ~typed /\ ~Readable
  /\ main' = "pinging"
  /\ UNCHANGED <<serverVars, resume, connected, reconnecting, sock, inLoop, sigVars, budget,
                 history>>

(* A ping is sent if the bot is connected and the last one is a minute old; *)
(* the signal thread may close the session between the test and the write.     *)
Ping ==
  /\ main = "pinging"
  /\ \/ /\ main' = "checking"
        /\ UNCHANGED <<alive, inbox, resume, connected, reconnecting, sock, inLoop>>
     \/ (connected \/ sig \notin {"off", "waiting"}) /\ ~alive /\ End("crashed")
  /\ UNCHANGED <<up, answers, sigVars, budget, history>>

(* wr_runloop_server_callback reads a message. *)
ReadMessage ==
  /\ main = "reading" /\ sock = "open" /\ inbox > 0
  /\ main' = "handling"
  /\ inbox' = inbox - 1
  /\ UNCHANGED <<up, alive, answers, resume, connected, reconnecting, sock, inLoop, sigVars,
                 budget, history>>

(* Its handler does what it does, which may be to write, and /quit. *)
Answer ==
  /\ main \in {"handling", "fetching"}
  /\ \/ /\ main' = "checking"
        /\ UNCHANGED <<alive, inbox, resume, connected, reconnecting, sock, inLoop>>
     \/ ~alive /\ End("crashed")
  /\ running' \in {running, FALSE}
  /\ UNCHANGED <<up, answers, sig, pending, budget, history>>

(* A watcher's service asks the web before the handler goes on: the request *)
(* has no timeout.                                                         *)
Fetch ==
  /\ main = "handling"
  /\ main' = "fetching"
  /\ UNCHANGED <<serverVars, resume, connected, reconnecting, sock, inLoop, sigVars, budget,
                 history>>

(* A line of an answer is /disconnect, which needs a session, and one       *)
(* before it may be /quit.                                                 *)
Leave ==
  /\ main = "handling" /\ connected
  /\ Clear
  /\ main' = "removing" /\ resume' = "checking"
  /\ left' = TRUE
  /\ running' \in {running, FALSE}
  /\ UNCHANGED <<up, answers, reconnecting, sig, pending, budget, late>>

(* Nothing can be read: the session is lost, or the message is not of the  *)
(* protocol, or the signal thread closed the socket.                       *)
ReadFails ==
  /\ main = "reading"
  /\ \/ /\ Clear
        /\ main' = "removing"
        /\ IF reconnecting
             THEN resume' = "pinging" /\ UNCHANGED reconnecting
             ELSE resume' = "sleeping" /\ reconnecting' = TRUE
     \/ Stale /\ End("crashed") /\ UNCHANGED doubled
  /\ UNCHANGED <<up, answers, sigVars, budget, late, left>>

(* The rest of wr_client_disconnect. *)
Close ==
  /\ \E next \in Parting \cup {"done"} :
       /\ Part(main, next)
       /\ main' = IF next = "done" THEN resume ELSE next
  /\ UNCHANGED <<up, answers, resume, reconnecting, sigVars, budget, late, left>>

(* A pointer that was released does not bear it. *)
CloseCrash ==
  /\ main \in Parting /\ Stale
  /\ End("crashed")
  /\ UNCHANGED <<up, answers, sigVars, budget, history>>

(* wr_client_reconnect after its ten seconds; wr_running is not looked at. *)
Redial ==
  /\ main = "sleeping"
  /\ main' = "connecting"
  /\ UNCHANGED <<serverVars, resume, connected, reconnecting, sock, inLoop, sigVars, budget,
                 history>>

-----------------------------------------------------------------------------
(* The signal thread.                                                      *)

TakeSignal ==
  /\ ~Ended /\ sig = "waiting" /\ pending
  /\ running' = FALSE
  /\ pending' = FALSE
  /\ sig' = "quitting"
  /\ UNCHANGED <<serverVars, mainVars, budget, history>>

(* wr_client_disconnect, step by step. *)
CloseSession ==
  /\ ~Ended
  /\ \/ sig = "quitting" /\ Clear /\ sig' = "removing"
     \/ \E next \in Parting \cup {"done"} :
          /\ Part(sig, next)
          /\ sig' = IF next = "done" THEN "gone" ELSE next
  /\ UNCHANGED <<up, answers, main, resume, reconnecting, pending, running, budget, late, left>>

CloseSessionCrash ==
  /\ ~Ended /\ Stale
  /\ sig \in Parting \/ (sig = "quitting" /\ connected)
  /\ End("crashed")
  /\ UNCHANGED <<up, answers, sigVars, budget, history>>

-----------------------------------------------------------------------------
Main == \/ DialFails
        \/ Dial
        \/ LoginDone
        \/ Hold
        \/ Listen
        \/ LoginLost
        \/ LoginCrash
        \/ Check
        \/ Exit
        \/ WakeForServer
        \/ WakeForStdin
        \/ Timeout
        \/ Ping
        \/ ReadMessage
        \/ Answer
        \/ Fetch
        \/ Leave
        \/ ReadFails
        \/ Close
        \/ CloseCrash
        \/ Redial

Signal == TakeSignal \/ CloseSession \/ CloseSessionCrash

World == GoDown \/ ComeUp \/ Drop \/ Falter \/ Tell \/ Kill \/ Type

Next == Main \/ Signal \/ World

Spec == Init /\ [][Next]_vars

(* Both threads run, every wait of the main thread but the one for the web  *)
(* ends by itself, and the server comes back after an outage.              *)
FairSpec == /\ Spec
            /\ WF_vars(main # "fetching" /\ Main) /\ WF_vars(Signal)
            /\ WF_vars(ComeUp)

-----------------------------------------------------------------------------
(* Properties. *)

(* As long as the process is not told to end, the run loop is entered, and  *)
(* waits, with a socket of the server exactly when there is a session, and  *)
(* never with one that was closed or released, although a session is made   *)
(* and undone statement by statement and both threads may undo it.         *)
LoopHoldsOpen ==
  (main \in {"checking", "waiting"} /\ running) =>
    /\ connected <=> inLoop
    /\ inLoop <=> sock = "open"

(* Until a signal is taken, no socket is released twice: the failed        *)
(* attempt to reconnect leaves a released wr_socket behind, and nothing     *)
(* reads it.                                                                *)
ReleasedOnce == sig \in {"off", "waiting"} => ~doubled

(* After wr_running was cleared at most one more session is opened: the     *)
(* attempt under way (wr_client_reconnect does not look at wr_running).     *)
OneSessionAfterQuit == late <= 1

(* No request to the web lasts for ever. *)
WebAnswers == []<>(main # "fetching")

(* A process that is told to stop stops, wherever the main thread is when   *)
(* the signal thread closes the session under it, unless it waits for the   *)
(* web for ever.                                                           *)
QuitStops == WebAnswers => (pending ~> Ended)

(* A lost session is replaced by a new one, every time it is lost, if the   *)
(* server stays up, answers the new login and does not close it meanwhile,  *)
(* no answer is /disconnect, and the standard input is silent: one that is  *)
(* never read may keep the loop busy.                                      *)
LossIsRepaired ==
  WebAnswers =>
    ((connected /\ ~alive /\ up /\ running)
       ~> \/ connected /\ alive
          \/ ~up \/ (main = "login" /\ (~alive \/ ~answers))
          \/ ~running \/ left \/ typed \/ Ended)

(* A lost session is replaced by a new one once the server is up again and  *)
(* answers the login.                                                      *)
AutoReconnects ==
  WebAnswers =>
    ((connected /\ ~alive /\ running)
       ~> \/ connected /\ alive
          \/ main = "login" /\ ~answers
          \/ ~running \/ left \/ typed \/ Ended)

(* The main thread undoes a session it will replace. *)
Losing == main \in Parting /\ resume = "sleeping"

(* The place of the session in Link. *)
Place ==
  CASE Ended -> "over"
    [] ~Ended /\ connected -> "online"
    [] ~Ended /\ ~connected /\ main = "login" -> "login"
    [] ~Ended /\ ~connected /\ (main \in {"connecting", "sleeping"} \/ Losing) -> "fresh"
    [] OTHER -> "idle"

(* The process implements Link, whatever the two threads and the server do  *)
(* (wr_client_connect, wr_client_reconnect, wd_signal_thread): a loss leads *)
(* to one attempt, an attempt that fails or an order to none, and after the *)
(* process was told to end one begins at most.                              *)
Abstract == INSTANCE Link WITH link <- Place, spent <- (late > 0)

OneAttemptEach == Abstract!Spec
=============================================================================
