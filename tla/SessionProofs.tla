--------------------------- MODULE SessionProofs ----------------------------
(* Proofs about Session, for every value of its bounds. *)
EXTENDS Session, TLAPS

-----------------------------------------------------------------------------
(* The type invariant, in three parts: Boolean variables, places and       *)
(* counters.                                                               *)

FlagsTyped ==
  /\ up \in BOOLEAN /\ alive \in BOOLEAN /\ answers \in BOOLEAN
  /\ connected \in BOOLEAN /\ reconnecting \in BOOLEAN /\ inLoop \in BOOLEAN
  /\ pending \in BOOLEAN /\ running \in BOOLEAN
  /\ doubled \in BOOLEAN /\ typed \in BOOLEAN /\ left \in BOOLEAN

PlacesTyped ==
  /\ main \in {"connecting", "login", "checking", "waiting", "reading", "handling", "fetching",
               "pinging", "sleeping", "exited", "crashed"} \cup Opening \cup Parting
  /\ resume \in {"checking", "pinging", "sleeping"}
  /\ sock \in {"none", "open", "closed", "freed"}
  /\ sig \in {"off", "waiting", "quitting", "gone"} \cup Parting

CountsTyped ==
  /\ inbox \in Nat
  /\ drops \in Nat /\ outages \in Nat /\ quits \in Nat /\ messages \in Nat
  /\ late \in Nat

LEMMA TypeParts == TypeOK <=> FlagsTyped /\ PlacesTyped /\ CountsTyped
BY DEF TypeOK, FlagsTyped, PlacesTyped, CountsTyped

(* What is left of wr_client_disconnect does not touch wr_connected, and     *)
(* each statement what it is for.                                          *)
LEMMA PartEffect ==
  ASSUME NEW place, NEW next, Part(place, next)
  PROVE  /\ UNCHANGED connected
         /\ inbox' = inbox \/ inbox' = 0
         /\ \/ place = "removing" /\ next = "closing" /\ ~inLoop' /\ UNCHANGED <<sock, doubled>>
            \/ /\ place = "closing" /\ next = "releasing"
               /\ sock' = IF sock = "open" THEN "closed" ELSE sock
               /\ UNCHANGED <<inLoop, doubled>>
            \/ /\ place = "releasing" /\ next = "done"
               /\ sock' = IF sock = "none" THEN "none" ELSE "freed"
               /\ sock # "freed" /\ ~doubled => ~doubled'
               /\ UNCHANGED inLoop
<1>1. CASE place = "removing" /\ Remove /\ next = "closing"
  BY <1>1 DEF Remove
<1>2. CASE place = "closing" /\ Shut /\ next = "releasing"
  BY <1>2 DEF Shut
<1>3. CASE place = "releasing" /\ Release /\ next = "done"
  BY <1>3, Zenon DEF Release
<1> QED
  BY <1>1, <1>2, <1>3 DEF Part

(* It is executed by the main thread *)
LEMMA CloseParts ==
  ASSUME Close
  PROVE  /\ \E next \in Parting \cup {"done"} :
              Part(main, next) /\ main' = IF next = "done" THEN resume ELSE next
         /\ UNCHANGED <<resume, reconnecting, sig, pending, running, late, left>>
BY DEF Close, sigVars

(* and by the signal thread. *)
LEMMA SessionParts ==
  ASSUME CloseSession
  PROVE  /\ \/ sig = "quitting" /\ sig' = "removing" /\ ~connected' /\ UNCHANGED sock
            \/ \E next \in Parting \cup {"done"} :
                 Part(sig, next) /\ sig' = IF next = "done" THEN "gone" ELSE next
         /\ UNCHANGED <<main, resume, reconnecting, pending, running, late, left>>
BY DEF CloseSession, Clear

(* A Boolean variable is set to a constant or to a formula, or is kept.    *)
LEMMA FlagsStep == FlagsTyped /\ [Next]_vars => FlagsTyped'
<1> SUFFICES ASSUME FlagsTyped, [Next]_vars PROVE FlagsTyped'
  OBVIOUS
<1> USE DEF FlagsTyped, serverVars, mainVars, sigVars, budget, history
<1>1. CASE World
  <2>1. CASE GoDown \/ ComeUp \/ Drop \/ Falter
    <3>1. CASE GoDown
      BY <3>1, Zenon DEF GoDown
    <3>2. CASE ComeUp
      BY <3>2, Zenon DEF ComeUp
    <3>3. CASE Drop
      BY <3>3, Zenon DEF Drop
    <3>4. CASE Falter
      BY <3>4, Zenon DEF Falter
    <3> QED
      BY <2>1, <3>1, <3>2, <3>3, <3>4
  <2>2. CASE Tell \/ Kill \/ Type
    <3>1. CASE Tell
      BY <3>1, Zenon DEF Tell
    <3>2. CASE Kill
      BY <3>2, Zenon DEF Kill
    <3>3. CASE Type
      BY <3>3, Zenon DEF Type
    <3> QED
      BY <2>2, <3>1, <3>2, <3>3
  <2> QED
    BY <1>1, <2>1, <2>2 DEF World
<1>2. CASE Signal
  <2>1. CASE TakeSignal
    BY <2>1, Zenon DEF TakeSignal
  <2>2. CASE CloseSession \/ Close
    <3>1. CASE CloseSession
      BY <3>1, Zenon DEF CloseSession, Part, Clear, Remove, Shut, Release
    <3>2. CASE Close
      BY <3>2, Zenon DEF Close, Part, Remove, Shut, Release
    <3> QED
      BY <2>2, <3>1, <3>2
  <2>3. CASE CloseSessionCrash
    BY <2>3, Zenon DEF CloseSessionCrash, End
  <2> QED
    BY <1>2, <2>1, <2>2, <2>3 DEF Signal
<1>3. CASE Close \/ CloseCrash
  <2>1. CASE Close
    BY <2>1, Zenon DEF Close, Part, Remove, Shut, Release
  <2>2. CASE CloseCrash
    BY <2>2, Zenon DEF CloseCrash, End
  <2> QED
    BY <1>3, <2>1, <2>2
<1>4. CASE DialFails \/ Dial \/ LoginDone \/ Hold \/ Listen \/ LoginLost \/ LoginCrash
  <2>1. CASE DialFails \/ LoginLost
    <3>1. CASE DialFails
      BY <3>1, Zenon DEF DialFails, Return
    <3>2. CASE LoginLost
      BY <3>2, Zenon DEF LoginLost, Return
    <3> QED
      BY <2>1, <3>1, <3>2
  <2>2. CASE Dial \/ LoginDone \/ Hold
    <3>1. CASE Dial
      BY <3>1, Zenon DEF Dial
    <3>2. CASE LoginDone
      BY <3>2, Zenon DEF LoginDone
    <3>3. CASE Hold
      BY <3>3, Zenon DEF Hold
    <3> QED
      BY <2>2, <3>1, <3>2, <3>3
  <2>3. CASE LoginCrash \/ Listen
    <3>1. CASE LoginCrash
      BY <3>1, Zenon DEF LoginCrash, End
    <3>2. CASE Listen
      BY <3>2, Zenon DEF Listen, Return, End
    <3> QED
      BY <2>3, <3>1, <3>2
  <2> QED
    BY <1>4, <2>1, <2>2, <2>3
<1>5. CASE Check \/ Exit \/ WakeForServer \/ WakeForStdin \/ Timeout \/ Ping
  <2>1. CASE Check \/ WakeForServer \/ WakeForStdin \/ Timeout
    <3>1. CASE Check
      BY <3>1, Zenon DEF Check
    <3>2. CASE WakeForServer
      BY <3>2, Zenon DEF WakeForServer
    <3>3. CASE WakeForStdin
      BY <3>3, Zenon DEF WakeForStdin
    <3>4. CASE Timeout
      BY <3>4, Zenon DEF Timeout
    <3> QED
      BY <2>1, <3>1, <3>2, <3>3, <3>4
  <2>2. CASE Exit \/ Ping
    <3>1. CASE Exit
      BY <3>1, Zenon DEF Exit, End
    <3>2. CASE Ping
      BY <3>2, Zenon DEF Ping, End
    <3> QED
      BY <2>2, <3>1, <3>2
  <2> QED
    BY <1>5, <2>1, <2>2
<1>6. CASE ReadMessage \/ Answer \/ Fetch \/ Leave \/ ReadFails
  <2>1. CASE ReadMessage \/ Fetch
    <3>1. CASE ReadMessage
      BY <3>1, Zenon DEF ReadMessage
    <3>2. CASE Fetch
      BY <3>2, Zenon DEF Fetch
    <3> QED
      BY <2>1, <3>1, <3>2
  <2>2. CASE Answer
    BY <2>2, Zenon DEF Answer, End
  <2>3. CASE Leave
    BY <2>3, Zenon DEF Leave, Clear
  <2>4. CASE ReadFails
    BY <2>4, Zenon DEF ReadFails, Clear, End
  <2> QED
    BY <1>6, <2>1, <2>2, <2>3, <2>4
<1>7. CASE Redial \/ UNCHANGED vars
  <2>1. CASE Redial
    BY <2>1, Zenon DEF Redial
  <2>2. CASE UNCHANGED vars
    BY <2>2, Zenon DEF vars
  <2> QED
    BY <1>7, <2>1, <2>2
<1> QED
  BY <1>1, <1>2, <1>3, <1>4, <1>5, <1>6, <1>7 DEF Next, Main

LEMMA PlacesStep == PlacesTyped /\ [Next]_vars => PlacesTyped'
<1> SUFFICES ASSUME PlacesTyped, [Next]_vars PROVE PlacesTyped'
  OBVIOUS
<1> USE DEF PlacesTyped, mainVars, sigVars, Opening, Parting
<1>1. CASE World
  BY <1>1 DEF World, GoDown, ComeUp, Drop, Falter, Tell, Kill, Type
<1>2. CASE Signal
  BY <1>2 DEF Signal, TakeSignal, CloseSession, CloseSessionCrash, Part, Clear, Remove, Shut,
              Release, End
<1>3. CASE Close \/ CloseCrash
  BY <1>3 DEF Close, CloseCrash, Part, Remove, Shut, Release, End
<1>4. CASE DialFails \/ Dial \/ LoginDone \/ Hold \/ Listen \/ LoginLost \/ LoginCrash
  BY <1>4 DEF DialFails, Dial, LoginDone, Hold, Listen, LoginLost, LoginCrash, Return, End
<1>5. CASE Check \/ Exit \/ WakeForServer \/ WakeForStdin \/ Timeout \/ Ping
  BY <1>5 DEF Check, Exit, WakeForServer, WakeForStdin, Timeout, Ping, End
<1>6. CASE ReadMessage \/ Answer \/ Fetch \/ Leave \/ ReadFails
  BY <1>6 DEF ReadMessage, Answer, Fetch, Leave, ReadFails, Clear, End
<1>7. CASE Redial \/ UNCHANGED vars
  BY <1>7 DEF Redial, vars
<1> QED
  BY <1>1, <1>2, <1>3, <1>4, <1>5, <1>6, <1>7 DEF Next, Main

LEMMA CountsStep == CountsTyped /\ [Next]_vars => CountsTyped'
<1> SUFFICES ASSUME CountsTyped, [Next]_vars PROVE CountsTyped'
  OBVIOUS
<1> USE DEF CountsTyped, serverVars, budget, history
<1>1. CASE World
  BY <1>1 DEF World, GoDown, ComeUp, Drop, Falter, Tell, Kill, Type
<1>2. CASE Signal
  <2>1. CASE TakeSignal
    BY <2>1 DEF TakeSignal
  <2>2. CASE CloseSession
    <3>1. inbox' \in Nat
      <4>1. Clear => inbox' = inbox
        BY DEF Clear
      <4> QED
        BY <2>2, <4>1, PartEffect DEF CloseSession
    <3> QED
      BY <2>2, <3>1 DEF CloseSession
  <2>3. CASE CloseSessionCrash
    BY <2>3 DEF CloseSessionCrash, End
  <2> QED
    BY <1>2, <2>1, <2>2, <2>3 DEF Signal
<1>3. CASE Close \/ CloseCrash
  <2>1. CASE Close
    <3>1. inbox' \in Nat
      BY <2>1, CloseParts, PartEffect
    <3> QED
      BY <2>1, <3>1 DEF Close
  <2>2. CASE CloseCrash
    BY <2>2 DEF CloseCrash, End
  <2> QED
    BY <1>3, <2>1, <2>2
<1>4. CASE DialFails \/ Dial \/ LoginDone \/ Hold \/ Listen \/ LoginLost \/ LoginCrash
  BY <1>4 DEF DialFails, Dial, LoginDone, Hold, Listen, LoginLost, LoginCrash, Return, End
<1>5. CASE Check \/ Exit \/ WakeForServer \/ WakeForStdin \/ Timeout \/ Ping
  BY <1>5 DEF Check, Exit, WakeForServer, WakeForStdin, Timeout, Ping, End
<1>6. CASE ReadMessage \/ Answer \/ Fetch \/ Leave \/ ReadFails
  <2>1. CASE ReadMessage
    BY <2>1 DEF ReadMessage
  <2>2. CASE Answer
    BY <2>2 DEF Answer, End
  <2>3. CASE Fetch
    BY <2>3 DEF Fetch
  <2>4. CASE Leave
    BY <2>4 DEF Leave, Clear
  <2>5. CASE ReadFails
    BY <2>5 DEF ReadFails, Clear, End
  <2> QED
    BY <1>6, <2>1, <2>2, <2>3, <2>4, <2>5
<1>7. CASE Redial \/ UNCHANGED vars
  BY <1>7 DEF Redial, vars
<1> QED
  BY <1>1, <1>2, <1>3, <1>4, <1>5, <1>6, <1>7 DEF Next, Main

(* Every variable keeps its type through every step of both threads, of the *)
(* server and of the operator.                                              *)
THEOREM TypeCorrect == Spec => []TypeOK
<1>1. Init => TypeOK
  <2>1. Init => FlagsTyped
    BY Zenon DEF Init, FlagsTyped
  <2>2. Init => PlacesTyped /\ CountsTyped
    BY DEF Init, PlacesTyped, CountsTyped
  <2> QED
    BY <2>1, <2>2, TypeParts
<1>2. TypeOK /\ [Next]_vars => TypeOK'
  <2>1. TypeOK' <=> FlagsTyped' /\ PlacesTyped' /\ CountsTyped'
    BY DEF TypeOK, FlagsTyped, PlacesTyped, CountsTyped
  <2> QED
    BY <2>1, TypeParts, FlagsStep, PlacesStep, CountsStep
<1> QED
  BY <1>1, <1>2, PTL DEF Spec

-----------------------------------------------------------------------------
(* The session while the main thread has it to itself. *)

(* Until a signal is taken only the main thread touches the session, and    *)
(* what it has done of wr_client_connect and wr_client_disconnect says what *)
(* is connected, in the run loop and open.  A process that was told to end  *)
(* by a signal knows it.                                                   *)
InOrder ==
  /\ main \notin Opening \cup Parting \cup {"exited", "crashed"}
       => (connected <=> inLoop) /\ (inLoop <=> sock = "open")
  /\ main = "reading" => connected
  /\ main \in {"connecting", "login", "sleeping"} => ~connected
  /\ main = "holding" => connected /\ ~inLoop
  /\ main = "listening" => connected /\ ~inLoop /\ sock = "open"
  /\ main = "removing" => ~connected /\ sock = "open"
  /\ main = "closing" => ~connected /\ ~inLoop /\ sock = "open"
  /\ main = "releasing" => ~connected /\ ~inLoop /\ sock = "closed"
  /\ resume # "pinging"
  /\ reconnecting =>
       main \in {"connecting", "login", "sleeping", "exited", "crashed"} \cup Opening \cup Parting
  /\ main \in Parting /\ reconnecting => resume = "sleeping"

Undisturbed ==
  /\ sig \in {"off", "waiting"} => InOrder /\ ~doubled
  /\ sig \notin {"off", "waiting"} => ~running

LEMMA UndisturbedKept ==
  ASSUME TypeOK, Undisturbed, [Next]_vars
  PROVE  Undisturbed'
<1> USE DEF Undisturbed, InOrder, Opening, Parting
<1>1. CASE World
  BY <1>1 DEF World, GoDown, ComeUp, Drop, Falter, Tell, Kill, Type, mainVars, sigVars, history
<1>2. CASE Signal
  <2>1. CASE TakeSignal
    BY <2>1 DEF TakeSignal, sigVars
  <2>2. CASE CloseSession
    BY <2>2, SessionParts, PartEffect
  <2>3. CASE CloseSessionCrash
    BY <2>3 DEF CloseSessionCrash, sigVars
  <2> QED
    BY <1>2, <2>1, <2>2, <2>3 DEF Signal
<1>3. CASE Close
  <2>1. PICK next \in Parting \cup {"done"} :
          Part(main, next) /\ main' = IF next = "done" THEN resume ELSE next
    BY <1>3, CloseParts
  <2>2. UNCHANGED <<resume, reconnecting, sig, running>>
    BY <1>3, CloseParts
  <2> QED
    BY <2>1, <2>2, PartEffect DEF TypeOK
<1>4. CASE DialFails \/ LoginLost
  BY <1>4 DEF DialFails, LoginLost, Return, history, TypeOK
<1>5. CASE Dial \/ LoginDone \/ Hold
  BY <1>5 DEF Dial, LoginDone, Hold, sigVars, history, TypeOK
<1>6. CASE Listen
  BY <1>6 DEF Listen, Return, End, history, TypeOK
<1>7. CASE LoginCrash \/ Exit \/ Ping \/ CloseCrash
  BY <1>7 DEF LoginCrash, Exit, Ping, CloseCrash, End, sigVars, history, TypeOK
<1>8. CASE Check \/ WakeForServer \/ WakeForStdin \/ Timeout \/ Redial
  BY <1>8 DEF Check, WakeForServer, WakeForStdin, Timeout, Redial, Readable, sigVars, history,
              TypeOK
<1>9. CASE ReadMessage \/ Fetch
  BY <1>9 DEF ReadMessage, Fetch, sigVars, history, TypeOK
<1>10. CASE Answer
  <2>1. ~running => ~running'
    BY <1>10, Zenon DEF Answer
  <2> QED
    BY <1>10, <2>1 DEF Answer, End, history, TypeOK
<1>11. CASE Leave \/ ReadFails
  <2>1. CASE Leave
    <3>1. ~running => ~running'
      BY <2>1, Zenon DEF Leave
    <3> QED
      BY <2>1, <3>1 DEF Leave, Clear, TypeOK
  <2>2. CASE ReadFails
    BY <2>2 DEF ReadFails, Clear, End, sigVars, TypeOK
  <2> QED
    BY <1>11, <2>1, <2>2
<1>12. CASE UNCHANGED vars
  BY <1>12 DEF vars, mainVars, sigVars, history
<1> QED
  BY <1>1, <1>2, <1>3, <1>4, <1>5, <1>6, <1>7, <1>8, <1>9, <1>10, <1>11, <1>12 DEF Next, Main

LEMMA UndisturbedInvariant == Spec => []Undisturbed
<1>1. Init => Undisturbed
  BY DEF Init, Undisturbed, InOrder, Opening, Parting
<1>2. TypeOK /\ Undisturbed /\ [Next]_vars => Undisturbed'
  BY UndisturbedKept
<1> QED
  BY <1>1, <1>2, TypeCorrect, PTL DEF Spec

(* As long as the process is not told to end, the run loop has the socket   *)
(* of the server just when there is a session, and it is open, wherever the *)
(* threads are within wr_client_connect and wr_client_disconnect.           *)
THEOREM LoopIsSound == Spec => []LoopHoldsOpen
<1>1. Undisturbed => LoopHoldsOpen
  BY DEF Undisturbed, InOrder, LoopHoldsOpen, Opening, Parting
<1> QED
  BY <1>1, UndisturbedInvariant, PTL

(* Until a signal is taken no socket is released twice, through any number  *)
(* of lost sessions, outages and failed attempts to reconnect.              *)
THEOREM NoDoubleRelease == Spec => []ReleasedOnce
<1>1. Undisturbed => ReleasedOnce
  BY DEF Undisturbed, ReleasedOnce
<1> QED
  BY <1>1, UndisturbedInvariant, PTL

-----------------------------------------------------------------------------
(* Sessions opened after the end was asked for. *)

(* The session that is opened too late is the last: the main thread never    *)
(* waits, reads or connects again.                                          *)
LastSession ==
  \/ late = 0
  \/ /\ late = 1 /\ ~running
     /\ main \in {"login", "holding", "listening", "pinging", "checking", "exited", "crashed"}

LEMMA LastInvariant == Spec => []LastSession
<1>1. Init => LastSession
  BY DEF Init, LastSession
<1>2. LastSession /\ [Next]_vars => LastSession'
  <2> SUFFICES ASSUME LastSession, [Next]_vars PROVE LastSession'
    OBVIOUS
  <2> USE DEF LastSession
  <2>1. CASE World
    BY <2>1 DEF World, GoDown, ComeUp, Drop, Falter, Tell, Kill, Type, mainVars, sigVars, history
  <2>2. CASE Signal
    BY <2>2 DEF Signal, TakeSignal, CloseSession, CloseSessionCrash, End, mainVars, sigVars,
                history
  <2>3. CASE Close \/ CloseCrash
    <3>1. CASE Close
      BY <3>1, CloseParts, PartEffect DEF Parting
    <3>2. CASE CloseCrash
      BY <3>2 DEF CloseCrash, Parting, End, sigVars, history
    <3> QED
      BY <2>3, <3>1, <3>2
  <2>4. CASE DialFails \/ LoginDone \/ Hold \/ LoginLost
    BY <2>4 DEF DialFails, LoginDone, Hold, LoginLost, Return, sigVars, history
  <2>5. CASE Dial
    BY <2>5 DEF Dial, sigVars
  <2>6. CASE LoginCrash \/ Listen \/ Exit \/ Ping
    BY <2>6 DEF LoginCrash, Listen, Exit, Ping, Return, End, sigVars, history
  <2>7. CASE Check \/ WakeForServer \/ WakeForStdin \/ Timeout \/ Redial
    BY <2>7 DEF Check, WakeForServer, WakeForStdin, Timeout, Redial, sigVars, history
  <2>8. CASE ReadMessage \/ Answer \/ Fetch \/ Leave \/ ReadFails
    BY <2>8 DEF ReadMessage, Answer, Fetch, Leave, ReadFails, End, sigVars, history
  <2>9. CASE UNCHANGED vars
    BY <2>9 DEF vars, mainVars, sigVars, history
  <2> QED
    BY <2>1, <2>2, <2>3, <2>4, <2>5, <2>6, <2>7, <2>8, <2>9 DEF Next, Main
<1> QED
  BY <1>1, <1>2, PTL DEF Spec

(* wr_client_reconnect does not look at wr_running, but it is called by the   *)
(* callback of the server's socket alone, and the run loop looks at          *)
(* wr_running before it waits for that socket again.                        *)
THEOREM LateIsLast == Spec => []OneSessionAfterQuit
<1>1. LastSession => OneSessionAfterQuit
  BY DEF LastSession, OneSessionAfterQuit
<1> QED
  BY <1>1, LastInvariant, PTL

-----------------------------------------------------------------------------
(* The refinement of Link. *)

(* Where the main thread can be without a session or with one, also when    *)
(* the signal thread is undoing it.                                        *)
Placed ==
  /\ main \in {"connecting", "login", "sleeping"} \cup Parting => ~connected
  /\ main = "reading" => connected \/ ~running
  /\ resume # "pinging"
  /\ reconnecting =>
       main \in {"connecting", "login", "sleeping", "exited", "crashed"} \cup Opening \cup Parting
  /\ main \in Parting /\ reconnecting => resume = "sleeping"

LEMMA PlacedInvariant == Spec => []Placed
<1>1. Init => Placed
  BY DEF Init, Placed, Opening, Parting
<1>2. TypeOK /\ Undisturbed /\ Placed /\ [Next]_vars => Placed'
  <2> SUFFICES ASSUME TypeOK, Undisturbed, Placed, [Next]_vars PROVE Placed'
    OBVIOUS
  <2> USE DEF Placed, Opening, Parting
  <2>1. CASE World
    BY <2>1 DEF World, GoDown, ComeUp, Drop, Falter, Tell, Kill, Type, mainVars, sigVars
  <2>2. CASE Signal
    <3>1. CASE TakeSignal
      BY <3>1 DEF TakeSignal, Undisturbed, mainVars, sigVars
    <3>2. CASE CloseSession
      BY <3>2, SessionParts, PartEffect DEF Undisturbed
    <3>3. CASE CloseSessionCrash
      BY <3>3 DEF CloseSessionCrash, Undisturbed, End, mainVars, sigVars
    <3> QED
      BY <2>2, <3>1, <3>2, <3>3 DEF Signal
  <2>3. CASE Close \/ CloseCrash
    <3>1. CASE Close
      BY <3>1, CloseParts, PartEffect DEF TypeOK
    <3>2. CASE CloseCrash
      BY <3>2 DEF CloseCrash, End, sigVars, TypeOK
    <3> QED
      BY <2>3, <3>1, <3>2
  <2>4. CASE DialFails \/ LoginDone \/ Hold \/ LoginLost
    BY <2>4 DEF DialFails, LoginDone, Hold, LoginLost, Return
  <2>5. CASE Dial
    BY <2>5 DEF Dial, sigVars
  <2>6. CASE LoginCrash \/ Listen \/ Exit \/ Ping
    BY <2>6 DEF LoginCrash, Listen, Exit, Ping, Return, End, sigVars
  <2>7. CASE Check \/ WakeForServer \/ WakeForStdin \/ Timeout \/ Redial
    BY <2>7 DEF Check, WakeForServer, WakeForStdin, Timeout, Redial, Readable, Undisturbed,
                InOrder, sigVars
  <2>8. CASE ReadMessage \/ Answer \/ Fetch
    <3>1. CASE ReadMessage
      BY <3>1 DEF ReadMessage, sigVars
    <3>2. CASE Answer
      BY <3>2 DEF Answer, End, sigVars
    <3>3. CASE Fetch
      BY <3>3 DEF Fetch, sigVars
    <3> QED
      BY <2>8, <3>1, <3>2, <3>3
  <2>10. CASE Leave \/ ReadFails
    <3>1. CASE Leave
      BY <3>1 DEF Leave, Clear, sigVars
    <3>2. CASE ReadFails
      BY <3>2 DEF ReadFails, Clear, End, sigVars
    <3> QED
      BY <2>10, <3>1, <3>2
  <2>9. CASE UNCHANGED vars
    BY <2>9 DEF vars, mainVars, sigVars
  <2> QED
    BY <2>1, <2>2, <2>3, <2>4, <2>5, <2>6, <2>7, <2>8, <2>9, <2>10 DEF Next, Main
<1> QED
  BY <1>1, <1>2, TypeCorrect, UndisturbedInvariant, PTL DEF Spec

RInv == TypeOK /\ Undisturbed /\ Placed /\ LastSession

LEMMA Stays ==
  ASSUME UNCHANGED <<running, late, left>>, Place' = Place
  PROVE  UNCHANGED Abstract!vars
BY DEF Abstract!vars

(* So is one that leaves the main thread where it is. *)
LEMMA MainStays ==
  ASSUME UNCHANGED <<main, resume, connected, running, late, left>>
  PROVE  UNCHANGED Abstract!vars
BY Stays DEF Place, Losing, Ended

(* The end of the process, with or without an order. *)
LEMMA Ends ==
  ASSUME ~Ended, Ended', UNCHANGED <<late, left>>, running' \in {running, FALSE}
  PROVE  Abstract!Next
<1>1. Place # "over" /\ Place' = "over"
  BY DEF Place, Ended
<1> QED
  BY <1>1 DEF Abstract!Next, Abstract!End

(* wr_client_connect, from the attempt to the end of the login. *)
LEMMA AttemptsMap ==
  ASSUME RInv, DialFails \/ Dial \/ LoginDone \/ LoginLost \/ LoginCrash
  PROVE  Abstract!Next
<1> USE DEF RInv
<1>1. ~Ended /\ ~connected
  BY DEF Placed, Ended, DialFails, Dial, LoginDone, LoginLost, LoginCrash
<1>2. CASE DialFails \/ LoginLost
  <2>1. Place \in {"fresh", "login"}
    BY <1>1, <1>2 DEF Place, DialFails, LoginLost
  <2>2. Place' = "idle"
    BY <1>1, <1>2 DEF Place, Losing, Parting, Ended, DialFails, LoginLost, Return
  <2> QED
    BY <1>2, <2>1, <2>2 DEF Abstract!Next, Abstract!GiveUp, DialFails, LoginLost, history
<1>3. CASE Dial
  <2>1. Place = "fresh" /\ Place' = "login"
    BY <1>1, <1>3 DEF Place, Losing, Parting, Ended, Dial
  <2>2. late = 0 /\ UNCHANGED <<running, left>>
    BY <1>3 DEF LastSession, Dial, sigVars
  <2>3. (late' > 0) = ~running
    <3>1. CASE running
      BY <1>3, <2>2, <3>1 DEF Dial, TypeOK
    <3>2. CASE ~running
      BY <1>3, <2>2, <3>2 DEF Dial, TypeOK
    <3> QED
      BY <3>1, <3>2
  <2> QED
    BY <2>1, <2>2, <2>3 DEF Abstract!Next, Abstract!Attempt
<1>4. CASE LoginDone
  <2>1. Place = "login" /\ Place' = "online"
    BY <1>1, <1>4 DEF Place, Losing, Parting, Ended, LoginDone
  <2> QED
    BY <1>4, <2>1 DEF Abstract!Next, Abstract!Open, LoginDone, sigVars, history
<1>5. CASE LoginCrash
  BY <1>1, <1>5, Ends DEF LoginCrash, End, Ended, history, sigVars
<1> QED
  BY <1>2, <1>3, <1>4, <1>5

(* Its last statements, with the session or after the signal thread closed  *)
(* it again.                                                               *)
LEMMA OpeningMaps ==
  ASSUME RInv, Hold \/ Listen
  PROVE  Abstract!Next \/ UNCHANGED Abstract!vars
<1>1. ~Ended /\ main \in Opening /\ UNCHANGED <<running, late, left>>
  BY DEF Hold, Listen, Opening, Ended, sigVars, history
<1>2. CASE Ended'
  BY <1>1, <1>2, Ends
<1>3. CASE ~Ended'
  <2>1. connected' = connected /\ main' \in {"listening", "checking", "pinging"}
    BY <1>3 DEF Hold, Listen, Return, End, Ended
  <2>2. Place' = Place
    BY <1>1, <1>3, <2>1 DEF Place, Losing, Opening, Parting, Ended
  <2> QED
    BY <1>1, <2>2, Stays
<1> QED
  BY <1>2, <1>3

(* An answer with /disconnect closes a session that is open. *)
LEMMA LeaveMaps ==
  ASSUME RInv, Leave
  PROVE  Abstract!Next
<1>1. late' = late /\ left' = TRUE /\ running' \in {running, FALSE}
  BY DEF Leave
<1>2. Place = "online"
  BY DEF Leave, Place, Ended
<1>3. Place' = "idle"
  BY DEF Leave, Clear, Place, Losing, Ended
<1> QED
  BY <1>1, <1>2, <1>3 DEF Abstract!Next, Abstract!Leave

(* The run loop changes nothing the abstract session shows, but an answer    *)
(* with /quit tells the process to end, and any write may end it.            *)
LEMMA LoopMaps ==
  ASSUME RInv, Check \/ Exit \/ WakeForServer \/ WakeForStdin \/ Timeout \/ Ping
                 \/ ReadMessage \/ Answer \/ Fetch \/ Redial
  PROVE  Abstract!Next \/ UNCHANGED Abstract!vars
<1> USE DEF RInv
<1>1. ~Ended
  BY DEF Ended, Check, Exit, WakeForServer, WakeForStdin, Timeout, Ping, ReadMessage, Answer,
         Fetch, Redial
<1>2. UNCHANGED <<connected, late, left>> /\ running' \in {running, FALSE}
  <2>1. CASE Check \/ Exit \/ WakeForServer \/ WakeForStdin \/ Timeout
    BY <2>1 DEF Check, Exit, WakeForServer, WakeForStdin, Timeout, End, history, sigVars
  <2>2. CASE Ping \/ ReadMessage \/ Answer \/ Fetch \/ Redial
    BY <2>2 DEF Ping, ReadMessage, Answer, Fetch, Redial, End, history, sigVars
  <2> QED
    BY <2>1, <2>2
<1>3. \/ main = "sleeping" /\ main' = "connecting" /\ ~connected
      \/ /\ main \in {"checking", "waiting", "reading", "handling", "fetching", "pinging"}
         /\ main' \in {"checking", "waiting", "reading", "handling", "fetching", "pinging",
                       "exited", "crashed"}
  BY DEF Placed, Check, Exit, WakeForServer, WakeForStdin, Timeout, Ping, ReadMessage, Answer,
         Fetch, Redial, End
<1>4. CASE Ended'
  BY <1>1, <1>2, <1>4, Ends
<1>5. CASE ~Ended'
  <2>1. Place' = Place
    BY <1>2, <1>3, <1>5 DEF Place, Losing, Parting, Ended
  <2>2. CASE running' = running
    BY <1>2, <2>1, <2>2, Stays
  <2>3. CASE running' # running
    <3>1. running = TRUE /\ running' = FALSE /\ Place # "over"
      BY <1>1, <1>2, <2>3 DEF TypeOK, Place, Ended
    <3> QED
      BY <1>2, <2>1, <3>1 DEF Abstract!Next, Abstract!ToldToEnd
  <2> QED
    BY <2>2, <2>3
<1> QED
  BY <1>4, <1>5

(* A read that fails begins to undo the session, or finds that the signal    *)
(* thread did.                                                              *)
LEMMA LossMaps ==
  ASSUME RInv, ReadFails
  PROVE  Abstract!Next
<1> USE DEF RInv
<1>1. ~Ended /\ late = 0 /\ ~reconnecting /\ UNCHANGED <<late, left, running>>
  BY DEF ReadFails, Ended, LastSession, Placed, Opening, Parting, sigVars
<1>2. CASE Ended'
  BY <1>1, <1>2, Ends
<1>3. CASE ~Ended'
  <2>1. main' = "removing" /\ resume' = "sleeping" /\ ~connected'
    BY <1>1, <1>3 DEF ReadFails, Clear, End, Ended
  <2>2. Place' = "fresh"
    BY <2>1, <1>3 DEF Place, Losing, Parting
  <2>3. Place = "online" \/ (Place = "idle" /\ ~running)
    BY <1>1 DEF ReadFails, Placed, Place, Losing, Parting, Ended
  <2> QED
    BY <1>1, <2>2, <2>3 DEF Abstract!Next, Abstract!Lose
<1> QED
  BY <1>2, <1>3

(* The rest of wr_client_disconnect does not show. *)
LEMMA CloseMaps ==
  ASSUME RInv, Close \/ CloseCrash
  PROVE  Abstract!Next \/ UNCHANGED Abstract!vars
<1> USE DEF RInv
<1>1. ~Ended /\ main \in Parting /\ ~connected /\ UNCHANGED <<late, left, running>>
  BY DEF Close, CloseCrash, Placed, Part, Parting, Ended, sigVars, history
<1>2. CASE Ended'
  BY <1>1, <1>2, Ends
<1>3. CASE ~Ended'
  <2>1. /\ UNCHANGED <<resume, connected>>
        /\ main' \in Parting \cup {resume}
    BY <1>3 DEF Close, CloseCrash, Part, Remove, Shut, Release, End, Ended
  <2>2. resume \in {"checking", "sleeping"}
    BY DEF TypeOK, Placed
  <2>3. Place' = Place
    BY <1>1, <1>3, <2>1, <2>2 DEF Place, Losing, Parting, Ended
  <2> QED
    BY <1>1, <2>3, Stays
<1> QED
  BY <1>2, <1>3

(* The signal thread tells the process to end; its first statement of        *)
(* wr_client_disconnect closes the session, the others do not show.          *)
LEMMA SignalMaps ==
  ASSUME RInv, Signal
  PROVE  Abstract!Next \/ UNCHANGED Abstract!vars
<1> USE DEF RInv
<1>1. ~Ended /\ UNCHANGED <<late, left>>
  BY DEF Signal, TakeSignal, CloseSession, CloseSessionCrash, history
<1>2. CASE TakeSignal
  <2>1. Place' = Place /\ Place # "over" /\ running' = FALSE
    BY <1>1, <1>2 DEF TakeSignal, mainVars, Place, Losing, Ended
  <2> QED
    BY <1>1, <2>1 DEF TypeOK, Abstract!Next, Abstract!ToldToEnd, Abstract!vars
<1>3. CASE CloseSession
  <2>1. ~running /\ UNCHANGED <<running, main, resume>> /\ ~Ended'
    BY <1>1, <1>3 DEF CloseSession, Undisturbed, Part, Ended
  <2>2. CASE connected' = connected
    BY <1>1, <2>1, <2>2, MainStays
  <2>3. CASE connected' # connected
    <3>1. connected /\ ~connected'
      BY <1>3, <2>3 DEF CloseSession, Clear, Part, Remove, Shut, Release, TypeOK
    <3>2. main \notin {"connecting", "login", "sleeping"} \cup Parting
      BY <3>1 DEF Placed
    <3>3. Place = "online" /\ Place' = "idle"
      BY <1>1, <2>1, <3>1, <3>2 DEF Place, Losing, Ended
    <3> QED
      BY <1>1, <2>1, <3>3 DEF Abstract!Next, Abstract!Close
  <2> QED
    BY <2>2, <2>3
<1>4. CASE CloseSessionCrash
  <2>1. Ended' /\ running' = running
    BY <1>4 DEF CloseSessionCrash, End, Ended, sigVars
  <2> QED
    BY <1>1, <2>1, Ends
<1> QED
  BY <1>2, <1>3, <1>4 DEF Signal

(* The process implements Link: every attempt is the first one or follows a  *)
(* loss, one that fails is not repeated, and a process that is told to end   *)
(* begins one more at most, however the statements of the two threads        *)
(* interleave.                                                              *)
THEOREM ImplementsLink == Spec => OneAttemptEach
<1>1. Init => Abstract!Init
  BY DEF Init, Abstract!Init, Place, Ended
<1>2. RInv /\ [Next]_vars => [Abstract!Next]_(Abstract!vars)
  <2> SUFFICES ASSUME RInv, [Next]_vars
               PROVE  Abstract!Next \/ UNCHANGED Abstract!vars
    OBVIOUS
  <2>1. CASE World
    BY <2>1, MainStays
       DEF World, GoDown, ComeUp, Drop, Falter, Tell, Kill, Type, mainVars, sigVars, history
  <2>2. CASE UNCHANGED vars
    BY <2>2, MainStays DEF vars, mainVars, sigVars, history
  <2> QED
    BY <2>1, <2>2, AttemptsMap, OpeningMaps, LeaveMaps, LoopMaps, LossMaps, CloseMaps, SignalMaps
       DEF Next, Main
<1> QED
  BY <1>1, <1>2, TypeCorrect, UndisturbedInvariant, PlacedInvariant, LastInvariant, PTL
     DEF Spec, RInv, OneAttemptEach, Abstract!Spec
=============================================================================
