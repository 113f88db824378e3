-------------------------------- MODULE Link --------------------------------
(***************************************************************************)
(* What the other parts of the bot may rely on of its session: after a     *)
(* loss it is opened again by one attempt, which succeeds or is given up   *)
(* for good; and once the process is told to end, at most one more attempt *)
(* begins.                                                                 *)
(***************************************************************************)

VARIABLES
  link,    \* "fresh" (an attempt is to be made), "login", "online", "idle"
           \* (there is no session and none is sought) or "over"
  running, \* the process was not told to end
  left,    \* it was told to leave the server
  spent    \* an attempt was begun after it was told to

vars == <<link, running, left, spent>>

Init ==
  /\ link = "fresh"
  /\ running = TRUE
  /\ left = FALSE
  /\ spent = FALSE

Attempt ==
  /\ link = "fresh"
  /\ running \/ ~spent
  /\ link' = "login"
  /\ spent' = ~running
  /\ UNCHANGED <<running, left>>

Open ==
  /\ link = "login"
  /\ link' = "online"
  /\ UNCHANGED <<running, left, spent>>

GiveUp ==
  /\ link \in {"fresh", "login"}
  /\ link' = "idle"
  /\ UNCHANGED <<running, left, spent>>

(* The session is lost, or found to have been closed: an attempt will follow. *)
Lose ==
  /\ \/ link = "online" /\ (running \/ ~spent)
     \/ link = "idle" /\ ~running /\ ~spent
  /\ link' = "fresh"
  /\ UNCHANGED <<running, left, spent>>

(* It is closed because the process is to end. *)
Close ==
  /\ link = "online" /\ ~running
  /\ link' = "idle"
  /\ UNCHANGED <<running, left, spent>>

Leave ==
  /\ link = "online"
  /\ link' = "idle"
  /\ left' = TRUE
  /\ running' \in {running, FALSE}
  /\ UNCHANGED spent

ToldToEnd ==
  /\ link # "over" /\ running
  /\ running' = FALSE
  /\ UNCHANGED <<link, left, spent>>

End ==
  /\ link # "over"
  /\ link' = "over"
  /\ running' \in {running, FALSE}
  /\ UNCHANGED <<left, spent>>

Next == Attempt \/ Open \/ GiveUp \/ Lose \/ Close \/ Leave \/ ToldToEnd \/ End

Spec == Init /\ [][Next]_vars
=============================================================================
