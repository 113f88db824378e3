----------------------------- MODULE Responder -----------------------------
(***************************************************************************)
(* What the engine of the bot promises, whatever its dictionary says and   *)
(* however often that is reloaded: it only ever answers.  A message that   *)
(* is handled pays for at most MaxRepeat outputs, which are sent before    *)
(* the next message is looked at; a bot that was stopped starts again only *)
(* in answer to a message.                                                 *)
(***************************************************************************)
EXTENDS Naturals

CONSTANTS
  MaxRepeat, \* the most outputs of one answer
  MaxSaid    \* bound: said counts no further

VARIABLES
  started,   \* it answers, and not only to commands
  handled,   \* messages of users that were handled
  due,       \* outputs of the last answer still to be sent
  said,      \* outputs sent
  down       \* the process has ended

vars == <<started, handled, due, said, down>>

Init ==
  /\ started = TRUE
  /\ handled = 0
  /\ due = 0
  /\ said = 0
  /\ down = FALSE

(* A message is handled, with n outputs for an answer; it may start the bot. *)
Answer(n) ==
  /\ ~down /\ due = 0
  /\ handled' = handled + 1
  /\ due' = n
  /\ started' \in {started, TRUE}
  /\ UNCHANGED <<said, down>>

Say ==
  /\ ~down /\ due > 0
  /\ due' = due - 1
  /\ said' = IF said < MaxSaid THEN said + 1 ELSE said
  /\ UNCHANGED <<started, handled, down>>

(* The bot is stopped once it has answered. *)
Stop ==
  /\ ~down /\ due = 0
  /\ started' = FALSE
  /\ UNCHANGED <<handled, due, said, down>>

Die ==
  /\ ~down
  /\ down' = TRUE
  /\ UNCHANGED <<started, handled, due, said>>

Next == \/ \E n \in 0..MaxRepeat : Answer(n)
        \/ Say
        \/ Stop
        \/ Die

Spec == Init /\ [][Next]_vars
=============================================================================
