------------------------------ MODULE PidFile -------------------------------
(***************************************************************************)
(* The pid file and the processes that share it: main.c (start, signals,   *)
(* cleanup).  An operator starts wirebot and stops it with                 *)
(* kill `cat ~/.wirebot/wirebot.pid`; every process writes the file when   *)
(* it starts and deletes it when it ends, whoever wrote it last.           *)
(***************************************************************************)
EXTENDS Naturals

CONSTANTS
  Pids,       \* a pid for every process that is ever started
  NoPid,      \* there is no pid file
  Patient,    \* the operator waits for a process to end before the next
  MaxFaults   \* bound: crashes and KILL signals

ASSUME PidAssumption   == NoPid \notin Pids
ASSUME FaultAssumption == Patient \in BOOLEAN /\ MaxFaults \in Nat

VARIABLES
  process,    \* where each process is in main
  pidFile,    \* the pid in the file
  faults

vars == <<process, pidFile, faults>>

(* new: never started; loading: configuration and dictionary are read;     *)
(* written: the pid file is written; serving: the signals are blocked and  *)
(* left to their thread; stopping: wr_running is cleared and the main      *)
(* thread is in its last wait, or in the ten seconds of a reconnection.    *)
Places == {"new", "loading", "written", "serving", "stopping", "ended"}

TypeOK ==
  /\ process \in [Pids -> Places]
  /\ pidFile \in Pids \cup {NoPid}
  /\ faults \in Nat

Init ==
  /\ process = [p \in Pids |-> "new"]
  /\ pidFile = NoPid
  /\ faults = 0

Moves(p, from, to) ==
  /\ process[p] = from
  /\ process' = [process EXCEPT ![p] = to]

-----------------------------------------------------------------------------
(* The operator. *)

Ended(p) == process[p] \in {"new", "ended"}

(* A process is started when the others ended or, by an operator in a      *)
(* hurry, when they were told to.                                          *)
Start(p) ==
  /\ \A q \in Pids \ {p} : Ended(q) \/ (~Patient /\ process[q] = "stopping")
  /\ Moves(p, "new", "loading")
  /\ UNCHANGED <<pidFile, faults>>

(* kill `cat ~/.wirebot/wirebot.pid`: until the signals are blocked, TERM  *)
(* has its default effect.                                                 *)
Stop ==
  /\ pidFile # NoPid
  /\ \/ Moves(pidFile, "loading", "ended")
     \/ Moves(pidFile, "written", "ended")
     \/ Moves(pidFile, "serving", "stopping")
  /\ UNCHANGED <<pidFile, faults>>

KillNine(p) ==
  /\ faults < MaxFaults
  /\ ~Ended(p)
  /\ process' = [process EXCEPT ![p] = "ended"]
  /\ faults' = faults + 1
  /\ UNCHANGED pidFile

-----------------------------------------------------------------------------
(* A process. *)

(* The configuration or the dictionary cannot be read. *)
LoadFails(p) ==
  /\ Moves(p, "loading", "ended")
  /\ UNCHANGED <<pidFile, faults>>

\* A slip: a file that is there already is not written again.
WritePidOnce(p) ==
  /\ Moves(p, "loading", "written")
  /\ pidFile' = IF pidFile = NoPid THEN p ELSE pidFile
  /\ UNCHANGED faults

(* wb_write_pid *)
WritePid(p) ==
  /\ Moves(p, "loading", "written")
  /\ pidFile' = p
  /\ UNCHANGED faults

(* wr_signals_init and wd_block_signals *)
BlockSignals(p) ==
  /\ Moves(p, "written", "serving")
  /\ UNCHANGED <<pidFile, faults>>

(* wr_cleanup with wb_delete_pid *)
Cleanup == pidFile' = NoPid

Exit(p) ==
  /\ Moves(p, "stopping", "ended")
  /\ Cleanup
  /\ UNCHANGED faults

(* /quit, by an output of the dictionary. *)
Quit(p) ==
  /\ Moves(p, "serving", "stopping")
  /\ UNCHANGED <<pidFile, faults>>

(* wr_sig_crash *)
Crash(p) ==
  /\ faults < MaxFaults
  /\ process[p] \in {"serving", "stopping"}
  /\ process' = [process EXCEPT ![p] = "ended"]
  /\ Cleanup
  /\ faults' = faults + 1

-----------------------------------------------------------------------------
Next == \/ Stop
        \/ \E p \in Pids :
             \/ Start(p)
             \/ KillNine(p)
             \/ LoadFails(p)
             \/ WritePid(p)
             \/ BlockSignals(p)
             \/ Exit(p)
             \/ Quit(p)
             \/ Crash(p)

Spec == Init /\ [][Next]_vars

-----------------------------------------------------------------------------
(* Properties. *)

(* The process that serves can be stopped by the pid in the file: README.md *)
(* gives the operator no other way.  Holds for a patient operator, however  *)
(* earlier processes ended.                                                 *)
ServingIsNamed == \A p \in Pids : process[p] = "serving" => pidFile = p
=============================================================================
