---------------------------- MODULE PidFileProofs ---------------------------
(* Proofs about PidFile, for any number of processes and faults. *)
EXTENDS PidFile, TLAPS

(* One process at a time is between its start and its end, and the file     *)
(* names it from its write_pid on: nobody else is there to write or delete. *)
OneAtATime ==
  /\ TypeOK
  /\ \A p, q \in Pids : ~Ended(p) /\ ~Ended(q) => p = q
  /\ \A p \in Pids : process[p] \in {"written", "serving", "stopping"} => pidFile = p

LEMMA OneAtATimeStep ==
  ASSUME Patient = TRUE, OneAtATime, [Next]_vars
  PROVE  OneAtATime'
<1> USE PidAssumption, FaultAssumption DEF OneAtATime, TypeOK, Places, Ended, Moves
<1>1. CASE Stop
  BY <1>1 DEF Stop
<1>2. ASSUME NEW p \in Pids, Start(p) PROVE OneAtATime'
  BY <1>2 DEF Start
<1>3. ASSUME NEW p \in Pids, KillNine(p) PROVE OneAtATime'
  BY <1>3 DEF KillNine
<1>4. ASSUME NEW p \in Pids, LoadFails(p) \/ WritePid(p) \/ BlockSignals(p) \/ Quit(p)
      PROVE OneAtATime'
  BY <1>4 DEF LoadFails, WritePid, BlockSignals, Quit
<1>5. ASSUME NEW p \in Pids, Exit(p) \/ Crash(p) PROVE OneAtATime'
  BY <1>5 DEF Exit, Crash, Cleanup
<1>6. CASE UNCHANGED vars
  BY <1>6 DEF vars
<1> QED
  BY <1>1, <1>2, <1>3, <1>4, <1>5, <1>6 DEF Next

(* A patient operator can always stop the process that serves by the pid in *)
(* the file, whatever crashed or was killed before (wb_write_pid,           *)
(* wb_delete_pid).                                                          *)
THEOREM PidIsRight == Patient = TRUE /\ Spec => []ServingIsNamed
<1>1. Init => OneAtATime
  BY DEF Init, OneAtATime, TypeOK, Places, Ended
<1>2. OneAtATime => ServingIsNamed
  BY DEF OneAtATime, ServingIsNamed
<1>3. SUFFICES ASSUME Patient = TRUE PROVE Spec => []ServingIsNamed
  OBVIOUS
<1>4. OneAtATime /\ [Next]_vars => OneAtATime'
  BY <1>3, OneAtATimeStep
<1> QED
  BY <1>1, <1>2, <1>4, PTL DEF Spec
=============================================================================
