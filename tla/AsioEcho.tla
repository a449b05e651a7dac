------------------------------ MODULE AsioEcho ------------------------------
(***************************************************************************)
(* The echo servers: the unit's own thread runs one io_service, PLSSThread *)
(* another, each with a server and its sessions; WorkerThread reads the    *)
(* operator's q and stops both, the second through a pointer PLSSThread    *)
(* has set or not.  The unit returns when both have stopped.               *)
(***************************************************************************)
EXTENDS FiniteSets

CONSTANTS
  Sessions      \* the session objects of either server (bound of the model)

Services == {"main", "plss"}

VARIABLES
  unit,         \* DoExecute: starting, running, waiting for PLSSThread, returned
  plss,         \* PLSSThread: none, built, running, ended
  worker,       \* WorkerThread: none, reading, stopping (main, then plss), ended
  ptrIOServeice,\* TRUE when PLSSThread has set it
  stopped,      \* the io_services that were stopped
  session       \* for each service, the operation each session has under way

threadVars == <<unit, plss, worker, ptrIOServeice, stopped>>
vars == <<threadVars, session>>

Init ==
  /\ unit = "starting" /\ plss = "none" /\ worker = "none"
  /\ ptrIOServeice = FALSE
  /\ stopped = {}
  /\ session = [v \in Services |-> [s \in Sessions |-> "accept"]]

Runs(v) == v \notin stopped /\ (IF v = "main" THEN unit = "running" ELSE plss = "running")
Becomes(v, s, op) ==
  /\ session' = [session EXCEPT ![v][s] = op]
  /\ UNCHANGED threadVars
-----------------------------------------------------------------------------
(* handle_accept: the session is started, or deleted after an error.       *)
handle_accept(v, s, error) ==
  /\ Runs(v) /\ session[v][s] = "accept"
  /\ Becomes(v, s, IF error THEN "deleted" ELSE "read")

(* handle_read: a packet of another size, and a read that fails (it has no *)
(* bytes), return at once: no operation is under way any more and nobody   *)
(* deletes the session.                                                    *)
handle_read(v, s, packet, error) ==
  /\ Runs(v) /\ session[v][s] = "read"
  /\ error => packet = "other"
  /\ Becomes(v, s, IF packet = "other" THEN "forgotten" ELSE "write")

handle_write(v, s, error) ==
  /\ Runs(v) /\ session[v][s] = "write"
  /\ Becomes(v, s, IF error THEN "deleted" ELSE "read")
-----------------------------------------------------------------------------
(* DoExecute starts both threads, runs its io_service until it is stopped, *)
(* which may be before run is called, and waits for PLSSThread.            *)
DoExecute ==
  /\ unit = "starting"
  /\ unit' = "running" /\ worker' = "reading" /\ plss' = "built"
  /\ UNCHANGED <<ptrIOServeice, stopped, session>>

MainRunReturns ==
  /\ unit = "running" /\ "main" \in stopped
  /\ unit' = "waiting"
  /\ UNCHANGED <<plss, worker, ptrIOServeice, stopped, session>>

WaitForPLSS ==
  /\ unit = "waiting" /\ plss = "ended"
  /\ unit' = "returned"
  /\ UNCHANGED <<plss, worker, ptrIOServeice, stopped, session>>

PLSSThread ==
  /\ plss = "built"
  /\ ptrIOServeice' = TRUE
  /\ plss' = "running"
  /\ UNCHANGED <<unit, worker, stopped, session>>

PLSSRunReturns ==
  /\ plss = "running" /\ "plss" \in stopped
  /\ plss' = "ended"
  /\ UNCHANGED <<unit, worker, ptrIOServeice, stopped, session>>

(* WorkerThread: at q it stops the unit's io_service, then the other one   *)
(* if it sees one, and ends.                                               *)
EnterQ ==
  /\ worker = "reading"
  /\ worker' = "stopping main"
  /\ UNCHANGED <<unit, plss, ptrIOServeice, stopped, session>>

StopMain ==
  /\ worker = "stopping main"
  /\ stopped' = stopped \cup {"main"}
  /\ worker' = "stopping plss"
  /\ UNCHANGED <<unit, plss, ptrIOServeice, session>>

MutStopPLSS ==
  /\ worker = "stopping plss"
  /\ stopped' = stopped \cup {"main"}
  /\ worker' = "ended"
  /\ UNCHANGED <<unit, plss, ptrIOServeice, session>>

StopPLSS ==
  /\ worker = "stopping plss"
  /\ stopped' = IF ptrIOServeice THEN stopped \cup {"plss"} ELSE stopped
  /\ worker' = "ended"
  /\ UNCHANGED <<unit, plss, ptrIOServeice, session>>

Next ==
  \/ DoExecute \/ MainRunReturns \/ WaitForPLSS
  \/ PLSSThread \/ PLSSRunReturns
  \/ StopMain \/ StopPLSS
  \/ EnterQ
  \/ \E v \in Services, s \in Sessions, error \in BOOLEAN :
       \/ handle_accept(v, s, error)
       \/ \E packet \in {"c", "login", "other"} : handle_read(v, s, packet, error)
       \/ handle_write(v, s, error)

(* The threads run; the operator, who starts the unit and may enter q, and *)
(* the peers need not act.  A service that was stopped runs no handler, so *)
(* its thread is not held up.                                              *)
Fairness ==
  /\ WF_vars(MainRunReturns) /\ WF_vars(WaitForPLSS)
  /\ WF_vars(PLSSThread) /\ WF_vars(PLSSRunReturns)
  /\ WF_vars(StopMain) /\ WF_vars(StopPLSS)

Spec == Init /\ [][Next]_vars /\ Fairness
-----------------------------------------------------------------------------
(* A q ends the unit, whichever thread is where, provided that PLSSThread  *)
(* has set its pointer when WorkerThread looks: one that comes too late is *)
(* never stopped, and DoExecute waits for it for ever (WorkerThread).      *)
QuitEndsUnit ==
  (worker = "stopping plss" /\ ptrIOServeice) ~> unit = "returned"
============================================================================
