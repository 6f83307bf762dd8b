------------------------------- MODULE Lifecycle -------------------------------
(***************************************************************************)
(* The life of the process, cmd/golink/main.go: the HTTP server, whose     *)
(* request goroutines are the callers of the use counter, and the          *)
(* shutdown goroutine, which on a signal drains the server and then the    *)
(* counter, both under one context of 30 seconds.                          *)
(*                                                                         *)
(* A request goroutine (a Caller) is busy while a handler runs.  A handler *)
(* may take any time, and so may the database.                             *)
(***************************************************************************)
EXTENDS UseCounter

VARIABLES
  phase,     (* serving, draining the server, stopping the counter, exited *)
  expired,   (* shutdownCtx is done                                        *)
  busy       (* which goroutines are inside a handler                      *)

procVars == <<phase, expired, busy>>
allVars == <<vars, phase, expired, busy>>

LTypeOK ==
  /\ TypeOK
  /\ phase \in {"serving", "draining", "stopping", "exited"}
  /\ expired \in BOOLEAN
  /\ busy \in [Callers -> BOOLEAN]

LInit ==
  /\ Init
  /\ phase = "serving"
  /\ expired = FALSE
  /\ busy = [c \in Callers |-> FALSE]

Running == phase # "exited"

(* The listener is open only until httpSrv.Shutdown is called; net/http    *)
(* keeps no connection alive for another request after that.               *)
StartRequest(c) ==
  /\ phase = "serving"
  /\ ~busy[c]
  /\ busy' = [busy EXCEPT ![c] = TRUE]
  /\ UNCHANGED <<vars, phase, expired>>

(* The handler returns, or the Recoverer middleware ends it after a panic. *)
FinishRequest(c) ==
  /\ Running
  /\ busy[c]
  /\ caller[c] # "nudging"
  /\ busy' = [busy EXCEPT ![c] = FALSE]
  /\ UNCHANGED <<vars, phase, expired>>

(* A redirect handler counts a use: Increment and its nudge.               *)
CountUse(c) ==
  /\ Running
  /\ busy[c]
  /\ (\E l \in Links : Increment(c, l)) \/ Nudge(c) \/ NudgePanics(c)
  /\ UNCHANGED procVars

Signal ==
  /\ phase = "serving"
  /\ phase' = "draining"
  /\ UNCHANGED <<vars, expired, busy>>

(* shutdownCtx reaches its deadline, at any time after its creation.       *)
Expire ==
  /\ phase \in {"draining", "stopping"}
  /\ expired' = TRUE
  /\ UNCHANGED <<vars, phase, busy>>

(* The counter stopped without httpSrv.Shutdown before it.                 *)
StopWithoutDrain ==
  /\ phase = "draining"
  /\ phase' = "stopping"
  /\ CloseFlushCh
  /\ UNCHANGED <<expired, busy>>

(* httpSrv.Shutdown returns once no handler runs, or when the context is   *)
(* done, its error ignored; then useCounter.Shutdown closes the channel.   *)
StopCounter ==
  /\ phase = "draining"
  /\ expired \/ \A c \in Callers : ~busy[c]
  /\ phase' = "stopping"
  /\ CloseFlushCh
  /\ UNCHANGED <<expired, busy>>

(* A Shutdown that waits for the runner whatever its context says.         *)
AwaitRunnerOnly ==
  /\ Running
  /\ ShutdownDone
  /\ UNCHANGED procVars

AwaitCounter ==
  /\ Running
  /\ ShutdownDone \/ (expired /\ ShutdownExpired)
  /\ UNCHANGED procVars

(* close(done): main returns, closes the database, and the process ends.   *)
Exit ==
  /\ phase = "stopping"
  /\ stop \in {"ok", "expired"}
  /\ phase' = "exited"
  /\ UNCHANGED <<vars, expired, busy>>

RunnerStep == Running /\ Runner /\ UNCHANGED procVars

LNext ==
  \/ \E c \in Callers : StartRequest(c) \/ FinishRequest(c) \/ CountUse(c)
  \/ Signal \/ Expire \/ StopCounter \/ AwaitCounter \/ Exit
  \/ RunnerStep

LSpec == LInit /\ [][LNext]_allVars

(* The shutdown goroutine is scheduled and its timer fires.  Nothing is    *)
(* assumed of the handlers, of the runner or of the database.              *)
LFairness ==
  /\ WF_allVars(Expire)
  /\ WF_allVars(StopCounter)
  /\ WF_allVars(AwaitCounter)
  /\ WF_allVars(Exit)

LFairSpec == LSpec /\ LFairness

-----------------------------------------------------------------------------
(* Properties.                                                             *)

(* A shutdown that met its deadline loses no use: everything accepted is   *)
(* in the database, except what a failed UPDATE dropped.                   *)
GracefulExitKeepsUses ==
  phase = "exited" /\ ~expired =>
    \A l \in Links : accepted[l] = useCount[l] + lost[l]

(* No handler ever sends on the closed channel unless the drain ran out of *)
(* time: the order "server first, counter second" is what prevents it.     *)
NoPanicInTime ==
  (\E c \in Callers : caller[c] = "panicked") => expired

(* A signalled process exits, though a handler or the database hang.       *)
SignalExits == (phase = "draining") ~> (phase = "exited")
=============================================================================
