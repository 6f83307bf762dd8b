------------------------------ MODULE UseCounter ------------------------------
(***************************************************************************)
(* The batching use counter of internal/db/usecounter.go.                  *)
(*                                                                         *)
(* Request goroutines (Callers) call Increment: they add to a map under a  *)
(* mutex, unlock, and only then try a non-blocking send on a channel of    *)
(* capacity one.  One background goroutine (the runner) waits for a token, *)
(* for a tick or for the channel to be closed, swaps the map for an empty  *)
(* one under the mutex, and then writes the swapped batch to the database  *)
(* one link at a time.  Shutdown closes the channel and waits for the      *)
(* runner or for its context.                                              *)
(*                                                                         *)
(* A critical section of the mutex is one action.  The maps have value 0   *)
(* where the Go map has no key: a key is only ever created by "++".        *)
(***************************************************************************)
EXTENDS Naturals

CONSTANTS
  Links,     (* link ids                                                   *)
  Callers,   (* goroutines that call Increment                             *)
  MaxUses    (* bound on the increments of one link, for model checking    *)

ASSUME MaxUsesAssumption == MaxUses \in Nat

VARIABLES
  counts,    (* uc.counts: increments not yet taken by a flush             *)
  nudge,     (* flushCh holds a token                                      *)
  closed,    (* flushCh is closed                                          *)
  runner,    (* where the background goroutine is                          *)
  final,     (* the flush under way is the one after the close             *)
  pending,   (* the batch swapped out by flush, not yet written            *)
  useCount,  (* links.use_count in the database                            *)
  caller,    (* where each calling goroutine is                            *)
  stop,      (* where the call of Shutdown is                              *)
  accepted,  (* history: increments accepted per link                      *)
  lost       (* history: increments whose UPDATE failed or matched no row  *)

batchVars == <<counts, pending, useCount, accepted, lost>>
controlVars == <<nudge, closed, runner, final, caller, stop>>
vars == <<counts, nudge, closed, runner, final, pending, useCount, caller,
          stop, accepted, lost>>

Zero == [l \in Links |-> 0]

TypeOK ==
  /\ counts \in [Links -> Nat]
  /\ pending \in [Links -> Nat]
  /\ useCount \in [Links -> Nat]
  /\ accepted \in [Links -> Nat]
  /\ lost \in [Links -> Nat]
  /\ nudge \in BOOLEAN
  /\ closed \in BOOLEAN
  /\ final \in BOOLEAN
  /\ runner \in {"select", "flush", "writing", "stopped"}
  /\ caller \in [Callers -> {"idle", "nudging", "panicked"}]
  /\ stop \in {"none", "waiting", "ok", "expired"}

Init ==
  /\ counts = Zero
  /\ pending = Zero
  /\ useCount = Zero
  /\ accepted = Zero
  /\ lost = Zero
  /\ nudge = FALSE
  /\ closed = FALSE
  /\ final = FALSE
  /\ runner = "select"
  /\ caller = [c \in Callers |-> "idle"]
  /\ stop = "none"

-----------------------------------------------------------------------------
(* Increment.                                                              *)

(* The critical section: counts[id]++ between Lock and Unlock.             *)
Increment(c, l) ==
  /\ caller[c] = "idle"
  /\ accepted[l] < MaxUses
  /\ counts' = [counts EXCEPT ![l] = @ + 1]
  /\ accepted' = [accepted EXCEPT ![l] = @ + 1]
  /\ caller' = [caller EXCEPT ![c] = "nudging"]
  /\ UNCHANGED <<nudge, closed, runner, final, pending, useCount, stop, lost>>

(* The channel made without a buffer: the token is dropped unless the      *)
(* runner is receiving.                                                    *)
NudgeUnbuffered(c) ==
  /\ caller[c] = "nudging"
  /\ ~closed
  /\ nudge' = (nudge \/ runner = "select")
  /\ caller' = [caller EXCEPT ![c] = "idle"]
  /\ UNCHANGED <<counts, closed, runner, final, pending, useCount, stop,
                 accepted, lost>>

(* select { case flushCh <- {}: default: } on an open channel: afterwards  *)
(* the buffer holds a token, the caller's or an earlier one.               *)
Nudge(c) ==
  /\ caller[c] = "nudging"
  /\ ~closed
  /\ nudge' = TRUE
  /\ caller' = [caller EXCEPT ![c] = "idle"]
  /\ UNCHANGED <<counts, closed, runner, final, pending, useCount, stop,
                 accepted, lost>>

(* The same select on a closed channel panics, default or not: a send on a *)
(* closed channel can always proceed.  The goroutine's call is over.       *)
NudgePanics(c) ==
  /\ caller[c] = "nudging"
  /\ closed
  /\ caller' = [caller EXCEPT ![c] = "panicked"]
  /\ UNCHANGED <<counts, nudge, closed, runner, final, pending, useCount,
                 stop, accepted, lost>>

-----------------------------------------------------------------------------
(* Shutdown(ctx).                                                          *)

CloseFlushCh ==
  /\ stop = "none"
  /\ closed' = TRUE
  /\ stop' = "waiting"
  /\ UNCHANGED <<counts, nudge, runner, final, pending, useCount, caller,
                 accepted, lost>>

(* A Shutdown that returns without waiting for doneCh.                     *)
ShutdownWithoutWait ==
  /\ stop = "waiting"
  /\ stop' = "ok"
  /\ UNCHANGED <<batchVars, nudge, closed, runner, final, caller>>

(* case <-uc.doneCh: the deferred close of run.                            *)
ShutdownDone ==
  /\ stop = "waiting"
  /\ runner = "stopped"
  /\ stop' = "ok"
  /\ UNCHANGED <<batchVars, nudge, closed, runner, final, caller>>

(* case <-ctx.Done().                                                      *)
ShutdownExpired ==
  /\ stop = "waiting"
  /\ stop' = "expired"
  /\ UNCHANGED <<batchVars, nudge, closed, runner, final, caller>>

-----------------------------------------------------------------------------
(* The runner: run and flush.                                              *)

(* A token is received, from a closed channel too while one is buffered.   *)
RecvNudge ==
  /\ runner = "select"
  /\ nudge
  /\ nudge' = FALSE
  /\ runner' = "flush"
  /\ UNCHANGED <<batchVars, closed, final, caller, stop>>

Tick ==
  /\ runner = "select"
  /\ runner' = "flush"
  /\ UNCHANGED <<batchVars, nudge, closed, final, caller, stop>>

(* !ok: the channel is closed and its buffer is empty.                     *)
RecvClosed ==
  /\ runner = "select"
  /\ closed
  /\ ~nudge
  /\ final' = TRUE
  /\ runner' = "flush"
  /\ UNCHANGED <<batchVars, nudge, closed, caller, stop>>

(* A loop that breaks out of the select instead of returning.              *)
AfterFlushForever == "select"

(* Where run goes after a flush: back to the select, or out.               *)
AfterFlush == IF final THEN "stopped" ELSE "select"

FlushEmpty ==
  /\ runner = "flush"
  /\ counts = Zero
  /\ runner' = AfterFlush
  /\ UNCHANGED <<batchVars, nudge, closed, final, caller, stop>>

(* A flush that resets the map after the writes, outside the lock that     *)
(* copied it: here, the copy is taken but the reset is left out.           *)
SwapWithoutReset ==
  /\ runner = "flush"
  /\ counts # Zero
  /\ pending' = counts
  /\ runner' = "writing"
  /\ UNCHANGED <<counts, nudge, closed, final, useCount, caller, stop,
                 accepted, lost>>

(* pending := uc.counts; uc.counts = make(...) in one critical section.    *)
Swap ==
  /\ runner = "flush"
  /\ counts # Zero
  /\ pending' = counts
  /\ counts' = Zero
  /\ runner' = "writing"
  /\ UNCHANGED <<nudge, closed, final, useCount, caller, stop, accepted, lost>>

(* A write of one instead of the batched delta.                            *)
WriteOnlyOne(l) ==
  /\ runner = "writing"
  /\ pending[l] > 0
  /\ useCount' = [useCount EXCEPT ![l] = @ + 1]
  /\ pending' = [pending EXCEPT ![l] = 0]
  /\ UNCHANGED <<counts, nudge, closed, runner, final, caller, stop, accepted,
                 lost>>

(* The delta with the wrong sign.                                          *)
WriteSubtracts(l) ==
  /\ runner = "writing"
  /\ pending[l] > 0
  /\ useCount' = [useCount EXCEPT ![l] = @ - pending[l]]
  /\ pending' = [pending EXCEPT ![l] = 0]
  /\ UNCHANGED <<counts, nudge, closed, runner, final, caller, stop, accepted,
                 lost>>

(* UPDATE links SET use_count = use_count + delta WHERE id = l.            *)
WriteCount(l) ==
  /\ runner = "writing"
  /\ pending[l] > 0
  /\ useCount' = [useCount EXCEPT ![l] = @ + pending[l]]
  /\ pending' = [pending EXCEPT ![l] = 0]
  /\ UNCHANGED <<counts, nudge, closed, runner, final, caller, stop, accepted,
                 lost>>

(* The UPDATE fails (the error is ignored) or its link has been deleted.   *)
WriteLost(l) ==
  /\ runner = "writing"
  /\ pending[l] > 0
  /\ lost' = [lost EXCEPT ![l] = @ + pending[l]]
  /\ pending' = [pending EXCEPT ![l] = 0]
  /\ UNCHANGED <<counts, nudge, closed, runner, final, useCount, caller, stop,
                 accepted>>

FlushEnd ==
  /\ runner = "writing"
  /\ pending = Zero
  /\ runner' = AfterFlush
  /\ UNCHANGED <<batchVars, nudge, closed, final, caller, stop>>

-----------------------------------------------------------------------------
Runner ==
  \/ RecvNudge \/ Tick \/ RecvClosed \/ FlushEmpty \/ Swap \/ FlushEnd
  \/ \E l \in Links : WriteCount(l) \/ WriteLost(l)

Next ==
  \/ \E c \in Callers : (\E l \in Links : Increment(c, l))
                        \/ Nudge(c) \/ NudgePanics(c)
  \/ CloseFlushCh \/ ShutdownDone \/ ShutdownExpired
  \/ Runner

(* A goroutine that can run is run by the Go scheduler; a call that entered *)
(* Increment leaves it.  Nobody is obliged to call Increment or Shutdown.  *)
(* A select with several ready cases picks one at random, so a channel     *)
(* that is ready at every visit is eventually picked: strong fairness.     *)
Fairness ==
  /\ WF_vars(RecvNudge \/ RecvClosed \/ FlushEmpty \/ Swap \/ FlushEnd)
  /\ WF_vars(\E l \in Links : WriteCount(l) \/ WriteLost(l))
  /\ SF_vars(RecvNudge)
  /\ SF_vars(RecvClosed)
  /\ \A c \in Callers : WF_vars(Nudge(c) \/ NudgePanics(c))
  /\ WF_vars(ShutdownDone \/ ShutdownExpired)

Spec == Init /\ [][Next]_vars

FairSpec == Spec /\ Fairness

-----------------------------------------------------------------------------
(* Properties.                                                             *)

(* Nothing is counted twice and nothing disappears: every accepted use is  *)
(* in the map, in the batch being written, in the database, or was dropped *)
(* by an UPDATE whose error flush ignores.                                 *)
Conservation ==
  \A l \in Links :
    accepted[l] = counts[l] + pending[l] + useCount[l] + lost[l]

(* No lost wake-up: uses waiting in the map are always announced, by a     *)
(* token in flushCh, by a caller between Unlock and its send, by a runner  *)
(* that has been woken and not yet swapped, or by the close.               *)
NoLostWakeup ==
  counts # Zero =>
    \/ nudge
    \/ closed
    \/ runner = "flush"
    \/ \E c \in Callers : caller[c] = "nudging"

(* A Shutdown that returned nil left nothing behind: unless some caller    *)
(* incremented so late that its send met the closed channel, the map and   *)
(* the batch are empty.                                                    *)
ShutdownFlushes ==
  stop = "ok" =>
    /\ pending = Zero
    /\ counts # Zero => \E c \in Callers : caller[c] \in {"nudging", "panicked"}

(* A use waiting in the map is taken by a flush even if the ticker never   *)
(* fires, as long as the counter is not shut down.                         *)
CountsAreTaken ==
  \A l \in Links : counts[l] > 0 ~> (counts[l] = 0 \/ closed)

(* Closing the channel stops the runner, whatever the ticker does.         *)
CloseStopsRunner == closed ~> (runner = "stopped")

(* What the counter promises its callers, as a specification of its own.   *)
Ledger == INSTANCE StatLedger WITH durable <- useCount, dropped <- lost

LedgerSpec == Ledger!Spec
=============================================================================
