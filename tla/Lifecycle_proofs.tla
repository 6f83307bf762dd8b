---------------------------- MODULE Lifecycle_proofs ----------------------------
(***************************************************************************)
(* Proofs about the use counter and the process around it, for every set   *)
(* of links and request goroutines and every bound: first of UseCounter    *)
(* alone (Spec: typing, conservation of uses, no lost wake-up, a completed *)
(* Shutdown leaves nothing behind, the refinement of StatLedger), then of  *)
(* Lifecycle (LSpec), whose process only ever takes the counter's steps.   *)
(***************************************************************************)
EXTENDS Lifecycle, TLAPS

(* Typing, for every action of the counter.                                *)
THEOREM TypeCorrect == Spec => []TypeOK
<1>1. Init => TypeOK
  <2>1. Zero \in [Links -> Nat]
    BY DEF Zero
  <2> QED
    BY <2>1 DEF Init, TypeOK
<1>2. TypeOK /\ [Next]_vars => TypeOK'
  <2> SUFFICES ASSUME TypeOK, [Next]_vars PROVE TypeOK'
    OBVIOUS
  <2> USE DEF TypeOK
  <2>1. ASSUME NEW c \in Callers, NEW l \in Links, Increment(c, l)
        PROVE TypeOK'
    BY <2>1 DEF Increment
  <2>2. ASSUME NEW c \in Callers, Nudge(c) \/ NudgePanics(c) PROVE TypeOK'
    BY <2>2 DEF Nudge, NudgePanics
  <2>3. CASE CloseFlushCh \/ ShutdownDone \/ ShutdownExpired
    BY <2>3 DEF CloseFlushCh, ShutdownDone, ShutdownExpired, batchVars
  <2>4. CASE RecvNudge \/ Tick \/ RecvClosed
    BY <2>4 DEF RecvNudge, Tick, RecvClosed, batchVars
  <2>5. CASE FlushEmpty \/ FlushEnd
    BY <2>5 DEF FlushEmpty, FlushEnd, AfterFlush, batchVars
  <2>6. CASE Swap
    BY <2>6 DEF Swap, Zero
  <2>7. ASSUME NEW l \in Links, WriteCount(l) \/ WriteLost(l) PROVE TypeOK'
    BY <2>7 DEF WriteCount, WriteLost
  <2>8. CASE UNCHANGED vars
    BY <2>8 DEF vars
  <2> QED
    BY <2>1, <2>2, <2>3, <2>4, <2>5, <2>6, <2>7, <2>8 DEF Next, Runner
<1> QED
  BY <1>1, <1>2, PTL DEF Spec

-----------------------------------------------------------------------------
(* Conservation needs to know where the batch can be non-empty: only while *)
(* the runner is writing.  Otherwise Swap would overwrite a batch.         *)
BatchOwned == runner # "writing" => pending = Zero

BatchInv == BatchOwned /\ Conservation

(* Together they are inductive.                                            *)
LEMMA UsesConservedInv == Spec => []BatchInv
<1>1. Init => BatchInv
  BY DEF Init, BatchInv, BatchOwned, Conservation, Zero
<1>2. TypeOK /\ BatchInv /\ [Next]_vars => BatchInv'
  <2> SUFFICES ASSUME TypeOK, BatchInv, [Next]_vars PROVE BatchInv'
    OBVIOUS
  <2> USE DEF TypeOK, BatchInv, BatchOwned, Conservation
  <2>1. ASSUME NEW c \in Callers, NEW l \in Links, Increment(c, l)
        PROVE BatchInv'
    BY <2>1 DEF Increment, Zero
  <2>2. ASSUME NEW c \in Callers, Nudge(c) \/ NudgePanics(c) PROVE BatchInv'
    BY <2>2 DEF Nudge, NudgePanics, Zero
  <2>3. CASE CloseFlushCh \/ ShutdownDone \/ ShutdownExpired
    BY <2>3 DEF CloseFlushCh, ShutdownDone, ShutdownExpired, batchVars, Zero
  <2>4. CASE RecvNudge \/ Tick \/ RecvClosed
    BY <2>4 DEF RecvNudge, Tick, RecvClosed, batchVars, Zero
  <2>5. CASE FlushEmpty \/ FlushEnd
    BY <2>5 DEF FlushEmpty, FlushEnd, AfterFlush, batchVars, Zero
  <2>6. CASE Swap
    <3>1. \A l \in Links : pending[l] = 0 /\ pending'[l] = counts[l] /\ counts'[l] = 0
      BY <2>6 DEF Swap, Zero
    <3> QED
      BY <2>6, <3>1 DEF Swap
  <2>7. ASSUME NEW l \in Links, WriteCount(l) \/ WriteLost(l) PROVE BatchInv'
    BY <2>7 DEF WriteCount, WriteLost
  <2>8. CASE UNCHANGED vars
    BY <2>8 DEF vars, Zero
  <2> QED
    BY <2>1, <2>2, <2>3, <2>4, <2>5, <2>6, <2>7, <2>8 DEF Next, Runner
<1> QED
  BY <1>1, <1>2, TypeCorrect, PTL DEF Spec

(* Every accepted use is in the map, the batch, the database or lost.      *)
THEOREM UsesConserved == Spec => []Conservation
<1>1. BatchInv => Conservation
  BY DEF BatchInv
<1> QED
  BY <1>1, UsesConservedInv, PTL

-----------------------------------------------------------------------------
(* The wake-up protocol.  Once closed the guard "closed" never goes away,  *)
(* so only the runs of the loop before the close matter.                   *)
(* No use waits in the map unannounced.                                    *)
THEOREM WakeupNotLost == Spec => []NoLostWakeup
<1>1. Init => NoLostWakeup
  BY DEF Init, NoLostWakeup
<1>2. TypeOK /\ NoLostWakeup /\ [Next]_vars => NoLostWakeup'
  <2> SUFFICES ASSUME TypeOK, NoLostWakeup, [Next]_vars PROVE NoLostWakeup'
    OBVIOUS
  <2>z. Zero' = Zero
    BY DEF Zero
  <2> USE <2>z DEF TypeOK, NoLostWakeup
  <2>1. ASSUME NEW c \in Callers, NEW l \in Links, Increment(c, l)
        PROVE NoLostWakeup'
    BY <2>1 DEF Increment
  <2>2. ASSUME NEW c \in Callers, Nudge(c) \/ NudgePanics(c)
        PROVE NoLostWakeup'
    BY <2>2 DEF Nudge, NudgePanics
  <2>3. CASE CloseFlushCh \/ ShutdownDone \/ ShutdownExpired
    BY <2>3 DEF CloseFlushCh, ShutdownDone, ShutdownExpired, batchVars
  <2>4. CASE RecvNudge \/ Tick \/ RecvClosed
    BY <2>4 DEF RecvNudge, Tick, RecvClosed, batchVars
  <2>5. CASE FlushEmpty
    BY <2>5 DEF FlushEmpty, batchVars
  <2>6. CASE FlushEnd
    BY <2>6 DEF FlushEnd, batchVars
  <2>7. CASE Swap
    BY <2>7 DEF Swap
  <2>8. ASSUME NEW l \in Links, WriteCount(l) \/ WriteLost(l)
        PROVE NoLostWakeup'
    BY <2>8 DEF WriteCount, WriteLost
  <2>9. CASE UNCHANGED vars
    BY <2>9 DEF vars
  <2> QED
    BY <2>1, <2>2, <2>3, <2>4, <2>5, <2>6, <2>7, <2>8, <2>9 DEF Next, Runner
<1> QED
  BY <1>1, <1>2, TypeCorrect, PTL DEF Spec

-----------------------------------------------------------------------------
(* Shutdown.  After the last swap the map can only be filled by callers    *)
(* whose send has not met the closed channel yet, or has: they stay.       *)
Late == \E c \in Callers : caller[c] \in {"nudging", "panicked"}

StopInv ==
  /\ BatchOwned
  /\ final => closed
  /\ runner \in {"writing", "stopped"} /\ final /\ counts # Zero => Late
  /\ runner = "stopped" => final
  /\ stop = "ok" => runner = "stopped"

(* The invariant is inductive.                                             *)
LEMMA StopInvariant == Spec => []StopInv
<1>1. Init => StopInv
  BY DEF Init, StopInv, BatchOwned
<1>2. TypeOK /\ StopInv /\ [Next]_vars => StopInv'
  <2> SUFFICES ASSUME TypeOK, StopInv, [Next]_vars PROVE StopInv'
    OBVIOUS
  <2>z. Zero' = Zero
    BY DEF Zero
  <2> USE <2>z DEF TypeOK, StopInv, BatchOwned, Late
  <2>1. ASSUME NEW c \in Callers, NEW l \in Links, Increment(c, l)
        PROVE StopInv'
    BY <2>1 DEF Increment
  <2>2. ASSUME NEW c \in Callers, Nudge(c) PROVE StopInv'
    BY <2>2 DEF Nudge
  <2>3. ASSUME NEW c \in Callers, NudgePanics(c) PROVE StopInv'
    BY <2>3 DEF NudgePanics
  <2>4. CASE CloseFlushCh \/ ShutdownDone \/ ShutdownExpired
    BY <2>4 DEF CloseFlushCh, ShutdownDone, ShutdownExpired, batchVars
  <2>5. CASE RecvNudge \/ Tick \/ RecvClosed
    BY <2>5 DEF RecvNudge, Tick, RecvClosed, batchVars
  <2>6. CASE FlushEmpty
    BY <2>6 DEF FlushEmpty, AfterFlush, batchVars
  <2>7. CASE FlushEnd
    BY <2>7 DEF FlushEnd, AfterFlush, batchVars
  <2>8. CASE Swap
    BY <2>8 DEF Swap
  <2>9. ASSUME NEW l \in Links, WriteCount(l) \/ WriteLost(l) PROVE StopInv'
    BY <2>9 DEF WriteCount, WriteLost
  <2>10. CASE UNCHANGED vars
    BY <2>10 DEF vars
  <2> QED
    BY <2>1, <2>2, <2>3, <2>4, <2>5, <2>6, <2>7, <2>8, <2>9, <2>10
       DEF Next, Runner
<1> QED
  BY <1>1, <1>2, TypeCorrect, PTL DEF Spec

(* A Shutdown that returned nil leaves an empty batch, and an empty map    *)
(* unless a caller came after the close.                                   *)
THEOREM ShutdownFlushed == Spec => []ShutdownFlushes
<1>1. StopInv => ShutdownFlushes
  BY DEF StopInv, BatchOwned, ShutdownFlushes, Late
<1> QED
  BY <1>1, StopInvariant, PTL

-----------------------------------------------------------------------------
(* Refinement.  Increment accepts, a write persists or drops a batch that  *)
(* Conservation bounds by what is outstanding; everything else stutters.   *)
(* The counter implements the ledger it is meant to be.                    *)
THEOREM ImplementsLedger == Spec => LedgerSpec
<1>1. Init => Ledger!Init
  BY DEF Init, Ledger!Init, Zero
<1>2. TypeOK /\ BatchInv /\ [Next]_vars => [Ledger!Next]_(Ledger!ledger)
  <2> SUFFICES ASSUME TypeOK, BatchInv, [Next]_vars
               PROVE  [Ledger!Next]_(Ledger!ledger)
    OBVIOUS
  <2> USE DEF Ledger!ledger
  <2>1. ASSUME NEW c \in Callers, NEW l \in Links, Increment(c, l)
        PROVE Ledger!Next
    BY <2>1 DEF Increment, Ledger!Next, Ledger!Accept
  <2>2. ASSUME NEW l \in Links, WriteCount(l) \/ WriteLost(l)
        PROVE Ledger!Next
    <3>1. pending[l] \in 1 .. accepted[l] - (useCount[l] + lost[l])
      BY <2>2 DEF WriteCount, WriteLost, TypeOK, BatchInv, Conservation
    <3>2. CASE WriteCount(l)
      BY <3>1, <3>2 DEF WriteCount, Ledger!Next, Ledger!Persist
    <3>3. CASE WriteLost(l)
      BY <3>1, <3>3 DEF WriteLost, Ledger!Next, Ledger!Drop
    <3> QED
      BY <2>2, <3>2, <3>3
  <2>3. ASSUME NEW c \in Callers, Nudge(c) \/ NudgePanics(c)
        PROVE UNCHANGED Ledger!ledger
    BY <2>3 DEF Nudge, NudgePanics
  <2>4. CASE CloseFlushCh \/ ShutdownDone \/ ShutdownExpired
    BY <2>4 DEF CloseFlushCh, ShutdownDone, ShutdownExpired, batchVars
  <2>5. CASE RecvNudge \/ Tick \/ RecvClosed \/ FlushEmpty \/ FlushEnd \/ Swap
    BY <2>5 DEF RecvNudge, Tick, RecvClosed, FlushEmpty, FlushEnd, Swap,
                batchVars
  <2>6. CASE UNCHANGED vars
    BY <2>6 DEF vars
  <2> QED
    BY <2>1, <2>2, <2>3, <2>4, <2>5, <2>6 DEF Next, Runner
<1>3. Spec => [](TypeOK /\ BatchInv)
  BY TypeCorrect, UsesConservedInv, PTL
<1> QED
  BY <1>1, <1>2, <1>3, PTL DEF Spec, LedgerSpec, Ledger!Spec

-----------------------------------------------------------------------------
(* The process.                                                            *)

(* The process uses the counter only through its operations.               *)
LEMMA UsesCounter == LSpec => Spec
<1>1. LInit => Init
  BY DEF LInit
<1>2. [LNext]_allVars => [Next]_vars
  <2> SUFFICES ASSUME [LNext]_allVars PROVE [Next]_vars
    OBVIOUS
  <2>1. ASSUME NEW c \in Callers, StartRequest(c) \/ FinishRequest(c)
        PROVE UNCHANGED vars
    BY <2>1 DEF StartRequest, FinishRequest
  <2>2. ASSUME NEW c \in Callers, CountUse(c) PROVE Next
    BY <2>2 DEF CountUse, Next
  <2>3. CASE Signal \/ Expire \/ Exit
    BY <2>3 DEF Signal, Expire, Exit
  <2>4. CASE StopCounter
    BY <2>4 DEF StopCounter, Next
  <2>5. CASE AwaitCounter
    BY <2>5 DEF AwaitCounter, Next
  <2>6. CASE RunnerStep
    BY <2>6 DEF RunnerStep, Next
  <2>7. CASE UNCHANGED allVars
    BY <2>7 DEF allVars
  <2> QED
    BY <2>1, <2>2, <2>3, <2>4, <2>5, <2>6, <2>7 DEF LNext
<1> QED
  BY <1>1, <1>2, PTL DEF LSpec, Spec

(* How the phases of the shutdown, the counter and the handlers fit.       *)
LInv ==
  /\ LTypeOK
  /\ closed <=> phase \in {"stopping", "exited"}
  /\ closed <=> stop # "none"
  /\ stop = "expired" => expired
  /\ phase = "exited" => stop \in {"ok", "expired"}
  /\ closed /\ ~expired => \A c \in Callers : ~busy[c]
  /\ \A c \in Callers : caller[c] = "nudging" => busy[c]
  /\ \A c \in Callers : caller[c] = "panicked" => expired

(* The invariant is inductive.                                             *)
LEMMA LInvariant == LSpec => []LInv
<1>1. LInit => LInv
  <2>1. Zero \in [Links -> Nat]
    BY DEF Zero
  <2> QED
    BY <2>1 DEF LInit, Init, LInv, LTypeOK, TypeOK
<1>2. TypeOK' /\ LInv /\ [LNext]_allVars => LInv'
  <2> SUFFICES ASSUME TypeOK', LInv, [LNext]_allVars PROVE LInv'
    OBVIOUS
  <2> USE DEF LInv, LTypeOK, vars, procVars, Running
  <2>1. ASSUME NEW c \in Callers, StartRequest(c) PROVE LInv'
    BY <2>1 DEF StartRequest
  <2>2. ASSUME NEW c \in Callers, FinishRequest(c) PROVE LInv'
    BY <2>2 DEF FinishRequest, TypeOK
  <2>3. ASSUME NEW c \in Callers, NEW l \in Links, CountUse(c), Increment(c, l)
        PROVE LInv'
    BY <2>3 DEF CountUse, Increment, TypeOK
  <2>4. ASSUME NEW c \in Callers, CountUse(c), Nudge(c) PROVE LInv'
    BY <2>4 DEF CountUse, Nudge, TypeOK
  <2>5. ASSUME NEW c \in Callers, CountUse(c), NudgePanics(c) PROVE LInv'
    BY <2>5 DEF CountUse, NudgePanics, TypeOK
  <2>6. CASE Signal
    BY <2>6 DEF Signal
  <2>7. CASE Expire
    BY <2>7 DEF Expire
  <2>8. CASE StopCounter
    BY <2>8 DEF StopCounter, CloseFlushCh, TypeOK
  <2>9. CASE AwaitCounter
    BY <2>9 DEF AwaitCounter, ShutdownDone, ShutdownExpired
  <2>10. CASE Exit
    BY <2>10 DEF Exit
  <2>11. CASE RunnerStep
    <3>1. UNCHANGED <<closed, caller, stop>>
      BY <2>11 DEF RunnerStep, Runner, RecvNudge, Tick, RecvClosed,
                   FlushEmpty, Swap, FlushEnd, WriteCount, WriteLost
    <3> QED
      BY <2>11, <3>1 DEF RunnerStep
  <2>12. CASE UNCHANGED allVars
    BY <2>12 DEF allVars
  <2> QED
    BY <2>1, <2>2, <2>3, <2>4, <2>5, <2>6, <2>7, <2>8, <2>9, <2>10, <2>11, <2>12
       DEF LNext, CountUse
<1> QED
  BY <1>1, <1>2, UsesCounter, TypeCorrect, PTL DEF LSpec

(* No handler meets the closed channel before the deadline.                *)
THEOREM NoPanic == LSpec => []NoPanicInTime
<1>1. LInv => NoPanicInTime
  BY DEF LInv, NoPanicInTime
<1> QED
  BY <1>1, LInvariant, PTL

(* A process that exits before its deadline has lost no accepted use, but  *)
(* for failed UPDATEs: Shutdown returned nil, no caller came late, so the  *)
(* map and the batch are empty, and Conservation accounts for the rest.    *)
THEOREM GracefulExit == LSpec => []GracefulExitKeepsUses
<1>1. LInv /\ BatchInv /\ StopInv => GracefulExitKeepsUses
  <2> SUFFICES ASSUME LInv, BatchInv, StopInv, phase = "exited", ~expired
               PROVE  \A l \in Links : accepted[l] = useCount[l] + lost[l]
    BY DEF GracefulExitKeepsUses
  <2>1. stop = "ok" /\ pending = Zero
    BY DEF LInv, StopInv, BatchOwned
  <2>2. counts = Zero
    BY <2>1 DEF LInv, StopInv, Late
  <2>3. \A l \in Links : counts[l] = 0 /\ pending[l] = 0
    BY <2>1, <2>2 DEF Zero
  <2>4. ASSUME NEW l \in Links PROVE accepted[l] = useCount[l] + lost[l]
    <3>1. accepted[l] = counts[l] + pending[l] + useCount[l] + lost[l]
      BY DEF BatchInv, Conservation
    <3>2. useCount[l] \in Nat /\ lost[l] \in Nat
      BY DEF LInv, LTypeOK, TypeOK
    <3> QED
      BY <2>3, <3>1, <3>2
  <2> QED
    BY <2>4
<1> QED
  BY <1>1, LInvariant, UsesCounter, UsesConservedInv, StopInvariant, PTL
=============================================================================
