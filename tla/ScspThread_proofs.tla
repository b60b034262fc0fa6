-------------------------- MODULE ScspThread_proofs --------------------------
(***************************************************************************)
(* Theorems about module ScspThread, for clocks of any width, any slice and *)
(* any set of writes.                                                      *)
(***************************************************************************)
EXTENDS ScspThread, TLAPS

-----------------------------------------------------------------------------
(* The clocks                                                              *)

LEMMA Sum ==
  ASSUME NEW a \in Clock, NEW s \in Nat, s < Modulus
  PROVE  (a + s) % Modulus = IF a + s < Modulus THEN a + s ELSE a + s - Modulus
BY ClockAssumption DEF Clock

LEMMA Difference ==
  ASSUME NEW a \in Clock, NEW b \in Clock
  PROVE  (a - b) % Modulus = IF a >= b THEN a - b ELSE a - b + Modulus
BY ClockAssumption DEF Clock

(* The lag is 0 exactly when the clocks agree. *)
LEMMA LagInClock ==
  ASSUME TypeOK
  PROVE  /\ Lag = IF target >= clock THEN target - clock
                                     ELSE target - clock + Modulus
         /\ Lag \in Clock
         /\ Lag = 0 <=> clock = target
<1>1. Lag = IF target >= clock THEN target - clock ELSE target - clock + Modulus
  BY Difference DEF TypeOK, Lag
<1>2. QED
  BY <1>1, ClockAssumption DEF TypeOK, Clock

-----------------------------------------------------------------------------
(* The invariant                                                           *)

Writing == Waiting /\ why = "write"

(* The one write under way goes from the main thread, which waits, through the
   buffer to the sound thread. *)
WriteInv ==
  /\ wsize => Writing
  /\ thread \in {"data", "apply", "clear"} => wsize
  /\ wsize /\ thread # "clear" => applied = None
  /\ thread = "apply" => taken = wdata
  /\ thread = "clear" => applied = wdata
  /\ main = "store" => applied = None
  /\ Writing /\ ~wsize => applied = wdata
  /\ WritesTakeEffect

ClockInv ==
  /\ LagBounded
  /\ main = "direct" => clock = target

IInv == TypeOK /\ WriteInv /\ ClockInv /\ NoSpuriousRequest

USE DEF Waiting

LEMMA InvInit == Init => IInv
<1> SUFFICES ASSUME Init PROVE IInv
  OBVIOUS
<1>1. TypeOK
  <2>1. clock \in Clock /\ target \in Clock /\ cycles \in 0..MaxExec
    BY ClockAssumption DEF Init, Clock
  <2>2. QED
    BY <2>1 DEF Init, TypeOK
<1>2. Lag = 0
  BY <1>1, LagInClock DEF Init
<1>3. QED
  BY <1>1, <1>2, ClockAssumption
  DEF Init, IInv, WriteInv, Writing, WritesTakeEffect, ClockInv, LagBounded,
      NoSpuriousRequest

-----------------------------------------------------------------------------
(* Types                                                                   *)

LEMMA TypeStep == TypeOK /\ [Next]_vars => TypeOK'
<1> SUFFICES ASSUME TypeOK, [Next]_vars PROVE TypeOK'
  OBVIOUS
<1> USE DEF TypeOK, mainVars, threadVars, clockVars, writeVars, irqVars
<1>1. CASE MainStep
  BY <1>1 DEF MainStep, CheckWait, WakeThread, StoreSize, HandleInterrupt,
              ClearPending, ScspReset, OtherAccess, WakeToStop, Join, Woken
<1>2. CASE ScspExec
  <2>1. PICK step \in 0..MaxStep : target' = (target + step) % Modulus
    BY <1>2 DEF ScspExec
  <2>2. target' \in Clock
    BY <2>1, Sum, ClockAssumption DEF Clock
  <2>3. QED
    BY <1>2, <2>2 DEF ScspExec
<1>3. CASE ScspWrite \/ ScspSyncThread \/ ScspDeInit
  BY <1>3 DEF ScspWrite, ScspSyncThread, ScspDeInit
<1>4. CASE ScspInit
  <2>1. 0 \in Clock
    BY ClockAssumption DEF Clock
  <2>2. QED
    BY <1>4, <2>1 DEF ScspInit
<1>5. CASE ReadTarget
  <2>1. cycles' \in 0..MaxExec
    BY <1>5, LagInClock, ClockAssumption DEF ReadTarget, Slice, Clock
  <2>2. QED
    BY <1>5, <2>1 DEF ReadTarget
<1>6. CASE AdvanceClock
  <2>1. clock' \in Clock
    BY <1>6, Sum, ClockAssumption DEF AdvanceClock, Clock
  <2>2. QED
    BY <1>6, <2>1 DEF AdvanceClock
<1>7. CASE TestRunning \/ ReadSize \/ ReadData \/ ApplyWrite \/ ClearSize \/ Sleep
  BY <1>7 DEF TestRunning, ReadSize, ReadData, ApplyWrite, ClearSize, Sleep
<1>8. CASE RaiseInterrupt
  BY <1>8 DEF RaiseInterrupt
<1>9. CASE UNCHANGED vars
  BY <1>9 DEF vars
<1>10. QED
  BY <1>1, <1>2, <1>3, <1>4, <1>5, <1>6, <1>7, <1>8, <1>9
  DEF Next, MainCall, ThreadStep

-----------------------------------------------------------------------------
(* The write buffer                                                        *)

LEMMA WriteStep == TypeOK /\ WriteInv /\ [Next]_vars => WriteInv'
<1> SUFFICES ASSUME TypeOK, WriteInv, [Next]_vars PROVE WriteInv'
  OBVIOUS
<1> USE DEF TypeOK, WriteInv, Writing, WritesTakeEffect,
            mainVars, threadVars, clockVars, writeVars, irqVars
<1>1. CASE CheckWait
  BY <1>1 DEF CheckWait, WaitOver
<1>2. CASE WakeThread
  BY <1>2 DEF WakeThread, Woken
<1>3. CASE StoreSize
  BY <1>3 DEF StoreSize
<1>4. CASE HandleInterrupt \/ ClearPending \/ ScspReset \/ OtherAccess \/ Join
  BY <1>4 DEF HandleInterrupt, ClearPending, ScspReset, OtherAccess, Join
<1>5. CASE WakeToStop
  BY <1>5 DEF WakeToStop, Woken
<1>6. CASE ScspWrite
  BY <1>6 DEF ScspWrite
<1>7. CASE ScspExec \/ ScspSyncThread \/ ScspDeInit \/ ScspInit
  BY <1>7 DEF ScspExec, ScspSyncThread, ScspDeInit, ScspInit
<1>8. CASE ReadSize \/ ReadData
  BY <1>8 DEF ReadSize, ReadData
<1>9. CASE ApplyWrite
  BY <1>9 DEF ApplyWrite
<1>10. CASE ClearSize
  BY <1>10 DEF ClearSize
<1>11. CASE TestRunning \/ ReadTarget \/ AdvanceClock \/ Sleep
  BY <1>11 DEF TestRunning, ReadTarget, AdvanceClock, Sleep
<1>12. CASE RaiseInterrupt \/ UNCHANGED vars
  BY <1>12 DEF RaiseInterrupt, vars
<1>13. QED
  BY <1>1, <1>2, <1>3, <1>4, <1>5, <1>6, <1>7, <1>8, <1>9, <1>10, <1>11, <1>12
  DEF Next, MainStep, MainCall, ThreadStep

-----------------------------------------------------------------------------
(* The clocks of the two threads                                           *)

(* Steps that leave the clocks alone, do not begin a slice and do not end a wait
   for the sound thread. *)
LEMMA ClockKept ==
  ASSUME TypeOK, ClockInv, UNCHANGED <<clock, target, cycles>>,
         thread' = "exec" => thread = "exec",
         main' = "direct" => main = "direct",
         Waiting /\ why = "exec" => Waiting' /\ why' = "exec"
  PROVE  ClockInv'
<1>1. Lag' = Lag
  BY DEF Lag
<1>2. QED
  BY <1>1 DEF ClockInv, LagBounded

LEMMA ClockStep == TypeOK /\ ClockInv /\ [Next]_vars => ClockInv'
<1> SUFFICES ASSUME TypeOK, ClockInv, [Next]_vars PROVE ClockInv'
  OBVIOUS
<1>0. TypeOK'
  BY TypeStep
<1> USE DEF mainVars, threadVars, clockVars, writeVars, irqVars
<1>1. CASE CheckWait
  <2>1. Lag' = Lag
    BY <1>1 DEF CheckWait, Lag
  <2>2. QED
    BY <1>1, <2>1 DEF CheckWait, WaitOver, CloseEnough, InSync, ClockInv,
                      LagBounded, TypeOK
<1>2. CASE WakeThread \/ StoreSize \/ HandleInterrupt \/ ClearPending
           \/ ScspReset \/ OtherAccess \/ WakeToStop \/ Join
  BY <1>2, ClockKept DEF WakeThread, StoreSize, HandleInterrupt, ClearPending,
     ScspReset, OtherAccess, WakeToStop, Join, Woken
<1>3. CASE ScspExec
  <2>1. PICK step \in 0..MaxStep : target' = (target + step) % Modulus
    BY <1>3 DEF ScspExec
  <2>2. target' = IF target + step < Modulus THEN target + step
                                             ELSE target + step - Modulus
    BY <2>1, Sum, ClockAssumption DEF TypeOK, Clock
  <2>3. Lag <= MaxExec
    BY <1>3 DEF ScspExec, ClockInv, LagBounded
  <2>4. Lag' = IF target' >= clock' THEN target' - clock'
                                    ELSE target' - clock' + Modulus
    BY <1>0, Difference DEF TypeOK, Lag
  <2>5. Lag' = Lag + step
    BY <1>3, <2>2, <2>3, <2>4, LagInClock, ClockAssumption
    DEF ScspExec, TypeOK, Clock
  <2>6. QED
    BY <1>3, <2>3, <2>5, LagInClock, ClockAssumption
    DEF ScspExec, ClockInv, LagBounded, TypeOK, Clock
<1>4. CASE ScspWrite \/ ScspSyncThread \/ ScspDeInit
  BY <1>4, ClockKept DEF ScspWrite, ScspSyncThread, ScspDeInit
<1>5. CASE ScspInit
  <2>1. clock' = 0 /\ target' = 0 /\ main' = "idle" /\ thread' = "test"
    BY <1>5 DEF ScspInit
  <2>2. Lag' = 0
    BY <2>1, ClockAssumption DEF Lag
  <2>3. QED
    BY <2>1, <2>2, ClockAssumption DEF ClockInv, LagBounded
<1>6. CASE ReadTarget
  <2>1. Lag' = Lag
    BY <1>6 DEF ReadTarget, Lag
  <2>2. Slice \in Nat /\ Slice <= Lag
    BY LagInClock, ClockAssumption DEF Slice, Clock
  <2>3. QED
    BY <1>6, <2>1, <2>2 DEF ReadTarget, ClockInv, LagBounded
<1>7. CASE AdvanceClock
  <2>1. cycles \in 0..Lag
    BY <1>7 DEF AdvanceClock, ClockInv, LagBounded, TypeOK
  <2>2. clock' = IF clock + cycles < Modulus THEN clock + cycles
                                             ELSE clock + cycles - Modulus
    BY <1>7, <2>1, Sum, LagInClock, ClockAssumption
    DEF AdvanceClock, TypeOK, Clock
  <2>3. Lag' = IF target' >= clock' THEN target' - clock'
                                    ELSE target' - clock' + Modulus
    BY <1>0, Difference DEF TypeOK, Lag
  <2>4. Lag' = Lag - cycles
    BY <1>7, <2>1, <2>2, <2>3, LagInClock, ClockAssumption
    DEF AdvanceClock, TypeOK, Clock
  <2>5. cycles > 0 /\ main # "direct"
    BY <1>7, LagInClock DEF AdvanceClock, ClockInv, LagBounded, TypeOK
  <2>6. QED
    BY <1>7, <2>1, <2>4, <2>5, LagInClock, ClockAssumption
    DEF AdvanceClock, ClockInv, LagBounded, Clock
<1>8. CASE TestRunning \/ ReadSize \/ ReadData \/ ApplyWrite \/ ClearSize \/ Sleep
           \/ RaiseInterrupt
  BY <1>8, ClockKept DEF TestRunning, ReadSize, ReadData, ApplyWrite, ClearSize,
                         Sleep, RaiseInterrupt
<1>9. CASE UNCHANGED vars
  BY <1>9, ClockKept DEF vars
<1>10. QED
  BY <1>1, <1>2, <1>3, <1>4, <1>5, <1>6, <1>7, <1>8, <1>9
  DEF Next, MainStep, MainCall, ThreadStep

-----------------------------------------------------------------------------
(* Interrupt requests                                                      *)

LEMMA RequestStep == TypeOK /\ NoSpuriousRequest /\ [Next]_vars => NoSpuriousRequest'
<1> SUFFICES ASSUME TypeOK, NoSpuriousRequest, [Next]_vars
             PROVE  NoSpuriousRequest'
  OBVIOUS
<1> USE DEF TypeOK, NoSpuriousRequest, mainVars, threadVars, clockVars, writeVars,
            irqVars
<1>1. CASE MainStep
  BY <1>1 DEF MainStep, CheckWait, WakeThread, StoreSize, HandleInterrupt,
              ClearPending, ScspReset, OtherAccess, WakeToStop, Join
<1>2. CASE MainCall
  BY <1>2 DEF MainCall, ScspWrite, ScspExec, ScspSyncThread, ScspDeInit, ScspInit
<1>3. CASE ThreadStep
  BY <1>3 DEF ThreadStep, TestRunning, ReadSize, ReadData, ApplyWrite, ClearSize,
              ReadTarget, AdvanceClock, Sleep
<1>4. CASE RaiseInterrupt \/ UNCHANGED vars
  BY <1>4 DEF RaiseInterrupt, vars
<1>5. QED
  BY <1>1, <1>2, <1>3, <1>4 DEF Next

-----------------------------------------------------------------------------
LEMMA InvStep == IInv /\ [Next]_vars => IInv'
BY TypeStep, WriteStep, ClockStep, RequestStep DEF IInv

LEMMA Invariance == Spec => []IInv
BY InvInit, InvStep, PTL DEF Spec

(* The variables of both threads keep to their types. *)
THEOREM TypeCorrect == Spec => []TypeOK
<1>1. IInv => TypeOK
  BY DEF IInv
<1>2. QED
  BY <1>1, Invariance, PTL

(* ScspSyncThread gives the main thread the sound chip to itself, without a lock. *)
THEOREM AccessIsExclusive == Spec => []Exclusive
<1>1. IInv => Exclusive
  <2> SUFFICES ASSUME IInv, main = "direct"
               PROVE  thread \notin {"data", "apply", "clear", "exec"}
    BY DEF Exclusive
  <2>1. ~wsize
    BY DEF IInv, WriteInv, Writing
  <2>2. Lag = 0
    BY LagInClock DEF IInv, ClockInv
  <2>3. thread # "exec"
    BY <2>2 DEF IInv, TypeOK, ClockInv, LagBounded
  <2>4. QED
    BY <2>1, <2>3 DEF IInv, WriteInv
<1>2. QED
  BY <1>1, Invariance, PTL

(* The sound thread is never ahead of its target nor more than a slice behind it
   when ScspExec returns, also over the wrap of the clocks. *)
THEOREM ThreadKeepsUp == Spec => []LagBounded
<1>1. IInv => LagBounded
  BY DEF IInv, ClockInv
<1>2. QED
  BY <1>1, Invariance, PTL

(* A register write has been applied, once, when the call returns. *)
THEOREM WritesAreSynchronous == Spec => []WritesTakeEffect
<1>1. IInv => WritesTakeEffect
  BY DEF IInv, WriteInv
<1>2. QED
  BY <1>1, Invariance, PTL

(* The interrupt handler is not called twice for one request. *)
THEOREM RequestsAreReal == Spec => []NoSpuriousRequest
<1>1. IInv => NoSpuriousRequest
  BY DEF IInv
<1>2. QED
  BY <1>1, Invariance, PTL
=============================================================================
