----------------------------- MODULE ScspThread -----------------------------
(***************************************************************************)
(* The sound chip on a thread of its own (src/src/scsp2.c), and the main   *)
(* thread that talks to it.                                                *)
(*                                                                         *)
(* The main thread moves scsp_clock_target forward; the sound thread       *)
(* executes until scsp_clock has reached it and sleeps.  Register writes go *)
(* through a buffer of one write, for whose end the main thread waits; what *)
(* else it does to the sound chip (reset, start or stop of the 68000, save *)
(* and load) it does itself, after it has waited for the thread to catch up.*)
(* Interrupt requests go the other way, through a flag.  A wake-up that    *)
(* finds the thread awake is lost: YabThreadSleep is pause() or a wait on a *)
(* condition that YabThreadWake signals without its mutex.                 *)
(*                                                                         *)
(* Each read or write of a shared variable is a step.  They are volatile   *)
(* and are taken to happen in program order.                               *)
(***************************************************************************)
EXTENDS Integers

CONSTANTS
  Modulus,     \* 2^32: the clocks are u32
  MaxExec,     \* SCSP_CLOCK_MAX_EXEC
  MaxStep,     \* what one call of ScspExec adds: below 2^12
  Writes,      \* register writes of the host: address, data and size
  None,        \* no write
  Twice        \* a write that was applied more than once

ASSUME ClockAssumption ==
  /\ MaxExec \in Nat \ {0}
  /\ MaxStep \in Nat
  /\ Modulus \in Nat /\ MaxExec + MaxStep < Modulus
ASSUME WritesAssumption == None \notin Writes /\ Twice \notin Writes \union {None}

VARIABLES
  main,       \* where the main thread is
  why,        \* what it waits for in "check" and "wake"
  thread,     \* where the sound thread is, "none" when there is no thread
  running,    \* scsp_thread_running
  clock, target,
  cycles,     \* clock_cycles of the sound thread
  wsize,      \* scsp_write_buffer_size # 0
  wdata,      \* scsp_write_buffer_address and _data
  taken,      \* the write the sound thread has taken from there
  pending,    \* scsp_main_interrupt_pending
  applied,    \* what became of the write in wdata: None, itself, or Twice
  unserved    \* a request was raised since the handler was last called

mainVars   == <<main, why>>
threadVars == <<thread, cycles, taken>>
clockVars  == <<clock, target>>
writeVars  == <<wsize, wdata, applied>>
irqVars    == <<pending, unserved>>
vars == <<mainVars, threadVars, running, clockVars, writeVars, irqVars>>

Clock == 0..(Modulus - 1)

(* scsp_clock_target - scsp_clock, on u32. *)
Lag == (target - clock) % Modulus

Init ==
  /\ main = "idle" /\ why = "sync"
  /\ thread = "test" /\ running = TRUE
  /\ clock = 0 /\ target = 0 /\ cycles = 0
  /\ wsize = FALSE /\ wdata = None /\ taken = None /\ applied = None
  /\ pending = FALSE /\ unserved = FALSE

-----------------------------------------------------------------------------
(* The main thread                                                         *)

(* Mutant: a wake-up reaches no thread that sleeps. *)
Mut_Woken == thread

(* YabThreadWake: a thread that is not asleep does not notice. *)
Woken == IF thread = "asleep" THEN "test" ELSE thread

(* Mutants: the wait ends when the thread has only a slice left to do, *)
Mut_InSync == Lag <= MaxExec
(* or at once. *)
Mut_CloseEnough == TRUE

InSync == clock = target
CloseEnough == Lag <= MaxExec

(* The waiting loops: of a write, of ScspExec and of ScspSyncThread. *)
WaitOver == \/ why = "write" /\ ~wsize
            \/ why = "exec" /\ CloseEnough
            \/ why = "sync" /\ InSync

CheckWait ==
  /\ main = "check"
  /\ main' = IF ~WaitOver THEN "wake"
             ELSE CASE why = "write" -> "idle"
                    [] why = "exec"  -> "interrupt"
                    [] why = "sync"  -> "direct"
  /\ UNCHANGED <<why, threadVars, running, clockVars, writeVars, irqVars>>

WakeThread ==
  /\ main = "wake"
  /\ main' = "check"
  /\ thread' = Woken
  /\ UNCHANGED <<why, cycles, taken, running, clockVars, writeVars, irqVars>>

(* ScspWriteByte, Word and Long: address and data first, then the size. *)
ScspWrite ==
  /\ main = "idle" /\ running
  /\ main' = "store"
  /\ wdata' \in Writes
  /\ applied' = None
  /\ UNCHANGED <<why, threadVars, running, clockVars, wsize, irqVars>>

StoreSize ==
  /\ main = "store"
  /\ main' = "check"
  /\ why' = "write"
  /\ wsize' = TRUE
  /\ UNCHANGED <<threadVars, running, clockVars, wdata, applied, irqVars>>

(* ScspExec: the target moves; the thread is woken only when it is far behind.
   Afterwards the flag is tested, the handler called and the flag cleared. *)
ScspExec ==
  /\ main = "idle" /\ running
  /\ main' = "check"
  /\ why' = "exec"
  /\ \E step \in 0..MaxStep : target' = (target + step) % Modulus
  /\ UNCHANGED <<threadVars, running, clock, writeVars, irqVars>>

HandleInterrupt ==
  /\ main = "interrupt"
  /\ main' = IF pending THEN "clear" ELSE "idle"
  /\ unserved' = (unserved /\ ~pending)
  /\ UNCHANGED <<why, threadVars, running, clockVars, writeVars, pending>>

(* Mutant: the flag is not cleared. *)
Mut_ClearPending ==
  /\ main = "clear"
  /\ main' = "idle"
  /\ UNCHANGED <<why, threadVars, running, clockVars, writeVars, irqVars>>

ClearPending ==
  /\ main = "clear"
  /\ main' = "idle"
  /\ pending' = FALSE
  /\ UNCHANGED <<why, threadVars, running, clockVars, writeVars, unserved>>

(* ScspSyncThread, called by what touches the state of the sound chip. *)
ScspSyncThread ==
  /\ main = "idle" /\ running
  /\ main' = "check"
  /\ why' = "sync"
  /\ UNCHANGED <<threadVars, running, clockVars, writeVars, irqVars>>

(* The end of ScspReset, *)
ScspReset ==
  /\ main = "direct"
  /\ main' = "idle"
  /\ pending' = FALSE /\ unserved' = FALSE
  /\ wsize' = FALSE
  /\ UNCHANGED <<why, threadVars, running, clockVars, wdata, applied>>

(* and of M68KStart, M68KStop, SoundSaveState and SoundLoadState. *)
OtherAccess ==
  /\ main = "direct"
  /\ main' = "idle"
  /\ UNCHANGED <<why, threadVars, running, clockVars, writeVars, irqVars>>

(* ScspDeInit: stop, wake once, join. *)
ScspDeInit ==
  /\ main = "idle" /\ running
  /\ main' = "stop"
  /\ running' = FALSE
  /\ UNCHANGED <<why, threadVars, clockVars, writeVars, irqVars>>

WakeToStop ==
  /\ main = "stop"
  /\ main' = "join"
  /\ thread' = Woken
  /\ UNCHANGED <<why, cycles, taken, running, clockVars, writeVars, irqVars>>

Join ==
  /\ main = "join"
  /\ thread = "none"
  /\ main' = "stopped"
  /\ UNCHANGED <<why, threadVars, running, clockVars, writeVars, irqVars>>

(* ScspInit; that the thread can be started is assumed. *)
ScspInit ==
  /\ main = "stopped"
  /\ main' = "idle"
  /\ pending' = FALSE /\ unserved' = FALSE
  /\ wsize' = FALSE
  /\ clock' = 0 /\ target' = 0
  /\ running' = TRUE
  /\ thread' = "test"
  /\ UNCHANGED <<why, cycles, taken, wdata, applied>>

(* What the main thread goes on with, and what it begins. *)
MainStep == \/ CheckWait \/ WakeThread \/ StoreSize \/ HandleInterrupt
            \/ ClearPending \/ ScspReset \/ OtherAccess \/ WakeToStop \/ Join
MainCall == ScspWrite \/ ScspExec \/ ScspSyncThread \/ ScspDeInit \/ ScspInit

-----------------------------------------------------------------------------
(* The sound thread: ScspThread                                            *)

TestRunning ==
  /\ thread = "test"
  /\ thread' = IF running THEN "size" ELSE "none"
  /\ UNCHANGED <<mainVars, cycles, taken, running, clockVars, writeVars, irqVars>>

ReadSize ==
  /\ thread = "size"
  /\ thread' = IF wsize THEN "data" ELSE "clock"
  /\ UNCHANGED <<mainVars, cycles, taken, running, clockVars, writeVars, irqVars>>

(* Mutant: the buffer is given back as soon as it has been read. *)
Mut_ReadData ==
  /\ thread = "data"
  /\ thread' = "apply"
  /\ taken' = wdata
  /\ wsize' = FALSE
  /\ UNCHANGED <<mainVars, cycles, running, clockVars, wdata, applied, irqVars>>

ReadData ==
  /\ thread = "data"
  /\ thread' = "apply"
  /\ taken' = wdata
  /\ UNCHANGED <<mainVars, cycles, running, clockVars, writeVars, irqVars>>

(* ScspWriteByteDirect, ScspWriteWordDirect *)
ApplyWrite ==
  /\ thread = "apply"
  /\ thread' = "clear"
  /\ applied' = IF applied = None THEN taken ELSE Twice
  /\ UNCHANGED <<mainVars, cycles, taken, running, clockVars, wsize, wdata, irqVars>>

ClearSize ==
  /\ thread = "clear"
  /\ thread' = "clock"
  /\ wsize' = FALSE
  /\ UNCHANGED <<mainVars, cycles, taken, running, clockVars, wdata, applied, irqVars>>

(* Mutant: a long lag is executed at once. *)
Mut_Slice == Lag

Slice == IF Lag > MaxExec THEN MaxExec ELSE Lag

ReadTarget ==
  /\ thread = "clock"
  /\ cycles' = Slice
  /\ thread' = IF Slice > 0 THEN "exec" ELSE "sleep"
  /\ UNCHANGED <<mainVars, taken, running, clockVars, writeVars, irqVars>>

(* ScspRaiseInterrupt for the main processor, by a timer, the 68000 or DMA
   while the chip executes, or by a write that enables or requests it.  Once the
   thread is to stop it calls the handler itself. *)
RaiseInterrupt ==
  /\ thread \in {"exec", "apply"}
  /\ pending' = (pending \/ running)
  /\ unserved' = (unserved \/ running)
  /\ UNCHANGED <<mainVars, threadVars, running, clockVars, writeVars>>

(* The end of ScspDoExec. *)
AdvanceClock ==
  /\ thread = "exec"
  /\ thread' = "test"
  /\ clock' = (clock + cycles) % Modulus
  /\ UNCHANGED <<mainVars, cycles, taken, running, target, writeVars, irqVars>>

Sleep ==
  /\ thread = "sleep"
  /\ thread' = "asleep"
  /\ UNCHANGED <<mainVars, cycles, taken, running, clockVars, writeVars, irqVars>>

ThreadStep == \/ TestRunning \/ ReadSize \/ ReadData \/ ApplyWrite \/ ClearSize
              \/ ReadTarget \/ AdvanceClock \/ Sleep

-----------------------------------------------------------------------------
Next == MainStep \/ MainCall \/ ThreadStep \/ RaiseInterrupt

(* Both threads are scheduled; ScspDoExec and the write end; no call of the main
   thread is assumed. *)
Spec == Init /\ [][Next]_vars /\ WF_vars(MainStep) /\ WF_vars(ThreadStep)

-----------------------------------------------------------------------------
(* Properties                                                              *)

TypeOK ==
  /\ main \in {"idle", "store", "check", "wake", "interrupt", "clear", "direct",
               "stop", "join", "stopped"}
  /\ why \in {"write", "exec", "sync"}
  /\ thread \in {"none", "test", "size", "data", "apply", "clear", "clock",
                 "exec", "sleep", "asleep"}
  /\ {running, wsize, pending, unserved} \subseteq BOOLEAN
  /\ clock \in Clock /\ target \in Clock /\ cycles \in 0..MaxExec
  /\ wdata \in Writes \union {None} /\ taken \in Writes \union {None}
  /\ applied \in Writes \union {None, Twice}

Waiting == main \in {"check", "wake"}

(* While the main thread resets, saves or loads the sound chip or starts or stops
   the 68000, the sound thread neither executes nor applies a write: the wait of
   ScspSyncThread is enough, although it takes no lock. *)
Exclusive == main = "direct" => thread \notin {"data", "apply", "clear", "exec"}

(* The clock never passes the target, which a difference on u32 would turn into
   a lag of almost 2^32 cycles, and ScspExec returns with the thread at most a
   slice behind, also when the clocks wrap. *)
LagBounded ==
  /\ Lag <= MaxExec + MaxStep
  /\ ~(Waiting /\ why = "exec") => Lag <= MaxExec
  /\ thread = "exec" => 0 < cycles /\ cycles <= Lag

(* Register writes are synchronous: once the call returns, the thread has applied
   the very write it was given, once, and will not again. *)
WritesTakeEffect ==
  ~(main = "store" \/ (Waiting /\ why = "write")) => applied = wdata

(* The handler is called only for a request it has not been called for.  The
   converse fails: a request raised between the call and the clear goes with the
   one that is being handled. *)
NoSpuriousRequest == pending /\ main # "clear" => unserved

(* Every wait of the main thread ends, although a wake-up may be lost. *)
WaitsEnd == Waiting ~> ~Waiting

(* scsp_thread_running "goes to zero, which is used as a signal for the thread to
   stop": a call of ScspDeInit comes to its end. *)
DeInitEnds == main = "stop" ~> main = "stopped"
=============================================================================
